---------------------------- MODULE SigningProofs -----------------------------
(***************************************************************************)
(* Every stored withdrawal verifies and no request id is signed for twice,  *)
(* for any participants, threshold, budget and number of nonces, with each  *)
(* of the three signers and through every loss, late answer and restart.    *)
(*                                                                          *)
(* The argument.  A request id names one key and one message (Means, and    *)
(* MeansOne: the nonce is part of the id).  Only the call whose insert      *)
(* claimed the id works on it (Holders), and a claim is never taken twice,  *)
(* so at most one signature is made for it.  Whatever comes back for an id, *)
(* be it fresh, replayed or cached, is then the signature the worker's      *)
(* round is for, and the worker's list is complete when it is stored        *)
(* (Working).                                                               *)
(***************************************************************************)
EXTENDS Signing, FiniteSetTheorems, TLAPS

\* The only key and message a request id stands for.
Means(id, key, message) ==
  \/ id = <<"movement">> /\ key = TreasuryKey /\ message = 0
  \/ \E n \in Nat \ {0} :
       /\ message = n
       /\ \/ id = requestId(n) /\ key = TreasuryKey
          \/ id = Append(requestId(n), "source") /\ key = source

RequestIds == {<<"movement">>} \cup {requestId(n) : n \in Nat}
              \cup {Append(requestId(n), "source") : n \in Nat}
Keys == {TreasuryKey, "user"}
Signatures == [key : Keys \cup {"none"}, message : Nat]
Participants == Range(ParticipantSeq)
Calls == [id : RequestIds, key : Keys, message : Nat, caller : Nat, proof : Proofs \cup {authorization},
          at : {"claim", "key", "commit", "complete", "answered"}, asked : Nat,
          committed : SUBSET Participants, signature : Signatures]

SigningTypeOK ==
  /\ signerKind \in {"mock", "single", "threshold"} /\ source \in Keys
  /\ status \in {"none", "FUNDS_LOCKED", "SIGNING", "SIGN_FAILED", "SIGNED", "FAILED"}
  /\ signAttempts \in Nat /\ nonce \in Nat \ {0}
  /\ running \subseteq Calls
  /\ DOMAIN claims \subseteq RequestIds
  /\ claims \in [DOMAIN claims -> [message : Nat, outcome : {"requested", "succeeded", "failed"},
                                   signature : Signatures]]
  /\ made \subseteq [id : RequestIds, key : Keys, message : Nat, take : {1}]
  /\ signer.at \in {"idle", "open", "sign", "waiting", "attach", "store"}

\* The worker has the signatures of the rounds before the one it is at.
Collected(n, k) ==
  [i \in 1..k |-> [signer |-> rounds(n)[i].key,
                   signature |-> [key |-> rounds(n)[i].key, message |-> n]]]

Working ==
  /\ signer.at # "idle" =>
       /\ status = "SIGNING"
       /\ \E k \in 1..(Len(rounds(nonce)) + 1) :
            /\ signer = [at |-> signer.at, nonce |-> nonce, round |-> k,
                         signatures |-> Collected(nonce, k - 1)]
            /\ signer.at \in {"attach", "store"} <=> k = Len(rounds(nonce)) + 1
  /\ status = "SIGNED" =>
       signedTx = [message |-> nonce, signatures |-> Collected(nonce, Len(rounds(nonce)))]

SignatureOf(call) == [key |-> call.key, message |-> call.message]

CallsMean ==
  \A c \in running :
    /\ Means(c.id, c.key, c.message)
    /\ c.signature \in {NoSignature, SignatureOf(c)}
    /\ c.at = "complete" => c.signature = SignatureOf(c)

\* The call that claimed the id, while it works on it.
Holds(c) == c.at \in {"key", "commit", "complete"}

Holders ==
  /\ \A c \in running : Holds(c) =>
       /\ c.id \in DOMAIN claims
       /\ claims[c.id].outcome = "requested" /\ claims[c.id].message = c.message
       /\ c.at # "complete" => \A m \in made : m.id # c.id
  /\ \A c, d \in running : Holds(c) /\ Holds(d) /\ c.id = d.id => c = d

ClaimsMean ==
  \A id \in DOMAIN claims : claims[id].outcome = "succeeded" =>
    \E key \in Keys : /\ Means(id, key, claims[id].message)
                      /\ claims[id].signature = [key |-> key, message |-> claims[id].message]

MadeMean ==
  /\ \A m \in made : Means(m.id, m.key, m.message)
  /\ IF signerKind = "mock" THEN running = {} ELSE \A m \in made : m.id \in DOMAIN claims
  /\ OneRoundPerRequest

SInv == SigningTypeOK /\ Working /\ CallsMean /\ Holders /\ ClaimsMean /\ MadeMean

-----------------------------------------------------------------------------
(* Request ids and rounds.                                                  *)

LEMMA AppendToPair ==
  ASSUME NEW S, NEW a \in S, NEW b \in S, NEW c \in S
  PROVE  Len(Append(<<a, b>>, c)) = 3 /\ Append(<<a, b>>, c)[2] = b
OBVIOUS

LEMMA IdShapes ==
  ASSUME NEW n \in Nat, NEW m \in Nat
  PROVE  /\ requestId(n) # <<"movement">> /\ Append(requestId(n), "source") # <<"movement">>
         /\ requestId(n) # Append(requestId(m), "source")
         /\ requestId(n) = requestId(m) => n = m
         /\ Append(requestId(n), "source") = Append(requestId(m), "source") => n = m
<1>1. ASSUME NEW k \in Nat
      PROVE  /\ Len(requestId(k)) = 2 /\ requestId(k)[2] = k
             /\ Len(Append(requestId(k), "source")) = 3 /\ Append(requestId(k), "source")[2] = k
  <2> DEFINE S == {"withdrawal", "source"} \cup Nat
  <2>1. "withdrawal" \in S /\ "source" \in S /\ k \in S
    BY Zenon
  <2> HIDE DEF S
  <2>2. Len(requestId(k)) = 2 /\ requestId(k)[2] = k
    BY Zenon DEF requestId
  <2>3. Len(Append(requestId(k), "source")) = 3 /\ Append(requestId(k), "source")[2] = k
    <3>1. /\ Len(Append(<<"withdrawal", k>>, "source")) = 3
          /\ Append(<<"withdrawal", k>>, "source")[2] = k
      BY ONLY <2>1, AppendToPair
    <3> QED
      BY Zenon, <3>1 DEF requestId
  <2> QED
    BY Zenon, <2>2, <2>3
<1> DEFINE a(k) == requestId(k)
           b(k) == Append(requestId(k), "source")
           c == <<"movement">>
<1>2. Len(c) = 1 /\ \A k \in Nat : Len(a(k)) = 2 /\ a(k)[2] = k /\ Len(b(k)) = 3 /\ b(k)[2] = k
  BY Zenon, <1>1
<1> HIDE DEF a, b, c
<1>3. /\ a(n) # c /\ b(n) # c /\ a(n) # b(m)
      /\ a(n) = a(m) => n = m
      /\ b(n) = b(m) => n = m
  BY <1>2
<1> QED
  BY Zenon, <1>3 DEF a, b, c

\* A request id stands for one key and one message.
LEMMA MeansOne ==
  ASSUME NEW id, NEW k1, NEW m1, NEW k2, NEW m2, Means(id, k1, m1), Means(id, k2, m2)
  PROVE  k1 = k2 /\ m1 = m2
<1>1. CASE id = <<"movement">>
  BY Zenon, <1>1, IdShapes DEF Means
<1>2. CASE id # <<"movement">>
  <2>1. PICK n \in Nat \ {0} : /\ m1 = n
                               /\ \/ id = requestId(n) /\ k1 = TreasuryKey
                                  \/ id = Append(requestId(n), "source") /\ k1 = source
    BY Zenon, <1>2 DEF Means
  <2>2. PICK m \in Nat \ {0} : /\ m2 = m
                               /\ \/ id = requestId(m) /\ k2 = TreasuryKey
                                  \/ id = Append(requestId(m), "source") /\ k2 = source
    BY Zenon, <1>2 DEF Means
  <2> QED
    BY Zenon, <2>1, <2>2, IdShapes
<1> QED
  BY Zenon, <1>1, <1>2

LEMMA RoundsFacts ==
  ASSUME source \in Keys, NEW n \in Nat \ {0}
  PROVE  LET signers == buildWithdrawalTransaction(n).signers
         IN  /\ Len(signers) \in Nat \ {0} /\ DOMAIN signers = 1..Len(signers)
             /\ DOMAIN rounds(n) = 1..Len(signers) /\ Len(rounds(n)) = Len(signers)
             /\ \A i \in 1..Len(signers) :
                  /\ rounds(n)[i].key = signers[i] /\ signers[i] \in Keys
                  /\ rounds(n)[i].id \in RequestIds
                  /\ Means(rounds(n)[i].id, signers[i], n)
<1> DEFINE signers == buildWithdrawalTransaction(n).signers
<1>1. signers = IF source = TreasuryKey THEN <<TreasuryKey>> ELSE <<TreasuryKey, source>>
  BY Zenon DEF buildWithdrawalTransaction
<1>2. /\ Len(signers) \in Nat \ {0} /\ DOMAIN signers = 1..Len(signers)
      /\ \A i \in 1..Len(signers) : signers[i] = TreasuryKey \/ (signers[i] = source /\ source # TreasuryKey)
  <2>1. CASE source = TreasuryKey
    <3>1. signers = <<TreasuryKey>>
      BY Zenon, <1>1, <2>1
    <3> QED
      BY <3>1
  <2>2. CASE source # TreasuryKey
    <3>1. signers = <<TreasuryKey, source>>
      BY Zenon, <1>1, <2>2
    <3> QED
      BY <2>2, <3>1
  <2> QED
    BY Zenon, <2>1, <2>2
<1>3. rounds(n) = [i \in 1..Len(signers) |->
                     [key |-> signers[i],
                      id |-> IF signers[i] = source /\ source # TreasuryKey
                             THEN Append(requestId(n), "source") ELSE requestId(n)]]
  BY Zenon, <1>2 DEF rounds
<1> HIDE DEF signers
<1>4. DOMAIN rounds(n) = 1..Len(signers) /\ Len(rounds(n)) = Len(signers)
  BY <1>2, <1>3
<1>5. ASSUME NEW i \in 1..Len(signers)
      PROVE  /\ rounds(n)[i].key = signers[i] /\ signers[i] \in Keys
             /\ rounds(n)[i].id \in RequestIds /\ Means(rounds(n)[i].id, signers[i], n)
  <2>1. /\ rounds(n)[i].key = signers[i]
        /\ rounds(n)[i].id = IF signers[i] = source /\ source # TreasuryKey
                             THEN Append(requestId(n), "source") ELSE requestId(n)
    BY <1>3
  <2>2. signers[i] \in Keys
    BY Zenon, <1>2 DEF Keys
  <2>3. CASE signers[i] = source /\ source # TreasuryKey
    <3>1. rounds(n)[i].id = Append(requestId(n), "source")
      BY Zenon, <2>1, <2>3
    <3> QED
      BY Zenon, <2>1, <2>2, <2>3, <3>1 DEF RequestIds, Means
  <2>4. CASE ~(signers[i] = source /\ source # TreasuryKey)
    <3>1. rounds(n)[i].id = requestId(n) /\ signers[i] = TreasuryKey
      BY Zenon, <1>2, <2>1, <2>4
    <3> QED
      BY Zenon, <2>1, <2>2, <3>1 DEF RequestIds, Means
  <2> QED
    BY Zenon, <2>3, <2>4
<1> QED
  BY Zenon, <1>2, <1>4, <1>5 DEF signers

\* The round the worker is at.
LEMMA RoundFacts ==
  ASSUME SInv, signer.at \in {"open", "sign", "waiting"}
  PROVE  /\ signer.nonce = nonce /\ Round = rounds(nonce)[signer.round]
         /\ signer.round \in 1..Len(rounds(nonce)) /\ Len(rounds(nonce)) \in Nat
         /\ Round.key \in Keys /\ Round.id \in RequestIds /\ Means(Round.id, Round.key, nonce)
         /\ signer = [at |-> signer.at, nonce |-> nonce, round |-> signer.round,
                      signatures |-> Collected(nonce, signer.round - 1)]
<1>1. source \in Keys /\ nonce \in Nat \ {0} /\ signer.at # "idle"
  BY Zenon DEF SInv, SigningTypeOK
<1>2. PICK k \in 1..(Len(rounds(nonce)) + 1) :
        /\ signer = [at |-> signer.at, nonce |-> nonce, round |-> k,
                     signatures |-> Collected(nonce, k - 1)]
        /\ signer.at \in {"attach", "store"} <=> k = Len(rounds(nonce)) + 1
  BY Zenon, <1>1 DEF SInv, Working
<1>3. /\ Len(rounds(nonce)) \in Nat
      /\ \A i \in 1..Len(rounds(nonce)) :
           /\ rounds(nonce)[i].key \in Keys /\ rounds(nonce)[i].id \in RequestIds
           /\ Means(rounds(nonce)[i].id, rounds(nonce)[i].key, nonce)
  BY Zenon, <1>1, RoundsFacts
<1>4. signer.nonce = nonce /\ signer.round = k /\ k # Len(rounds(nonce)) + 1
  BY <1>2
<1>5. k \in 1..Len(rounds(nonce))
  BY <1>3, <1>4
<1> QED
  BY Zenon, <1>2, <1>3, <1>4, <1>5 DEF Round

\* The signature the round is for is added, and the worker has one more.
LEMMA ArrivedFacts ==
  ASSUME SInv, signer.at \in {"sign", "waiting"},
         signatureArrived([key |-> Round.key, message |-> nonce]),
         UNCHANGED <<status, nonce, source, signedTx>>
  PROVE  Working' /\ signer'.at \in {"attach", "open"}
<1> DEFINE k == signer.round
           n == Len(rounds(nonce))
           s == [signer |-> Round.key, signature |-> [key |-> Round.key, message |-> nonce]]
<1>1. /\ signer.nonce = nonce /\ Round = rounds(nonce)[k] /\ k \in 1..n /\ n \in Nat
      /\ signer = [at |-> signer.at, nonce |-> nonce, round |-> k,
                   signatures |-> Collected(nonce, k - 1)]
  BY Zenon, RoundFacts
<1>2. signer.signatures = Collected(nonce, k - 1)
  BY <1>1
<1>3. signer' = [signer EXCEPT !.signatures = Append(@, s),
                               !.at = IF k = n THEN "attach" ELSE "open", !.round = @ + 1]
  BY Zenon, <1>1 DEF signatureArrived
<1>4. Append(Collected(nonce, k - 1), s) = Collected(nonce, k)
  BY <1>1 DEF Collected
<1>5. signer' = [at |-> IF k = n THEN "attach" ELSE "open", nonce |-> nonce, round |-> k + 1,
                 signatures |-> Collected(nonce, k)]
  BY Zenon, <1>1, <1>2, <1>3, <1>4
<1>6. rounds(nonce)' = rounds(nonce)
  BY Zenon DEF rounds, buildWithdrawalTransaction
<1>7. \A j : Collected(nonce, j)' = Collected(nonce, j)
  BY Zenon, <1>6 DEF Collected
<1>8. status = "SIGNING" /\ k + 1 \in 1..(n + 1) /\ (k + 1) - 1 = k
  BY <1>1 DEF SInv, Working
<1>9. signer'.at = IF k = n THEN "attach" ELSE "open"
  BY Zenon, <1>5
<1> QED
  BY <1>1, <1>5, <1>6, <1>7, <1>8, <1>9 DEF Working

-----------------------------------------------------------------------------
(* The worker's steps.                                                      *)

LEMMA WorkingStays ==
  ASSUME Working, UNCHANGED <<source, status, nonce, signer, signedTx>>
  PROVE  Working'
<1>1. \A n : rounds(n)' = rounds(n)
  BY Zenon DEF rounds, buildWithdrawalTransaction
<1>2. \A n, k : Collected(n, k)' = Collected(n, k)
  BY <1>1, Zenon DEF Collected
<1> QED
  BY Zenon, <1>1, <1>2 DEF Working

LEMMA MeansStays ==
  ASSUME source' = source
  PROVE  \A id, key, message : Means(id, key, message)' = Means(id, key, message)
BY Zenon DEF Means

LEMMA RunningShrinks ==
  ASSUME SInv, running' \subseteq running, UNCHANGED <<signerKind, source, claims, made>>
  PROVE  CallsMean' /\ Holders' /\ ClaimsMean' /\ MadeMean'
<1>1. \A id, key, message : Means(id, key, message)' = Means(id, key, message)
  BY Zenon, MeansStays
<1>2. CallsMean'
  BY Zenon, <1>1 DEF SInv, CallsMean, SignatureOf
<1>3. Holders'
  BY Zenon DEF SInv, Holders, Holds
<1>4. ClaimsMean'
  BY Zenon, <1>1 DEF SInv, ClaimsMean
<1>5. MadeMean'
  BY Zenon, <1>1 DEF SInv, MadeMean, OneRoundPerRequest
<1> QED
  BY Zenon, <1>2, <1>3, <1>4, <1>5

\* The worker rests.
LEMMA StepRest ==
  ASSUME SInv, signFailed \/ retrySigning \/ Expired,
         running' \subseteq running, signer.at # "idle" \/ ~signFailed
  PROVE  SInv'
<1>1. UNCHANGED <<signerKind, source, claims, made>> /\ SigningTypeOK
  BY Zenon DEF signFailed, retrySigning, Expired, wiring, SInv
<1>2. CASE signFailed
  <2>1. status' = "SIGN_FAILED" /\ signer'.at = "idle" /\ signAttempts' = signAttempts + 1
        /\ nonce' = nonce
    BY Zenon, <1>2 DEF signFailed, SignerIdle
  <2>2. SigningTypeOK' /\ Working'
    BY <1>1, <2>1 DEF SigningTypeOK, Working
  <2> QED
    BY Zenon, <1>1, <2>2, RunningShrinks DEF SInv
<1>3. CASE retrySigning
  <2>1. /\ status = "SIGN_FAILED" /\ status' \in {"FAILED", "FUNDS_LOCKED"}
        /\ UNCHANGED <<signer, signAttempts, nonce>>
    BY Zenon, <1>3 DEF retrySigning
  <2>2. signer.at = "idle"
    BY Zenon, <2>1 DEF SInv, Working
  <2>3. SigningTypeOK' /\ Working'
    BY Zenon, <1>1, <2>1, <2>2 DEF SigningTypeOK, Working
  <2> QED
    BY Zenon, <1>1, <2>3, RunningShrinks DEF SInv
<1>4. CASE Expired
  <2>1. /\ status = "SIGNED" /\ status' = "FUNDS_LOCKED" /\ nonce' = nonce + 1
        /\ UNCHANGED <<signer, signAttempts>>
    BY Zenon, <1>4 DEF Expired
  <2>2. signer.at = "idle"
    BY Zenon, <2>1 DEF SInv, Working
  <2>3. SigningTypeOK' /\ Working'
    BY <1>1, <2>1, <2>2 DEF SigningTypeOK, Working
  <2> QED
    BY Zenon, <1>1, <2>3, RunningShrinks DEF SInv
<1> QED
  BY Zenon, <1>2, <1>3, <1>4

\* The worker goes on, and asks nobody.
LEMMA StepWork ==
  ASSUME SInv, claimForSigning \/ openRequest \/ attachSignatures \/ storeSigned
  PROVE  SInv'
<1>1. /\ UNCHANGED <<signerKind, source, claims, made, running, signAttempts, nonce>>
      /\ SigningTypeOK /\ source \in Keys /\ nonce \in Nat \ {0}
  BY Zenon DEF claimForSigning, openRequest, attachSignatures, storeSigned, wiring, SInv, SigningTypeOK
<1>2. CallsMean' /\ Holders' /\ ClaimsMean' /\ MadeMean'
  BY Zenon, <1>1, RunningShrinks
<1>3. Len(rounds(nonce)) \in Nat \ {0}
  BY Zenon, <1>1, RoundsFacts
<1>4. rounds(nonce)' = rounds(nonce) /\ \A k : Collected(nonce, k)' = Collected(nonce, k)
  BY Zenon, <1>1 DEF rounds, Collected, buildWithdrawalTransaction
<1>5. ASSUME NEW at \in {"sign", "store"}, signer' = [signer EXCEPT !.at = at],
             signer.at \in {"open", "sign", "waiting", "attach", "store"},
             at = "store" <=> signer.at \in {"attach", "store"}, UNCHANGED <<status, signedTx>>
      PROVE  SInv'
  <2>1. PICK k \in 1..(Len(rounds(nonce)) + 1) :
          /\ signer = [at |-> signer.at, nonce |-> nonce, round |-> k,
                       signatures |-> Collected(nonce, k - 1)]
          /\ signer.at \in {"attach", "store"} <=> k = Len(rounds(nonce)) + 1
    BY Zenon, <1>5 DEF SInv, Working
  <2>2. signer' = [at |-> at, nonce |-> nonce, round |-> k, signatures |-> Collected(nonce, k - 1)]
    BY <1>5, <2>1
  <2>3. signer'.at = at /\ status = "SIGNING"
    BY Zenon, <1>5, <2>2 DEF SInv, Working
  <2>4. Working'
    BY Zenon, <1>1, <1>4, <1>5, <2>1, <2>2, <2>3 DEF Working
  <2>5. SigningTypeOK'
    BY Zenon, <1>1, <1>5, <2>3 DEF SigningTypeOK
  <2> QED
    BY Zenon, <1>2, <2>4, <2>5 DEF SInv
<1>6. CASE claimForSigning
  <2>1. /\ status' = "SIGNING"
        /\ signer' = [at |-> "open", nonce |-> nonce, round |-> 1, signatures |-> <<>>]
    BY Zenon, <1>6 DEF claimForSigning, SignerIdle
  <2>2. Collected(nonce, 0) = <<>>
    BY DEF Collected
  <2>3. signer'.at = "open" /\ signer' = [at |-> "open", nonce |-> nonce, round |-> 1,
                                          signatures |-> Collected(nonce, 1 - 1)]
    BY <2>1, <2>2
  <2>4. Working'
    <3>1. 1 \in 1..(Len(rounds(nonce)) + 1) /\ 1 # Len(rounds(nonce)) + 1
      BY <1>3
    <3> QED
      BY Zenon, <1>1, <1>4, <2>1, <2>3, <3>1 DEF Working
  <2>5. SigningTypeOK'
    BY Zenon, <1>1, <2>1, <2>3 DEF SigningTypeOK
  <2> QED
    BY Zenon, <1>2, <2>4, <2>5 DEF SInv
<1>7. CASE openRequest
  BY Zenon, <1>5, <1>7 DEF openRequest
<1>8. CASE attachSignatures
  BY Zenon, <1>5, <1>8 DEF attachSignatures
<1>9. CASE storeSigned
  <2>1. /\ signer.at = "store" /\ status' = "SIGNED" /\ signer'.at = "idle"
        /\ signedTx' = [message |-> signer.nonce, signatures |-> signer.signatures]
    BY Zenon, <1>9 DEF storeSigned, SignerIdle
  <2>2. PICK k \in 1..(Len(rounds(nonce)) + 1) :
          /\ signer = [at |-> signer.at, nonce |-> nonce, round |-> k,
                       signatures |-> Collected(nonce, k - 1)]
          /\ signer.at \in {"attach", "store"} <=> k = Len(rounds(nonce)) + 1
    BY Zenon, <2>1 DEF SInv, Working
  <2>3. k - 1 = Len(rounds(nonce)) /\ signer.nonce = nonce
        /\ signer.signatures = Collected(nonce, k - 1)
    BY <1>3, <2>1, <2>2
  <2>4. Working'
    BY Zenon, <1>1, <1>4, <2>1, <2>3 DEF Working
  <2>5. SigningTypeOK'
    BY Zenon, <1>1, <2>1 DEF SigningTypeOK
  <2> QED
    BY Zenon, <1>2, <2>4, <2>5 DEF SInv
<1> QED
  BY Zenon, <1>6, <1>7, <1>8, <1>9

-----------------------------------------------------------------------------
(* The worker and its requests.                                             *)

LEMMA StepMock ==
  ASSUME SInv, mockSign
  PROVE  SInv'
<1> DEFINE cached == {s \in made : s.id = Round.id}
           fresh == [id |-> Round.id, key |-> Round.key, message |-> signer.nonce, take |-> 1]
           result == IF cached # {} THEN CHOOSE s \in cached : TRUE ELSE fresh
<1>1. /\ signer.at = "sign" /\ signerKind = "mock" /\ made' = made \cup {result}
      /\ signatureArrived([key |-> result.key, message |-> result.message])
      /\ UNCHANGED <<signerKind, source, status, signAttempts, nonce, claims, running, signedTx>>
  BY Zenon DEF mockSign, wiring
<1>2. /\ Round.key \in Keys /\ Round.id \in RequestIds /\ Means(Round.id, Round.key, nonce)
      /\ signer.nonce = nonce /\ nonce \in Nat
  BY Zenon, <1>1, RoundFacts DEF SInv, SigningTypeOK
<1>3. /\ result.id = Round.id /\ Means(result.id, result.key, result.message)
      /\ result \in [id : RequestIds, key : Keys, message : Nat, take : {1}]
      /\ result \in made \/ \A s \in made : s.id # result.id
  <2>1. CASE cached # {}
    <3>1. result \in made /\ result.id = Round.id
      BY Zenon, <2>1
    <3> HIDE DEF result
    <3> QED
      BY Zenon, <3>1 DEF SInv, MadeMean, SigningTypeOK
  <2>2. CASE cached = {}
    <3>1. result = fresh /\ \A s \in made : s.id # Round.id
      BY Zenon, <2>2
    <3> HIDE DEF result, cached
    <3> QED
      BY Zenon, <1>2, <3>1
  <2> QED
    BY Zenon, <2>1, <2>2
<1> HIDE DEF result, cached, fresh
<1>4. result.key = Round.key /\ result.message = nonce
  BY Zenon, <1>2, <1>3, MeansOne
<1>5. Working' /\ signer'.at \in {"attach", "open"}
  BY Zenon, <1>1, <1>4, ArrivedFacts
<1>6. SigningTypeOK'
  BY Zenon, <1>1, <1>3, <1>5 DEF SInv, SigningTypeOK
<1>7. running = {}
  BY Zenon, <1>1 DEF SInv, MadeMean
<1>8. \A id, key, message : Means(id, key, message)' = Means(id, key, message)
  BY Zenon, <1>1, MeansStays
<1>9. CallsMean' /\ Holders'
  BY Zenon, <1>1, <1>7 DEF CallsMean, Holders
<1>10. ClaimsMean'
  BY Zenon, <1>1, <1>8 DEF SInv, ClaimsMean
<1>11. MadeMean'
  <2>1. OneRoundPerRequest'
    BY Zenon, <1>1, <1>3 DEF SInv, MadeMean, OneRoundPerRequest
  <2> QED
    BY Zenon, <1>1, <1>3, <1>7, <1>8, <2>1 DEF SInv, MadeMean
<1> QED
  BY Zenon, <1>5, <1>6, <1>9, <1>10, <1>11 DEF SInv

LEMMA StepAsk ==
  ASSUME SInv, sign
  PROVE  SInv'
<1> DEFINE c == [id |-> Round.id, key |-> Round.key, message |-> signer.nonce,
                 caller |-> signAttempts, proof |-> authorization, at |-> "claim", asked |-> 0,
                 committed |-> {}, signature |-> NoSignature]
<1>1. /\ signer.at = "sign" /\ signerKind # "mock" /\ running' = running \cup {c}
      /\ signer' = [signer EXCEPT !.at = "waiting"]
      /\ UNCHANGED <<signerKind, source, status, signAttempts, nonce, claims, made, signedTx>>
  BY Zenon DEF sign, wiring
<1>2. /\ Round.key \in Keys /\ Round.id \in RequestIds /\ Means(Round.id, Round.key, nonce)
      /\ signer.nonce = nonce /\ nonce \in Nat /\ signAttempts \in Nat
      /\ signer = [at |-> signer.at, nonce |-> nonce, round |-> signer.round,
                   signatures |-> Collected(nonce, signer.round - 1)]
      /\ signer.round \in 1..Len(rounds(nonce)) /\ Len(rounds(nonce)) \in Nat
  BY Zenon, <1>1, RoundFacts DEF SInv, SigningTypeOK
<1>3. NoSignature \in Signatures
  BY Zenon DEF NoSignature, Signatures
<1>4. c \in Calls /\ c.at = "claim" /\ Means(c.id, c.key, c.message) /\ c.signature = NoSignature
  BY Zenon, <1>2, <1>3 DEF Calls
<1> HIDE DEF c
<1>5. signer' = [at |-> "waiting", nonce |-> nonce, round |-> signer.round,
                 signatures |-> Collected(nonce, signer.round - 1)]
  BY <1>1, <1>2
<1>6. Working'
  <2>1. signer'.at = "waiting" /\ status' = "SIGNING" /\ nonce' = nonce
    BY Zenon, <1>1, <1>5 DEF SInv, Working
  <2>2. rounds(nonce)' = rounds(nonce) /\ \A k : Collected(nonce, k)' = Collected(nonce, k)
    BY Zenon, <1>1 DEF rounds, Collected, buildWithdrawalTransaction
  <2>3. signer.round \in 1..(Len(rounds(nonce)) + 1) /\ signer.round # Len(rounds(nonce)) + 1
    BY <1>2
  <2> QED
    BY Zenon, <1>1, <1>5, <2>1, <2>2, <2>3 DEF Working
<1>7. SigningTypeOK'
  BY Zenon, <1>1, <1>4, <1>5 DEF SInv, SigningTypeOK
<1>8. \A id, key, message : Means(id, key, message)' = Means(id, key, message)
  BY Zenon, <1>1, MeansStays
<1>9. CallsMean'
  BY Zenon, <1>1, <1>4, <1>8 DEF SInv, CallsMean, SignatureOf
<1>10. Holders'
  BY Zenon, <1>1, <1>4 DEF SInv, Holders, Holds
<1>11. ClaimsMean' /\ MadeMean'
  BY Zenon, <1>1, <1>8 DEF SInv, ClaimsMean, MadeMean, OneRoundPerRequest
<1> QED
  BY Zenon, <1>6, <1>7, <1>9, <1>10, <1>11 DEF SInv

LEMMA StepAnswer ==
  ASSUME SInv, signed \/ signRefused \/ signGivesUp \/ answerLost
  PROVE  SInv'
<1>1. CASE signed
  <2>1. PICK c \in running :
          /\ Awaiting(c) /\ c.signature # NoSignature /\ signatureArrived(c.signature)
          /\ running' = running \ {c}
          /\ UNCHANGED <<wiring, status, signAttempts, nonce, requestRows, claims, nonceStore,
                         made, signedTx>>
    BY Zenon, <1>1 DEF signed
  <2>2. signer.at = "waiting" /\ c.id = Round.id
    BY Zenon, <2>1 DEF Awaiting
  <2>3. Means(Round.id, Round.key, nonce)
    BY Zenon, <2>2, RoundFacts
  <2>4. Means(c.id, c.key, c.message) /\ c.signature = [key |-> c.key, message |-> c.message]
    BY Zenon, <2>1 DEF SInv, CallsMean, SignatureOf
  <2>5. c.key = Round.key /\ c.message = nonce
    BY Zenon, <2>2, <2>3, <2>4, MeansOne
  <2>6. Working' /\ signer'.at \in {"attach", "open"}
    BY Zenon, <2>1, <2>2, <2>4, <2>5, ArrivedFacts DEF wiring
  <2>7. SigningTypeOK'
    BY Zenon, <2>1, <2>6 DEF SInv, SigningTypeOK, wiring
  <2> QED
    BY Zenon, <2>1, <2>6, <2>7, RunningShrinks DEF SInv, wiring
<1>2. CASE signRefused
  <2>1. PICK c \in running : Awaiting(c) /\ signFailed /\ running' = running \ {c}
    BY Zenon, <1>2 DEF signRefused
  <2> QED
    BY Zenon, <2>1, StepRest DEF Awaiting
<1>3. CASE signGivesUp
  BY Zenon, <1>3, StepRest DEF signGivesUp
<1>4. CASE answerLost
  <2>1. PICK c \in running :
          /\ running' = running \ {c}
          /\ UNCHANGED <<wiring, status, signAttempts, nonce, signer, requestRows, claims,
                         nonceStore, made, signedTx>>
    BY Zenon, <1>4 DEF answerLost
  <2>2. SigningTypeOK'
    BY Zenon, <2>1 DEF SInv, SigningTypeOK, wiring
  <2>3. Working'
    BY Zenon, <2>1, WorkingStays DEF SInv, wiring
  <2> QED
    BY Zenon, <2>1, <2>2, <2>3, RunningShrinks DEF SInv, wiring
<1> QED
  BY Zenon, <1>1, <1>2, <1>3, <1>4

-----------------------------------------------------------------------------
(* The service's steps.                                                     *)

LEMMA WorkerStays ==
  ASSUME SInv, UNCHANGED workerVars
  PROVE  /\ Working' /\ UNCHANGED <<signerKind, source, status, signAttempts, nonce, signer>>
         /\ \A id, key, message : Means(id, key, message)' = Means(id, key, message)
<1>1. UNCHANGED <<signerKind, source, status, signAttempts, nonce, signer, signedTx>>
  BY Zenon DEF workerVars, wiring
<1>2. Working'
  BY Zenon, <1>1, WorkingStays DEF SInv
<1> QED
  BY Zenon, <1>1, <1>2, MeansStays

LEMMA CallFacts ==
  ASSUME SInv, NEW call \in running
  PROVE  /\ call \in Calls /\ signerKind # "mock" /\ SignatureOf(call) \in Signatures
         /\ call.signature \in Signatures /\ NoSignature \in Signatures
<1>1. call \in Calls
  BY Zenon DEF SInv, SigningTypeOK
<1> QED
  BY Zenon, <1>1 DEF SInv, MadeMean, Calls, SignatureOf, Signatures, NoSignature, Keys

\* The call moves without touching a claim or making a signature.
LEMMA StepQuiet ==
  ASSUME SInv, NEW call \in running, NEW next \in Calls, Handle(call, next),
         UNCHANGED <<workerVars, claims, made>>,
         next.id = call.id, next.key = call.key, next.message = call.message,
         next.signature \in {NoSignature, SignatureOf(call)},
         Holds(next) => next.at = call.at /\ call.at \in {"key", "commit"}
  PROVE  SInv'
<1>1. /\ Working' /\ UNCHANGED <<signerKind, source, status, signAttempts, nonce, signer>>
      /\ \A id, key, message : Means(id, key, message)' = Means(id, key, message)
  BY Zenon, WorkerStays
<1>2. running' = (running \ {call}) \cup {next}
  BY Zenon DEF Handle
<1>3. SigningTypeOK'
  BY Zenon, <1>1, <1>2 DEF SInv, SigningTypeOK
<1>4. CallsMean'
  BY Zenon, <1>1, <1>2 DEF SInv, CallsMean, SignatureOf, Holds
<1>5. Holders'
  BY <1>2 DEF SInv, Holders, Holds
<1>6. ClaimsMean'
  BY Zenon, <1>1 DEF SInv, ClaimsMean
<1>7. MadeMean'
  BY Zenon, <1>1, CallFacts DEF SInv, MadeMean, OneRoundPerRequest
<1> QED
  BY Zenon, <1>1, <1>3, <1>4, <1>5, <1>6, <1>7 DEF SInv

LEMMA StepClaimed ==
  ASSUME SInv, NEW call \in running, call.at = "claim", call.id \notin DOMAIN claims, Claimed(call)
  PROVE  SInv'
<1> DEFINE at == IF signerKind = "single" THEN "key" ELSE "commit"
           next == [call EXCEPT !.at = at]
           row == [message |-> call.message, outcome |-> "requested", signature |-> NoSignature]
<1>1. /\ claims' = Extended(claims, call.id, row) /\ running' = (running \ {call}) \cup {next}
      /\ UNCHANGED workerVars /\ made' = made
  BY Zenon DEF Claimed, Handle
<1>2. /\ call \in Calls /\ signerKind # "mock" /\ NoSignature \in Signatures
  BY Zenon, CallFacts
<1>3. /\ next \in Calls /\ next.id = call.id /\ next.key = call.key /\ next.message = call.message
      /\ next.signature = call.signature /\ next.at \in {"key", "commit"}
  BY Zenon, <1>2 DEF Calls
<1>4. call.id \in RequestIds /\ row \in [message : Nat, outcome : {"requested", "succeeded", "failed"},
                                          signature : Signatures]
      /\ row.message = call.message /\ row.outcome = "requested"
  BY Zenon, <1>2 DEF Calls
<1> HIDE DEF next, row
<1>5. /\ DOMAIN claims' = DOMAIN claims \cup {call.id} /\ claims'[call.id] = row
      /\ \A id \in DOMAIN claims : claims'[id] = claims[id]
  BY Zenon, <1>1 DEF Extended
<1>6. claims' \in [DOMAIN claims' -> [message : Nat, outcome : {"requested", "succeeded", "failed"},
                                       signature : Signatures]]
  BY Zenon, <1>1, <1>4 DEF Extended, SInv, SigningTypeOK
<1>7. /\ Working' /\ UNCHANGED <<signerKind, source, status, signAttempts, nonce, signer>>
      /\ \A id, key, message : Means(id, key, message)' = Means(id, key, message)
  BY Zenon, <1>1, WorkerStays
<1>8. SigningTypeOK'
  BY Zenon, <1>1, <1>3, <1>4, <1>5, <1>6, <1>7 DEF SInv, SigningTypeOK
<1>9. CallsMean'
  BY Zenon, <1>1, <1>3, <1>7 DEF SInv, CallsMean, SignatureOf
<1>10. \A m \in made : m.id \in DOMAIN claims
  BY Zenon, <1>2 DEF SInv, MadeMean
<1>11. Holders'
  <2>1. \A c \in running : Holds(c) => c.id \in DOMAIN claims
    BY Zenon DEF SInv, Holders
  <2>2. \A c \in running' : Holds(c) =>
          /\ c.id \in DOMAIN claims' /\ claims'[c.id].outcome = "requested"
          /\ claims'[c.id].message = c.message
          /\ c.at # "complete" => \A m \in made' : m.id # c.id
    BY <1>1, <1>3, <1>4, <1>5, <1>10, <2>1 DEF SInv, Holders
  <2>3. \A c, d \in running' : Holds(c) /\ Holds(d) /\ c.id = d.id => c = d
    BY <1>1, <1>3, <2>1 DEF SInv, Holders
  <2> QED
    BY Zenon, <2>2, <2>3 DEF Holders, Holds
<1>12. ClaimsMean'
  <2>1. claims'[call.id].outcome # "succeeded"
    BY Zenon, <1>4, <1>5
  <2> QED
    BY Zenon, <1>5, <1>7, <2>1 DEF SInv, ClaimsMean
<1>13. MadeMean'
  BY Zenon, <1>1, <1>2, <1>5, <1>7 DEF SInv, MadeMean, OneRoundPerRequest
<1> QED
  BY Zenon, <1>7, <1>8, <1>9, <1>11, <1>12, <1>13 DEF SInv

\* The one that claimed the id makes the signature, and is done with it.
LEMMA StepMade ==
  ASSUME SInv, NEW call \in running, call.at \in {"key", "commit"}, Made(call),
         UNCHANGED <<workerVars, claims>>
  PROVE  SInv'
<1> DEFINE next == [call EXCEPT !.at = "complete", !.signature = SignatureOf(call)]
           same == {s \in made : s.id = call.id}
           m == [id |-> call.id, key |-> call.key, message |-> call.message, take |-> 1 + Cardinality(same)]
<1>1. made' = made \cup {m} /\ running' = (running \ {call}) \cup {next}
  BY Zenon DEF Made, Handle, SignatureOf
<1>2. /\ call \in Calls /\ signerKind # "mock" /\ SignatureOf(call) \in Signatures
  BY Zenon, CallFacts
<1>3. /\ Holds(call) /\ call.id \in DOMAIN claims /\ claims[call.id].outcome = "requested"
      /\ claims[call.id].message = call.message /\ \A s \in made : s.id # call.id
  BY Zenon DEF SInv, Holders, Holds
<1>4. same = {}
  BY Zenon, <1>3
<1>5. m = [id |-> call.id, key |-> call.key, message |-> call.message, take |-> 1]
  <2>1. Cardinality({}) = 0
    BY Zenon, FS_EmptySet
  <2>2. 1 + Cardinality(same) = 1
    BY <1>4, <2>1
  <2> QED
    BY Zenon, <2>2
<1>6. /\ next \in Calls /\ next.id = call.id /\ next.key = call.key /\ next.message = call.message
      /\ next.signature = SignatureOf(call) /\ next.at = "complete"
  BY Zenon, <1>2 DEF Calls
<1>7. /\ m \in [id : RequestIds, key : Keys, message : Nat, take : {1}]
      /\ m.id = call.id /\ m.key = call.key /\ m.message = call.message
  BY Zenon, <1>2, <1>5 DEF Calls
<1> HIDE DEF next, m, same
<1>8. /\ Working' /\ UNCHANGED <<signerKind, source, status, signAttempts, nonce, signer>>
      /\ \A id, key, message : Means(id, key, message)' = Means(id, key, message)
  BY Zenon, WorkerStays
<1>9. SigningTypeOK'
  BY Zenon, <1>1, <1>6, <1>7, <1>8 DEF SInv, SigningTypeOK
<1>10. CallsMean'
  BY Zenon, <1>1, <1>6, <1>8 DEF SInv, CallsMean, SignatureOf
<1>11. Holders'
  <2>1. \A c \in running : Holds(c) /\ c.id = call.id => c = call
    BY Zenon, <1>3 DEF SInv, Holders
  <2>2. \A c \in running' : Holds(c) =>
          /\ c.id \in DOMAIN claims /\ claims[c.id].outcome = "requested"
          /\ claims[c.id].message = c.message
          /\ c.at # "complete" => \A s \in made' : s.id # c.id
    BY Zenon, <1>1, <1>3, <1>6, <1>7, <2>1 DEF SInv, Holders
  <2>3. \A c, d \in running' : Holds(c) /\ Holds(d) /\ c.id = d.id => c = d
    BY <1>1, <1>6, <2>1 DEF SInv, Holders
  <2> QED
    BY Zenon, <2>2, <2>3 DEF Holders, Holds
<1>12. ClaimsMean'
  BY Zenon, <1>8 DEF SInv, ClaimsMean
<1>13. MadeMean'
  <2>1. Means(call.id, call.key, call.message)
    BY Zenon DEF SInv, CallsMean
  <2>2. OneRoundPerRequest'
    BY <1>1, <1>3, <1>7 DEF SInv, MadeMean, OneRoundPerRequest
  <2> QED
    BY Zenon, <1>1, <1>2, <1>3, <1>7, <1>8, <2>1, <2>2 DEF SInv, MadeMean
<1> QED
  BY Zenon, <1>8, <1>9, <1>10, <1>11, <1>12, <1>13 DEF SInv

\* The one that claimed the id settles its row.
LEMMA StepSettled ==
  ASSUME SInv, NEW call \in running, Holds(call), Handle(call, [call EXCEPT !.at = "answered"]),
         UNCHANGED <<workerVars, made>>,
         \/ call.at = "complete" /\ claims' = [claims EXCEPT ![call.id].outcome = "succeeded",
                                                             ![call.id].signature = call.signature]
         \/ claims' = [claims EXCEPT ![call.id].outcome = "failed"]
  PROVE  SInv'
<1> DEFINE next == [call EXCEPT !.at = "answered"]
           Row == [message : Nat, outcome : {"requested", "succeeded", "failed"},
                   signature : Signatures]
<1>1. running' = (running \ {call}) \cup {next}
  BY Zenon DEF Handle
<1>2. call \in Calls /\ signerKind # "mock" /\ call.signature \in Signatures
  BY Zenon, CallFacts
<1>3. /\ next \in Calls /\ next.id = call.id /\ next.key = call.key /\ next.message = call.message
      /\ next.signature = call.signature /\ next.at = "answered"
  BY Zenon, <1>2 DEF Calls
<1> HIDE DEF next
<1>4. call.id \in DOMAIN claims /\ claims[call.id].message = call.message
      /\ claims \in [DOMAIN claims -> Row] /\ claims[call.id] \in Row
  BY Zenon DEF SInv, Holders, SigningTypeOK
<1>5. /\ DOMAIN claims' = DOMAIN claims /\ claims'[call.id] \in Row
      /\ claims'[call.id].message = call.message
      /\ claims'[call.id].outcome = "succeeded" =>
           call.at = "complete" /\ claims'[call.id].signature = call.signature
      /\ \A id \in DOMAIN claims : id # call.id => claims'[id] = claims[id]
  <2>1. CASE call.at = "complete" /\ claims' = [claims EXCEPT ![call.id].outcome = "succeeded",
                                                             ![call.id].signature = call.signature]
    BY Zenon, <1>2, <1>4, <2>1
  <2>2. CASE claims' = [claims EXCEPT ![call.id].outcome = "failed"]
    BY Zenon, <1>4, <2>2
  <2> QED
    BY Zenon, <2>1, <2>2
<1>6. claims' \in [DOMAIN claims' -> Row]
  <2>1. claims' = [id \in DOMAIN claims |-> claims'[id]]
    BY Zenon, <1>4
  <2>2. \A id \in DOMAIN claims : claims'[id] \in Row
    BY Zenon, <1>4, <1>5
  <2> HIDE DEF Row
  <2> QED
    BY Zenon, <1>5, <2>1, <2>2
<1>7. /\ Working' /\ UNCHANGED <<signerKind, source, status, signAttempts, nonce, signer>>
      /\ \A id, key, message : Means(id, key, message)' = Means(id, key, message)
  BY Zenon, WorkerStays
<1>8. SigningTypeOK'
  BY Zenon, <1>1, <1>3, <1>5, <1>6, <1>7 DEF SInv, SigningTypeOK
<1>9. CallsMean'
  BY Zenon, <1>1, <1>3, <1>7 DEF SInv, CallsMean, SignatureOf
<1>10. Holders'
  <2>1. \A c \in running : Holds(c) /\ c.id = call.id => c = call
    BY Zenon DEF SInv, Holders
  <2>2. \A c \in running' : Holds(c) => c \in running /\ c # call
    BY Zenon, <1>1, <1>3 DEF Holds
  <2>3. \A c \in running' : Holds(c) =>
          /\ c.id \in DOMAIN claims' /\ claims'[c.id].outcome = "requested"
          /\ claims'[c.id].message = c.message
          /\ c.at # "complete" => \A s \in made' : s.id # c.id
    BY Zenon, <1>5, <2>1, <2>2 DEF SInv, Holders
  <2> QED
    BY Zenon, <2>2, <2>3 DEF SInv, Holders, Holds
<1>11. ClaimsMean'
  <2> SUFFICES ASSUME NEW id \in DOMAIN claims, claims'[id].outcome = "succeeded"
               PROVE  \E key \in Keys :
                        /\ Means(id, key, claims'[id].message)
                        /\ claims'[id].signature = [key |-> key, message |-> claims'[id].message]
    BY Zenon, <1>5, <1>7 DEF ClaimsMean
  <2>1. CASE id = call.id
    <3>1. /\ Means(call.id, call.key, call.message) /\ call.key \in Keys
          /\ claims'[id].signature = [key |-> call.key, message |-> call.message]
      BY Zenon, <1>2, <1>5, <2>1 DEF SInv, CallsMean, SignatureOf, Calls
    <3> QED
      BY Zenon, <1>5, <2>1, <3>1
  <2>2. CASE id # call.id
    BY Zenon, <1>5, <2>2 DEF SInv, ClaimsMean
  <2> QED
    BY Zenon, <2>1, <2>2
<1>12. MadeMean'
  BY Zenon, <1>2, <1>5, <1>7 DEF SInv, MadeMean, OneRoundPerRequest
<1> QED
  BY Zenon, <1>7, <1>8, <1>9, <1>10, <1>11, <1>12 DEF SInv

\* Calls may be forgotten.
LEMMA StepForgets ==
  ASSUME SInv, running' \subseteq running, UNCHANGED <<workerVars, claims, made>>
  PROVE  SInv'
<1>1. /\ Working' /\ UNCHANGED <<signerKind, source, status, signAttempts, nonce, signer>>
  BY Zenon, WorkerStays
<1>2. SigningTypeOK'
  BY Zenon, <1>1 DEF SInv, SigningTypeOK
<1> QED
  BY Zenon, <1>1, <1>2, RunningShrinks DEF SInv

LEMMA StepService ==
  ASSUME SInv, NEW call \in running, ServiceStep(call)
  PROVE  SInv'
<1>1. /\ call \in Calls /\ call.signature \in {NoSignature, SignatureOf(call)}
      /\ Means(call.id, call.key, call.message)
      /\ call.at = "complete" => call.signature = SignatureOf(call)
  BY Zenon, CallFacts DEF SInv, CallsMean
<1>2. ASSUME refuse(call), call.at = "claim"
      PROVE  SInv'
  <2> DEFINE next == [call EXCEPT !.at = "answered"]
  <2>1. /\ next \in Calls /\ next.id = call.id /\ next.key = call.key
        /\ next.message = call.message /\ next.signature = call.signature /\ next.at = "answered"
    BY Zenon, <1>1 DEF Calls
  <2>2. Handle(call, next) /\ UNCHANGED <<workerVars, claims, made>>
    BY Zenon, <1>2 DEF refuse
  <2> HIDE DEF next
  <2>3. ~Holds(next)
    BY Zenon, <2>1 DEF Holds
  <2> QED
    BY Zenon, <1>1, <2>1, <2>2, <2>3, StepQuiet
<1>3. CASE claim_request(call)
  <2>1. CASE refuse(call)
    BY Zenon, <1>2, <1>3, <2>1 DEF claim_request
  <2>2. CASE call.id \notin DOMAIN claims /\ Claimed(call)
    BY Zenon, <1>3, <2>2, StepClaimed DEF claim_request
  <2>3. CASE /\ call.id \in DOMAIN claims /\ claims[call.id].message = call.message
             /\ claims[call.id].outcome = "succeeded"
             /\ Handle(call, [call EXCEPT !.at = "answered",
                                          !.signature = claims[call.id].signature])
             /\ UNCHANGED <<workerVars, claims, nonceStore, made>>
    <3> DEFINE next == [call EXCEPT !.at = "answered", !.signature = claims[call.id].signature]
    <3>1. PICK key \in Keys : /\ Means(call.id, key, call.message)
                              /\ claims[call.id].signature = [key |-> key, message |-> call.message]
      BY Zenon, <2>3 DEF SInv, ClaimsMean
    <3>2. claims[call.id].signature = SignatureOf(call)
      BY Zenon, <1>1, <3>1, MeansOne DEF SignatureOf
    <3>3. /\ next \in Calls /\ next.id = call.id /\ next.key = call.key
          /\ next.message = call.message /\ next.signature = SignatureOf(call)
          /\ next.at = "answered"
      BY Zenon, <1>1, <3>2, CallFacts DEF Calls
    <3>4. Handle(call, next) /\ UNCHANGED <<workerVars, claims, made>>
      BY Zenon, <2>3
    <3> HIDE DEF next
    <3>5. ~Holds(next)
      BY Zenon, <3>3 DEF Holds
    <3> QED
      BY Zenon, <3>3, <3>4, <3>5, StepQuiet
  <2> QED
    BY Zenon, <1>3, <2>1, <2>2, <2>3 DEF claim_request
<1>4. CASE signWithKey(call)
  BY Zenon, <1>4, StepMade DEF signWithKey
<1>5. CASE aggregate(call)
  BY Zenon, <1>5, StepMade DEF aggregate, Sharing
<1>6. CASE complete(call)
  BY Zenon, <1>6, StepSettled DEF complete, Holds
<1>7. CASE keyUnusable(call) \/ thresholdNotMet(call) \/ shareFails(call)
  BY Zenon, <1>7, StepSettled DEF keyUnusable, thresholdNotMet, shareFails, failRequest, Holds, Sharing
<1>8. CASE commit(call)
  <2> DEFINE p == ParticipantSeq[call.asked + 1]
             asked == [call EXCEPT !.asked = @ + 1]
             heard == [asked EXCEPT !.committed = @ \cup {p}]
  <2>1. p \in Participants
    <3>1. call.asked \in Nat /\ call.asked < Len(ParticipantSeq)
      BY Zenon, <1>1, <1>8 DEF Calls, commit
    <3> QED
      <4>1. DOMAIN ParticipantSeq = 1..Len(ParticipantSeq) /\ Len(ParticipantSeq) \in Nat
        BY Zenon, SigningAssumption
      <4>2. call.asked + 1 \in DOMAIN ParticipantSeq
        BY <3>1, <4>1
      <4> QED
        BY Zenon, <4>2 DEF Participants, Range
  <2>2. /\ asked \in Calls /\ asked.id = call.id /\ asked.key = call.key
        /\ asked.message = call.message /\ asked.signature = call.signature
        /\ asked.at = call.at
    BY <1>1 DEF Calls
  <2>3. /\ heard \in Calls /\ heard.id = call.id /\ heard.key = call.key
        /\ heard.message = call.message /\ heard.signature = call.signature
        /\ heard.at = call.at
    <3>1. asked.committed \cup {p} \in SUBSET Participants
      BY Zenon, <2>1, <2>2 DEF Calls
    <3> HIDE DEF asked, p
    <3> QED
      BY Zenon, <2>2, <3>1 DEF Calls
  <2>4. \E next \in {asked, heard} : Handle(call, next)
    BY Zenon, <1>8 DEF commit
  <2> HIDE DEF asked, heard
  <2>5. PICK next \in {asked, heard} : Handle(call, next)
    BY Zenon, <2>4
  <2>6. call.at = "commit" /\ UNCHANGED <<workerVars, claims, made>>
    BY Zenon, <1>8 DEF commit
  <2> QED
    BY Zenon, <1>1, <2>2, <2>3, <2>5, <2>6, StepQuiet
<1>9. CASE share(call)
  BY Zenon, <1>9, StepForgets DEF share
<1> QED
  BY Zenon, <1>3, <1>4, <1>5, <1>6, <1>7, <1>8, <1>9 DEF ServiceStep

-----------------------------------------------------------------------------
LEMMA SigningInitInv ==
  ASSUME SigningInit
  PROVE  SInv
<1> DEFINE first == [id |-> <<"movement">>, key |-> TreasuryKey, message |-> 0, caller |-> 0,
                     proof |-> movement, at |-> "claim", asked |-> 0, committed |-> {},
                     signature |-> NoSignature]
<1>1. /\ signer.at = "idle" /\ status \in {"FUNDS_LOCKED", "none"} /\ made = {}
      /\ claims = <<>> /\ signAttempts = 0 /\ nonce = 1
      /\ signerKind \in {"mock", "single", "threshold"} /\ source \in Keys
  BY Zenon DEF SigningInit, SignerIdle, Keys
<1>2. running = {} \/ (running = {first} /\ movement \in Proofs /\ signerKind = "single")
  BY Zenon DEF SigningInit
<1>3. NoSignature \in Signatures
  BY Zenon DEF NoSignature, Signatures
<1>4. movement \in Proofs => first \in Calls
  BY Zenon, <1>3 DEF Calls, RequestIds, Keys
<1>5. first.id = <<"movement">> /\ first.key = TreasuryKey /\ first.message = 0 /\ first.at = "claim"
      /\ first.signature = NoSignature
  BY Zenon
<1> HIDE DEF first
<1>6. DOMAIN claims = {} /\ claims \in [DOMAIN claims -> [message : Nat,
        outcome : {"requested", "succeeded", "failed"}, signature : Signatures]]
  BY <1>1
<1>7. SigningTypeOK
  BY <1>1, <1>2, <1>4, <1>6 DEF SigningTypeOK
<1>8. Working
  BY Zenon, <1>1 DEF Working
<1>9. CallsMean
  BY Zenon, <1>2, <1>5 DEF CallsMean, Means
<1>10. Holders
  BY Zenon, <1>2, <1>5 DEF Holders, Holds
<1>11. ClaimsMean /\ MadeMean
  BY Zenon, <1>1, <1>2, <1>6 DEF ClaimsMean, MadeMean, OneRoundPerRequest
<1> QED
  BY Zenon, <1>7, <1>8, <1>9, <1>10, <1>11 DEF SInv

LEMMA SigningStep ==
  ASSUME SInv, [SigningNext]_signingVars
  PROVE  SInv'
<1>1. CASE claimForSigning \/ openRequest \/ attachSignatures \/ storeSigned
  BY Zenon, <1>1, StepWork
<1>2. CASE mockSign
  BY Zenon, <1>2, StepMock
<1>3. CASE sign
  BY Zenon, <1>3, StepAsk
<1>4. CASE signed \/ signRefused \/ signGivesUp \/ answerLost
  BY Zenon, <1>4, StepAnswer
<1>5. CASE retrySigning \/ Expired
  <2>1. running' \subseteq running /\ ~signFailed
    BY Zenon, <1>5 DEF retrySigning, Expired, signFailed, SInv, SigningTypeOK
  <2> QED
    BY Zenon, <1>5, <2>1, StepRest
<1>6. CASE \E call \in running : ServiceStep(call)
  BY Zenon, <1>6, StepService
<1>7. CASE serviceDies
  BY Zenon, <1>7, StepForgets DEF serviceDies
<1>8. CASE UNCHANGED signingVars
  BY Zenon, <1>8, StepForgets DEF signingVars, workerVars, wiring
<1> QED
  BY Zenon, <1>1, <1>2, <1>3, <1>4, <1>5, <1>6, <1>7, <1>8 DEF SigningNext

\* The inductive invariant: who holds a claim, what an id stands for, how far
\* the worker is (withdrawal-workers.ts:387-505, signer.rs:160-268).
THEOREM SigningInvariant == SigningSpec => []SInv
<1>1. SigningInit => SInv
  BY Zenon, SigningInitInv
<1>2. SInv /\ [SigningNext]_signingVars => SInv'
  BY Zenon, SigningStep
<1> QED
  BY <1>1, <1>2, PTL DEF SigningSpec

LEMMA SInvSignedVerifies ==
  ASSUME SInv
  PROVE  SignedVerifies
<1> SUFFICES ASSUME status = "SIGNED"
             PROVE  LET signers == buildWithdrawalTransaction(signedTx.message).signers
                    IN  /\ signedTx.message = nonce
                        /\ Len(signedTx.signatures) = Len(signers)
                        /\ \A i \in DOMAIN signers :
                             signedTx.signatures[i] =
                               [signer |-> signers[i],
                                signature |-> [key |-> signers[i], message |-> signedTx.message]]
  BY Zenon DEF SignedVerifies
<1> DEFINE signers == buildWithdrawalTransaction(nonce).signers
           all == Collected(nonce, Len(signers))
<1>1. source \in Keys /\ nonce \in Nat \ {0}
  BY Zenon DEF SInv, SigningTypeOK
<1>2. /\ Len(signers) \in Nat \ {0} /\ DOMAIN signers = 1..Len(signers)
      /\ Len(rounds(nonce)) = Len(signers)
      /\ \A i \in 1..Len(signers) : rounds(nonce)[i].key = signers[i] /\ signers[i] \in Keys
  BY Zenon, <1>1, RoundsFacts
<1>3. signedTx.message = nonce /\ signedTx.signatures = all
  BY <1>2 DEF SInv, Working
<1> HIDE DEF signers
<1>4. \A i \in 1..Len(signers) :
        all[i] = [signer |-> signers[i], signature |-> [key |-> signers[i], message |-> nonce]]
  BY Zenon, <1>2 DEF Collected
<1>5. Len(all) = Len(signers)
  BY <1>2 DEF Collected
<1> QED
  BY Zenon, <1>2, <1>3, <1>4, <1>5 DEF signers

\* A SIGNED withdrawal stores one signature for each address that must sign,
\* made by that address's key over the very bytes stored, whatever attempts,
\* late answers, replays and earlier nonces came before, for any participants
\* and threshold (withdrawal-workers.ts:387-505, signer.rs:232-268).
THEOREM SignedVerifiesAlways == SigningSpec => []SignedVerifies
<1>1. SInv => SignedVerifies
  BY Zenon, SInvSignedVerifies
<1> QED
  BY <1>1, SigningInvariant, PTL

\* No request id is ever signed for twice, by any of the three signers
\* (signer.rs:160-230, store.rs:301-325, mock.ts:226-241).
THEOREM OneRoundPerRequestAlways == SigningSpec => []OneRoundPerRequest
<1>1. SInv => OneRoundPerRequest
  BY Zenon DEF SInv, MadeMean
<1> QED
  BY <1>1, SigningInvariant, PTL

=============================================================================
