------------------------------ MODULE Signing -------------------------------
(***************************************************************************)
(* How a withdrawal gets its signatures: the signing worker's rounds        *)
(* (apps/api/src/workers/withdrawal-workers.ts, signOne), the three signers *)
(* it may be wired to (the in-process mock; the single key and the          *)
(* threshold coordinator of services/mpc behind HTTP) and the tier policy   *)
(* the service applies to a proof.  Where the worker leases its nonce and   *)
(* what becomes of the signed bytes is in Withdrawals.  A signature is the  *)
(* key that made it and the message it is over.                             *)
(***************************************************************************)
EXTENDS Integers, Sequences, FiniteSets, SequencesExt, FiniteSetsExt, Functions

CONSTANTS ParticipantSeq,  \* the coordinator's participants, in the order it asks them
          MIN_SIGNERS,
          SignBudget,      \* budgets.sign
          Proofs,          \* what the callers of tier movements put in a proof
          MaxNonces        \* bound: nonces the withdrawal uses, one after the other

ASSUME SigningAssumption ==
  /\ ParticipantSeq = [i \in 1..Len(ParticipantSeq) |-> ParticipantSeq[i]]
  /\ Len(ParticipantSeq) \in Nat /\ MIN_SIGNERS \in Nat

TreasuryKey == "treasury"
NoSignature == [key |-> "none", message |-> 0]
NoProof == [tier |-> "hot", approvedBy |-> <<>>]

VARIABLES signerKind,   \* mock | single | threshold
          source,       \* the address the withdrawal is paid from
          status,       \* of the withdrawal; "none" where a movement is signed instead
          signAttempts,
          nonce,        \* the value of the leased nonce account
          signer,       \* the worker
          requestRows,  \* API: request id -> outcome
          claims,       \* service: request id -> [message, key, outcome, signature]
          running,      \* service: requests being handled
          nonceStore,   \* participants: <<request id, participant>> -> committed | used
          made,         \* signatures made, with the request each was made for
          signedTx,     \* what the withdrawal's row stores
          movement      \* the proof of a movement out of a custody tier

signingVars == <<signerKind, source, status, signAttempts, nonce, signer, requestRows, claims,
                 running, nonceStore, made, signedTx, movement>>
wiring == <<signerKind, source, movement>>

SignerIdle == [at |-> "idle", nonce |-> 0, round |-> 0, signatures |-> <<>>]
NoTransaction == [message |-> 0, signatures |-> <<>>]

Extended(f, x, value) == [y \in DOMAIN f \cup {x} |-> IF y = x THEN value ELSE f[y]]

-----------------------------------------------------------------------------
(* The tier policy.  A proof names authorities; what it names besides the    *)
(* three known ones counts for nothing.                                      *)

Authorities == {"risk-engine", "operator", "ceremony"}

TIER_POLICIES ==
  [deposit |-> <<>>, hot |-> <<"risk-engine">>, warm |-> <<"risk-engine", "operator">>,
   cold |-> <<"ceremony">>]

parseAuthorities(approvedBy) == SelectSeq(approvedBy, LAMBDA name : name \in Authorities)

satisfies(held, required) ==
  held = required \/ (required = "risk-engine" /\ held \in {"operator", "ceremony"})

countSatisfiers(required) == Cardinality({held \in Authorities : satisfies(held, required)})

\* Mutation: an approval is not used up by the requirement it meets.
checkTierUnconsumed(tier, approvedBy) ==
  LET held == parseAuthorities(approvedBy)
  IN  SelectSeq(TIER_POLICIES[tier],
                LAMBDA required : \A i \in DOMAIN held : ~satisfies(held[i], required))

\* The requirements left unmet: the most constrained is met first, each by an
\* approval of its own.
checkTierAuthorization(tier, approvedBy) ==
  LET ordered == SortSeq(TIER_POLICIES[tier],
                         LAMBDA a, b : countSatisfiers(a) < countSatisfiers(b))
      meet(state, required) ==
        LET fits == {i \in DOMAIN state.available : satisfies(state.available[i], required)}
        IN  IF fits = {} THEN [state EXCEPT !.missing = Append(@, required)]
            ELSE [state EXCEPT !.available = RemoveAt(@, Min(fits))]
  IN  FoldLeft(meet, [available |-> parseAuthorities(approvedBy), missing |-> <<>>],
               ordered).missing

validate_authorization(proof) ==
  proof.approvedBy # <<>> /\ checkTierAuthorization(proof.tier, proof.approvedBy) = <<>>

-----------------------------------------------------------------------------
SigningInit ==
  /\ signerKind \in {"mock", "single", "threshold"}
  /\ source \in {TreasuryKey, "user"}
  /\ nonce = 1
  /\ signAttempts = 0
  /\ signer = SignerIdle
  /\ requestRows = <<>>
  /\ claims = <<>>
  /\ nonceStore = <<>>
  /\ made = {}
  /\ signedTx = NoTransaction
  /\ \/ status = "FUNDS_LOCKED" /\ movement = NoProof /\ running = {}
     \/ /\ status = "none" /\ signerKind = "single" /\ source = TreasuryKey
        /\ movement \in Proofs
        /\ running = {[id |-> <<"movement">>, key |-> TreasuryKey, message |-> 0, caller |-> 0,
                       proof |-> movement, at |-> "claim", asked |-> 0, committed |-> {},
                       signature |-> NoSignature]}

-----------------------------------------------------------------------------
(* The worker.                                                               *)

\* The bytes to sign change with the nonce.
buildWithdrawalTransaction(n) ==
  [message |-> n, signers |-> IF source = TreasuryKey THEN <<TreasuryKey>> ELSE <<TreasuryKey, source>>]

requestIdOfWithdrawal(n) == <<"withdrawal">>

requestId(n) == <<"withdrawal", n>>

rounds(n) ==
  LET signers == buildWithdrawalTransaction(n).signers
  IN  [i \in DOMAIN signers |->
         [key |-> signers[i],
          id |-> IF signers[i] = source /\ source # TreasuryKey
                 THEN Append(requestId(n), "source") ELSE requestId(n)]]

Round == rounds(signer.nonce)[signer.round]

\* The hot tier asks for the risk engine, which is what a withdrawal carries.
authorization == [tier |-> "hot", approvedBy |-> <<"risk-engine">>]

claimForSigning ==
  /\ status = "FUNDS_LOCKED"
  /\ status' = "SIGNING"
  /\ signer' = [SignerIdle EXCEPT !.at = "open", !.nonce = nonce, !.round = 1]
  /\ UNCHANGED <<wiring, signAttempts, nonce, requestRows, claims, running, nonceStore, made,
                 signedTx>>

\* A request already on record is asked again under the same row.
openRequest ==
  /\ signer.at = "open"
  /\ requestRows' = IF Round.id \in DOMAIN requestRows THEN requestRows
                    ELSE Extended(requestRows, Round.id, "requested")
  /\ signer' = [signer EXCEPT !.at = "sign"]
  /\ UNCHANGED <<wiring, status, signAttempts, nonce, claims, running, nonceStore, made,
                 signedTx>>

signatureArrived(signature) ==
  signer' = [signer EXCEPT
    !.signatures = Append(@, [signer |-> Round.key, signature |-> signature]),
    !.at = IF signer.round = Len(rounds(signer.nonce)) THEN "attach" ELSE "open",
    !.round = @ + 1]

\* The catch: what is still open for the withdrawal has failed.
signFailed ==
  /\ requestRows' = [id \in DOMAIN requestRows |->
                       IF requestRows[id] = "requested" THEN "failed" ELSE requestRows[id]]
  /\ status' = "SIGN_FAILED"
  /\ signAttempts' = signAttempts + 1
  /\ signer' = SignerIdle
  /\ UNCHANGED <<wiring, nonce, claims, nonceStore, made, signedTx>>

\* The mock answers a known request id from its cache, whatever the bytes.
mockSign ==
  /\ signer.at = "sign" /\ signerKind = "mock"
  /\ LET cached == {s \in made : s.id = Round.id}
         fresh == [id |-> Round.id, key |-> Round.key, message |-> signer.nonce, take |-> 1]
         result == IF cached # {} THEN CHOOSE s \in cached : TRUE ELSE fresh
     IN  /\ made' = made \cup {result}
         /\ signatureArrived([key |-> result.key, message |-> result.message])
  /\ UNCHANGED <<wiring, status, signAttempts, nonce, requestRows, claims, running, nonceStore,
                 signedTx>>

\* POST /v1/sign.  The caller is known by the attempt it belongs to.
sign ==
  /\ signer.at = "sign" /\ signerKind # "mock"
  /\ running' = running \cup
       {[id |-> Round.id, key |-> Round.key, message |-> signer.nonce, caller |-> signAttempts,
         proof |-> authorization, at |-> "claim", asked |-> 0, committed |-> {},
         signature |-> NoSignature]}
  /\ signer' = [signer EXCEPT !.at = "waiting"]
  /\ UNCHANGED <<wiring, status, signAttempts, nonce, requestRows, claims, nonceStore, made,
                 signedTx>>

Awaiting(call) == signer.at = "waiting" /\ call.id = Round.id /\ call.caller = signAttempts

signed ==
  \E call \in running :
    /\ Awaiting(call) /\ call.at = "answered" /\ call.signature # NoSignature
    /\ signatureArrived(call.signature)
    /\ running' = running \ {call}
    /\ UNCHANGED <<wiring, status, signAttempts, nonce, requestRows, claims, nonceStore, made,
                   signedTx>>

signRefused ==
  \E call \in running :
    /\ Awaiting(call) /\ call.at = "answered" /\ call.signature = NoSignature
    /\ signFailed
    /\ running' = running \ {call}

\* The abort timer, an unreachable or failing signer, a database error; a
\* request the service has begun runs on.
signGivesUp ==
  /\ signer.at \in {"sign", "waiting", "attach", "store"}
  /\ signFailed
  /\ UNCHANGED running

\* Nothing listens for the answer to a request that was given up.
answerLost ==
  \E call \in running :
    /\ call.at = "answered" /\ ~Awaiting(call) /\ call.id # <<"movement">>
    /\ running' = running \ {call}
    /\ UNCHANGED <<wiring, status, signAttempts, nonce, signer, requestRows, claims, nonceStore,
                   made, signedTx>>

attachSignatures ==
  /\ signer.at = "attach"
  /\ LET ids == {rounds(signer.nonce)[i].id : i \in DOMAIN rounds(signer.nonce)}
     IN  requestRows' = [id \in DOMAIN requestRows |->
                           IF id \in ids THEN "succeeded" ELSE requestRows[id]]
  /\ signer' = [signer EXCEPT !.at = "store"]
  /\ UNCHANGED <<wiring, status, signAttempts, nonce, claims, running, nonceStore, made,
                 signedTx>>

storeSigned ==
  /\ signer.at = "store"
  /\ status' = "SIGNED"
  /\ signedTx' = [message |-> signer.nonce, signatures |-> signer.signatures]
  /\ signer' = SignerIdle
  /\ UNCHANGED <<wiring, signAttempts, nonce, requestRows, claims, running, nonceStore, made>>

\* A failed attempt keeps its lease, and so its nonce.
retrySigning ==
  /\ status = "SIGN_FAILED"
  /\ status' = IF signAttempts >= SignBudget THEN "FAILED" ELSE "FUNDS_LOCKED"
  /\ UNCHANGED <<wiring, signAttempts, nonce, signer, requestRows, claims, running, nonceStore,
                 made, signedTx>>

\* The nonce was advanced by another transaction: the withdrawal is signed
\* again over a fresh one.
Expired ==
  /\ status = "SIGNED" /\ nonce < MaxNonces
  /\ status' = "FUNDS_LOCKED"
  /\ nonce' = nonce + 1
  /\ UNCHANGED <<wiring, signAttempts, signer, requestRows, claims, running, nonceStore, made,
                 signedTx>>

-----------------------------------------------------------------------------
(* The signing service.                                                      *)

workerVars == <<wiring, status, signAttempts, nonce, signer, requestRows, signedTx>>

Handle(call, next) == running' = (running \ {call}) \cup {next}

refuse(call) ==
  /\ Handle(call, [call EXCEPT !.at = "answered"])
  /\ UNCHANGED <<workerVars, claims, nonceStore, made>>

Claimed(call) ==
  /\ claims' = Extended(claims, call.id, [message |-> call.message, outcome |-> "requested",
                                          signature |-> NoSignature])
  /\ Handle(call, [call EXCEPT !.at = IF signerKind = "single" THEN "key" ELSE "commit"])
  /\ UNCHANGED <<workerVars, nonceStore, made>>

\* Mutation: a request that has not succeeded may be claimed again.
claimUnfinished(call) ==
  /\ call.at = "claim"
  /\ IF ~validate_authorization(call.proof) THEN refuse(call)
     ELSE IF call.id \notin DOMAIN claims \/ claims[call.id].outcome # "succeeded"
     THEN Claimed(call)
     ELSE /\ Handle(call, [call EXCEPT !.at = "answered",
                                       !.signature = claims[call.id].signature])
          /\ UNCHANGED <<workerVars, claims, nonceStore, made>>

\* One insert decides who may sign for a request id.  To anyone else the
\* recorded signature is replayed, if there is one and it is over these bytes.
claim_request(call) ==
  /\ call.at = "claim"
  /\ IF ~validate_authorization(call.proof) THEN refuse(call)
     ELSE IF call.id \notin DOMAIN claims THEN Claimed(call)
     ELSE IF claims[call.id].message # call.message \/ claims[call.id].outcome # "succeeded"
     THEN refuse(call)
     ELSE /\ Handle(call, [call EXCEPT !.at = "answered",
                                       !.signature = claims[call.id].signature])
          /\ UNCHANGED <<workerVars, claims, nonceStore, made>>

\* The next signature made for a request id.
Made(call) ==
  /\ made' = made \cup {[id |-> call.id, key |-> call.key, message |-> call.message,
                         take |-> 1 + Cardinality({s \in made : s.id = call.id})]}
  /\ Handle(call, [call EXCEPT !.at = "complete",
                               !.signature = [key |-> call.key, message |-> call.message]])

signWithKey(call) ==
  /\ call.at = "key"
  /\ Made(call)
  /\ UNCHANGED <<workerVars, claims, nonceStore>>

complete(call) ==
  /\ call.at = "complete"
  /\ claims' = [claims EXCEPT ![call.id].outcome = "succeeded",
                              ![call.id].signature = call.signature]
  /\ Handle(call, [call EXCEPT !.at = "answered"])
  /\ UNCHANGED <<workerVars, nonceStore, made>>

failRequest(call) ==
  /\ claims' = [claims EXCEPT ![call.id].outcome = "failed"]
  /\ Handle(call, [call EXCEPT !.at = "answered"])
  /\ UNCHANGED <<workerVars, made>>

\* The key is missing, or cannot be opened.
keyUnusable(call) ==
  /\ call.at = "key"
  /\ failRequest(call)
  /\ UNCHANGED nonceStore

-----------------------------------------------------------------------------
(* The coordinator: commitments from the first MIN_SIGNERS that give one,    *)
(* then a share from each of those.                                          *)

\* The next participant is asked.  It commits unless it has done so before;
\* it may be unreachable, or its answer may be lost.
commit(call) ==
  /\ call.at = "commit" /\ call.asked < Len(ParticipantSeq)
  /\ Cardinality(call.committed) < MIN_SIGNERS
  /\ LET p == ParticipantSeq[call.asked + 1]
         asked == [call EXCEPT !.asked = @ + 1]
         fresh == <<call.id, p>> \notin DOMAIN nonceStore
     IN  \/ /\ Handle(call, asked)
            /\ UNCHANGED nonceStore
         \/ /\ fresh
            /\ nonceStore' = Extended(nonceStore, <<call.id, p>>, "committed")
            /\ \E heard \in BOOLEAN :
                 Handle(call, IF heard THEN [asked EXCEPT !.committed = @ \cup {p}] ELSE asked)
  /\ UNCHANGED <<workerVars, claims, made>>

thresholdNotMet(call) ==
  /\ call.at = "commit" /\ call.asked = Len(ParticipantSeq)
  /\ Cardinality(call.committed) < MIN_SIGNERS
  /\ failRequest(call)
  /\ UNCHANGED nonceStore

\* Those that committed and have not given their share, in the order asked.
Sharers(call) ==
  SelectSeq(ParticipantSeq, LAMBDA p : p \in call.committed
                                         /\ nonceStore[<<call.id, p>>] = "committed")

Sharing(call) == call.at = "commit" /\ Cardinality(call.committed) = MIN_SIGNERS

\* A participant uses up its nonce before it gives its share.
useNonce(call) ==
  nonceStore' = [nonceStore EXCEPT ![<<call.id, Head(Sharers(call))>>] = "used"]

share(call) ==
  /\ Sharing(call) /\ Sharers(call) # <<>>
  /\ useNonce(call)
  /\ UNCHANGED <<workerVars, claims, running, made>>

\* A participant that refuses or is not heard ends the round.
shareFails(call) ==
  /\ Sharing(call) /\ Sharers(call) # <<>>
  /\ useNonce(call) \/ UNCHANGED nonceStore
  /\ failRequest(call)

aggregate(call) ==
  /\ Sharing(call) /\ Sharers(call) = <<>>
  /\ Made(call)
  /\ UNCHANGED <<workerVars, claims, nonceStore>>

\* A restart of the service loses what it was doing and keeps its store.
serviceDies ==
  /\ running # {}
  /\ running' = {}
  /\ UNCHANGED <<workerVars, claims, nonceStore, made>>

ServiceStep(call) ==
  \/ claim_request(call) \/ signWithKey(call) \/ complete(call) \/ keyUnusable(call)
  \/ commit(call) \/ thresholdNotMet(call) \/ share(call) \/ shareFails(call) \/ aggregate(call)

SigningNext ==
  \/ claimForSigning \/ openRequest \/ mockSign \/ sign \/ signed \/ signRefused \/ signGivesUp
  \/ answerLost \/ attachSignatures \/ storeSigned \/ retrySigning \/ Expired
  \/ \E call \in running : ServiceStep(call)
  \/ serviceDies

SigningSpec == SigningInit /\ [][SigningNext]_signingVars

-----------------------------------------------------------------------------
(* Properties.                                                               *)

\* What a SIGNED withdrawal stores would be accepted by the network: one
\* signature for each address that must sign, made by that address's key over
\* the very bytes stored, whatever attempts, late answers, replays and earlier
\* nonces came before (withdrawal-workers.ts:387-505, signer.rs:232-268).
SignedVerifies ==
  status = "SIGNED" =>
    LET signers == buildWithdrawalTransaction(signedTx.message).signers
    IN  /\ signedTx.message = nonce
        /\ Len(signedTx.signatures) = Len(signers)
        /\ \A i \in DOMAIN signers :
             signedTx.signatures[i] =
               [signer |-> signers[i],
                signature |-> [key |-> signers[i], message |-> signedTx.message]]

\* No request id is ever signed for twice, although a request that was given
\* up runs on while its retry arrives and the service may restart in between
\* (signer.rs:160-230, store.rs:301-325, mock.ts:226-241).
OneRoundPerRequest ==
  \A s, t \in made : s.id = t.id => s = t

\* The service signs for a movement out of a tier exactly when the proof names
\* a different approval for every authority the tier asks for, a human standing
\* in for the risk engine but never the reverse; matching the most constrained
\* requirement first finds such a choice whenever there is one
\* (custody.ts:118-180, custody.rs:143-190).
TierIsPaidFor ==
  LET required == TIER_POLICIES[movement.tier]
      held == movement.approvedBy
      paid == \E choice \in [DOMAIN required -> DOMAIN held] :
                /\ IsInjective(choice)
                /\ \A i \in DOMAIN required : satisfies(held[choice[i]], required[i])
  IN  status = "none" =>
        \A call \in running :
          call.at # "claim" => (call.at = "answered" /\ call.signature = NoSignature
                                  /\ DOMAIN claims = {} <=> ~(paid /\ held # <<>>))

\* Every signature made is one the withdrawal asked for, made once and paid for
\* with the approvals its tier demands.
SigningIsSound == SignedVerifies /\ OneRoundPerRequest /\ TierIsPaidFor

=============================================================================
