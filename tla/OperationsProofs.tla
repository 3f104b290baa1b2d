--------------------------- MODULE OperationsProofs ---------------------------
(***************************************************************************)
(* Proofs about what operators run and look after: the ceremony that makes *)
(* a key (KeyCeremony), the script that fills the nonce pool (NoncePool)   *)
(* and the queue of work that ran out of attempts (DeadLetters).  They     *)
(* share no state; each section has its own inductive invariant.           *)
(***************************************************************************)
EXTENDS KeyCeremony, NoncePool, DeadLetters, FiniteSetTheorems, TLAPS

-----------------------------------------------------------------------------
(* The key ceremony.                                                         *)
(*                                                                           *)
(* A share is installed only by a commit, and a commit is asked for only in  *)
(* a ceremony that everyone verified (CommitsBelong).  There is never more   *)
(* than one such ceremony: a new one is started only while none is           *)
(* (OneReady, Rounds).  So whatever is installed comes from it.  The         *)
(* coordinator walks the roster, and those it has passed hold their shares   *)
(* for good (Walked), so when it stores the group everybody does, and only a *)
(* stored group becomes an address (Stored).                                 *)

Phase == {"none", "round1", "round2", "verified", "committed", "aborted"}
CoordinatorPhase == {"none", "round1", "committing", "aborted", "finalized"}
Stage == {"round1", "round2", "finalize", "commit"}

CeremonyTypeOK ==
  /\ dkgRow \in [Sessions -> [Members -> Phase]]
  /\ installed \in [Members -> Sessions \cup {NoSession}]
  /\ ceremonyRow \in [Sessions -> CoordinatorPhase]
  /\ groupKey \in Sessions \cup {NoSession} /\ address \in Sessions \cup {NoSession}
  /\ ceremony \in [at : Stage \cup {"idle", "stored"}, session : Sessions \cup {NoSession},
                   next : Nat \ {0}]
  /\ ceremony.at # "idle" => ceremony.session \in Sessions
  /\ ceremony.next <= Len(Roster) + 1
  /\ abandoned \subseteq Stage \X Sessions \X Members
  /\ losses \in Nat

\* A ceremony that everyone verified.
Ready(s) == ceremonyRow[s] \in {"committing", "finalized"}

OneReady == \A s, t \in Sessions : Ready(s) /\ Ready(t) => s = t

\* While a ceremony is in its rounds there is none that is ready; in its
\* commits it is itself the one.
Rounds ==
  /\ ceremony.at \in {"round1", "round2", "finalize"} => \A s \in Sessions : ~Ready(s)
  /\ ceremony.at \in {"commit", "stored"} => ceremonyRow[ceremony.session] = "committing"
  /\ \A s \in Sessions : ceremonyRow[s] = "finalized" => groupKey = s

\* Shares, and commits still on their way, are of a ready ceremony.
CommitsBelong ==
  /\ \A p \in Members : installed[p] # NoSession => Ready(installed[p])
  /\ \A r \in abandoned : r[1] = "commit" => Ready(r[2])
  /\ \A s \in Sessions, p \in Members : dkgRow[s][p] = "committed" => installed[p] = s

Walked ==
  ceremony.at = "commit" =>
    \A i \in 1..(ceremony.next - 1) : installed[Roster[i]] = ceremony.session

Stored ==
  /\ groupKey # NoSession => /\ Ready(groupKey)
                             /\ \A p \in Members : installed[p] = groupKey
                             /\ ceremony.at \in {"idle", "stored"}
  /\ ceremony.at = "stored" => groupKey = ceremony.session
  /\ address \in {NoSession, groupKey}

CInv == CeremonyTypeOK /\ OneReady /\ Rounds /\ CommitsBelong /\ Walked /\ Stored

-----------------------------------------------------------------------------
LEMMA RosterMembers ==
  /\ Len(Roster) \in Nat /\ \A i \in 1..Len(Roster) : Roster[i] \in Members
  /\ \A p \in Members : \E i \in 1..Len(Roster) : Roster[i] = p
  /\ DOMAIN Roster = 1..Len(Roster)
<1>1. Len(Roster) \in Nat /\ DOMAIN Roster = 1..Len(Roster)
  BY Zenon, CeremonyAssumption
<1> QED
  BY Zenon, <1>1 DEF Members, Range

\* What handling a request leaves: shares are only ever added, by a commit, to
\* a participant that has none.
LEMMA HandlerEffect ==
  ASSUME CInv, NEW part \in Stage, NEW s \in Sessions, NEW p \in Members
  PROVE  LET a == handle(part, s, p)
         IN  /\ a.rows \in [Sessions -> [Members -> Phase]]
             /\ a.shares \in [Members -> Sessions \cup {NoSession}]
             /\ \A q \in Members : \/ a.shares[q] = installed[q]
                                   \/ part = "commit" /\ installed[q] = NoSession /\ a.shares[q] = s
             /\ \A t \in Sessions, q \in Members :
                  a.rows[t][q] = "committed" => a.shares[q] = t
             /\ a.ok /\ part = "commit" => a.shares[p] = s
<1> DEFINE Good(a) ==
      /\ a.rows \in [Sessions -> [Members -> Phase]]
      /\ a.shares \in [Members -> Sessions \cup {NoSession}]
      /\ \A q \in Members : \/ a.shares[q] = installed[q]
                            \/ part = "commit" /\ installed[q] = NoSession /\ a.shares[q] = s
      /\ \A t \in Sessions, q \in Members : a.rows[t][q] = "committed" => a.shares[q] = t
      /\ a.ok /\ part = "commit" => a.shares[p] = s
<1>1. /\ dkgRow \in [Sessions -> [Members -> Phase]]
      /\ installed \in [Members -> Sessions \cup {NoSession}]
      /\ \A t \in Sessions, q \in Members : dkgRow[t][q] = "committed" => installed[q] = t
      /\ 0 \notin Sessions
  BY DEF CInv, CeremonyTypeOK, CommitsBelong, Sessions
<1>2. Good(Kept)
  BY Zenon, <1>1 DEF Kept
<1>3. ASSUME part # "commit", NEW phase \in Phase \ {"committed"}
      PROVE  Good(Advanced(s, p, phase))
  BY Zenon, <1>1, <1>3 DEF Advanced
<1>4. CASE part = "round1"
  <2>1. Good([Kept EXCEPT !.ok = TRUE])
    BY Zenon, <1>1, <1>4 DEF Kept
  <2>2. Good([ok |-> TRUE, rows |-> begin_dkg_session(s, p), shares |-> installed])
    <3> DEFINE b == begin_dkg_session(s, p)
    <3>1. b \in [Sessions -> [Members -> Phase]]
      <4>1. \A t \in Sessions : /\ [dkgRow[t] EXCEPT ![p] = "round1"] \in [Members -> Phase]
                               /\ [dkgRow[t] EXCEPT ![p] = "aborted"] \in [Members -> Phase]
                               /\ dkgRow[t] \in [Members -> Phase]
        BY Zenon, <1>1 DEF Phase
      <4> QED
        BY Zenon, <4>1 DEF begin_dkg_session
    <3>2. \A t \in Sessions, q \in Members : b[t][q] = "committed" => dkgRow[t][q] = "committed"
      <4>1. \A t \in Sessions : \/ b[t] = [dkgRow[t] EXCEPT ![p] = "round1"]
                               \/ b[t] = [dkgRow[t] EXCEPT ![p] = "aborted"]
                               \/ b[t] = dkgRow[t]
        BY Zenon DEF begin_dkg_session
      <4>2. \A t \in Sessions : dkgRow[t] \in [Members -> Phase]
        BY Zenon, <1>1
      <4> HIDE DEF b
      <4> QED
        BY Zenon, <4>1, <4>2
    <3> HIDE DEF b
    <3> QED
      BY Zenon, <1>1, <1>4, <3>1, <3>2 DEF b
  <2> QED
    BY Zenon, <1>2, <1>4, <2>1, <2>2 DEF handle, round1
<1>5. CASE part = "round2"
  BY Zenon, <1>2, <1>3, <1>5 DEF handle, round2, Phase
<1>6. CASE part = "finalize"
  BY Zenon, <1>2, <1>3, <1>6 DEF handle, finalize, Phase
<1>7. CASE part = "commit"
  <2>1. CASE dkgRow[s][p] = "committed"
    <3>1. Good([Kept EXCEPT !.ok = TRUE])
      BY Zenon, <1>1, <1>7, <2>1 DEF Kept
    <3> QED
      BY Zenon, <1>7, <2>1, <3>1 DEF handle, commit_dkg_session
  <2>2. CASE dkgRow[s][p] = "verified" /\ installed[p] = NoSession
    <3> DEFINE a == [Advanced(s, p, "committed") EXCEPT !.shares = [installed EXCEPT ![p] = s]]
           rows == [dkgRow EXCEPT ![s][p] = "committed"]
    <3>1. a.rows = rows /\ a.shares = [installed EXCEPT ![p] = s] /\ a.ok = TRUE
      BY Zenon DEF Advanced
    <3>2. /\ rows \in [Sessions -> [Members -> Phase]]
          /\ \A t \in Sessions, q \in Members :
               rows[t][q] = "committed" => dkgRow[t][q] = "committed" \/ (t = s /\ q = p)
      BY Zenon, <1>1 DEF Phase
    <3> HIDE DEF a, rows
    <3>3. /\ a.rows \in [Sessions -> [Members -> Phase]]
          /\ a.shares \in [Members -> Sessions \cup {NoSession}] /\ a.shares[p] = s
          /\ \A q \in Members : q # p => a.shares[q] = installed[q]
          /\ \A t \in Sessions, q \in Members :
               a.rows[t][q] = "committed" => dkgRow[t][q] = "committed" \/ (t = s /\ q = p)
      BY <1>1, <3>1, <3>2
    <3>4. \A t \in Sessions, q \in Members : a.rows[t][q] = "committed" => a.shares[q] = t
      <4> SUFFICES ASSUME NEW t \in Sessions, NEW q \in Members, a.rows[t][q] = "committed"
                   PROVE  a.shares[q] = t
        BY Zenon
      <4>1. CASE q = p
        BY Zenon, <1>1, <2>2, <3>3, <4>1 DEF NoSession
      <4>2. CASE q # p
        BY Zenon, <1>1, <3>3, <4>2
      <4> QED
        BY Zenon, <4>1, <4>2
    <3>5. Good(a)
      BY Zenon, <1>7, <2>2, <3>3, <3>4
    <3> QED
      BY Zenon, <1>7, <2>2, <3>5 DEF handle, commit_dkg_session, a
  <2>3. CASE ~(dkgRow[s][p] = "committed") /\ ~(dkgRow[s][p] = "verified" /\ installed[p] = NoSession)
    BY Zenon, <1>2, <1>7, <2>3 DEF handle, commit_dkg_session
  <2> QED
    BY Zenon, <2>1, <2>2, <2>3
<1>8. Good(handle(part, s, p))
  BY Zenon, <1>4, <1>5, <1>6, <1>7 DEF Stage
<1> QED
  BY Zenon, <1>8

\* A handled request keeps the invariant, whatever becomes of the coordinator's
\* bookkeeping, as long as that leaves the ready ceremonies alone.
LEMMA Handled ==
  ASSUME CInv, NEW part \in Stage, NEW s \in Sessions, NEW p \in Members,
         Apply(handle(part, s, p)), part = "commit" => Ready(s)
  PROVE  /\ dkgRow' \in [Sessions -> [Members -> Phase]]
         /\ installed' \in [Members -> Sessions \cup {NoSession}]
         /\ \A q \in Members : installed[q] # NoSession => installed'[q] = installed[q]
         /\ \A q \in Members : installed'[q] # NoSession => Ready(installed'[q])
         /\ \A t \in Sessions, q \in Members : dkgRow'[t][q] = "committed" => installed'[q] = t
         /\ handle(part, s, p).ok /\ part = "commit" => installed'[p] = s
<1> DEFINE a == handle(part, s, p)
<1>1. dkgRow' = a.rows /\ installed' = a.shares
  BY Zenon DEF Apply
<1>2. /\ a.rows \in [Sessions -> [Members -> Phase]]
      /\ a.shares \in [Members -> Sessions \cup {NoSession}]
      /\ \A q \in Members : \/ a.shares[q] = installed[q]
                            \/ part = "commit" /\ installed[q] = NoSession /\ a.shares[q] = s
      /\ \A t \in Sessions, q \in Members : a.rows[t][q] = "committed" => a.shares[q] = t
      /\ a.ok /\ part = "commit" => a.shares[p] = s
  BY HandlerEffect
<1> HIDE DEF a
<1>3. \A q \in Members : installed'[q] # NoSession => Ready(installed'[q])
  BY Zenon, <1>1, <1>2 DEF CInv, CommitsBelong
<1>4. \A q \in Members : installed[q] # NoSession => installed'[q] = installed[q]
  BY Zenon, <1>1, <1>2
<1> QED
  BY Zenon, <1>1, <1>2, <1>3, <1>4 DEF a

\* Shares once installed stay, so what was complete stays complete.
LEMMA SharesStay ==
  ASSUME CInv, \A q \in Members : installed[q] # NoSession => installed'[q] = installed[q],
         groupKey' = groupKey
  PROVE  /\ groupKey # NoSession => \A p \in Members : installed'[p] = groupKey
         /\ ceremony.at = "commit" =>
              \A i \in 1..(ceremony.next - 1) : installed'[Roster[i]] = ceremony.session
<1>1. 0 \notin Sessions
  BY DEF Sessions
<1>2. groupKey # NoSession => \A p \in Members : installed'[p] = groupKey
  BY Zenon DEF CInv, Stored
<1>3. ASSUME ceremony.at = "commit", NEW i \in 1..(ceremony.next - 1)
      PROVE  installed'[Roster[i]] = ceremony.session
  <2>1. i \in 1..Len(Roster) /\ ceremony.session \in Sessions
    BY <1>3, RosterMembers DEF CInv, CeremonyTypeOK
  <2>2. Roster[i] \in Members /\ installed[Roster[i]] = ceremony.session
    BY Zenon, <1>3, <2>1, RosterMembers DEF CInv, Walked
  <2> QED
    BY Zenon, <1>1, <2>1, <2>2 DEF NoSession
<1> QED
  BY Zenon, <1>2, <1>3

-----------------------------------------------------------------------------
(* One lemma per kind of step.                                              *)

LEMMA CeremonyInitInv == CeremonyInit => CInv
<1> SUFFICES ASSUME CeremonyInit PROVE CInv
  BY Zenon
<1>1. CeremonyTypeOK
  BY RosterMembers
  DEF CeremonyInit, CeremonyTypeOK, Phase, CoordinatorPhase, Stage, NoCeremony, NoSession
<1>2. ceremony.at = "idle" /\ \A s \in Sessions : ceremonyRow[s] = "none"
  BY Zenon DEF CeremonyInit, NoCeremony
<1>3. OneReady /\ Rounds /\ Walked
  BY Zenon, <1>2 DEF OneReady, Rounds, Walked, Ready
<1>4. CommitsBelong
  BY Zenon DEF CeremonyInit, CommitsBelong
<1>5. Stored
  BY Zenon, <1>2 DEF CeremonyInit, Stored
<1> QED
  BY Zenon, <1>1, <1>3, <1>4, <1>5 DEF CInv

\* A request delivered to a participant while the coordinator's tables stay.
\* What is left of the coordinator is stated by the callers.
LEMMA StepHandled ==
  ASSUME CInv, NEW part \in Stage, NEW s \in Sessions, NEW p \in Members,
         Apply(handle(part, s, p)), part = "commit" => Ready(s),
         UNCHANGED <<groupKey, address>>, abandoned' \subseteq abandoned, losses' \in Nat,
         \A t \in Sessions : Ready(t)' = Ready(t),
         ceremonyRow' \in [Sessions -> CoordinatorPhase],
         \A t \in Sessions : ceremonyRow'[t] = "finalized" => ceremonyRow[t] = "finalized",
         \/ ceremony' = NoCeremony
         \/ ceremony' = ceremony /\ ceremonyRow' = ceremonyRow
         \/ /\ ceremony' = [ceremony EXCEPT !.next = @ + 1] /\ ceremonyRow' = ceremonyRow
            /\ ceremony.next <= Len(Roster) /\ ceremony.at \in Stage /\ part = ceremony.at
            /\ s = ceremony.session /\ p = Roster[ceremony.next] /\ handle(part, s, p).ok
  PROVE  CInv'
<1>1. /\ dkgRow' \in [Sessions -> [Members -> Phase]]
      /\ installed' \in [Members -> Sessions \cup {NoSession}]
      /\ \A q \in Members : installed[q] # NoSession => installed'[q] = installed[q]
      /\ \A q \in Members : installed'[q] # NoSession => Ready(installed'[q])
      /\ \A t \in Sessions, q \in Members : dkgRow'[t][q] = "committed" => installed'[q] = t
      /\ handle(part, s, p).ok /\ part = "commit" => installed'[p] = s
  BY Zenon, Handled
<1>2. /\ groupKey # NoSession => \A q \in Members : installed'[q] = groupKey
      /\ ceremony.at = "commit" =>
           \A i \in 1..(ceremony.next - 1) : installed'[Roster[i]] = ceremony.session
  BY Zenon, <1>1, SharesStay
<1>3. /\ ceremony' \in [at : Stage \cup {"idle", "stored"}, session : Sessions \cup {NoSession},
                        next : Nat \ {0}]
      /\ ceremony'.at # "idle" => ceremony'.session \in Sessions
      /\ ceremony'.next <= Len(Roster) + 1
      /\ ceremony'.at \in {ceremony.at, "idle"}
      /\ ceremony'.at # "idle" => ceremony'.session = ceremony.session /\ ceremonyRow' = ceremonyRow
  BY RosterMembers DEF CInv, CeremonyTypeOK, NoCeremony
<1>4. CeremonyTypeOK'
  BY Zenon, <1>1, <1>3 DEF CInv, CeremonyTypeOK
<1>5. OneReady'
  BY Zenon DEF CInv, OneReady
<1>6. Rounds'
  BY Zenon, <1>3 DEF CInv, Rounds
<1>7. CommitsBelong'
  <2>1. \A q \in Members : installed'[q] # NoSession => Ready(installed[q])'
    BY Zenon, <1>1 DEF Ready, NoSession
  <2>2. \A r \in abandoned' : r[1] = "commit" => Ready(r[2])'
    <3> SUFFICES ASSUME NEW r \in abandoned', r[1] = "commit" PROVE Ready(r[2])'
      BY Zenon
    <3>1. r \in abandoned /\ r[2] \in Sessions /\ Ready(r[2])
      BY DEF CInv, CeremonyTypeOK, CommitsBelong
    <3> QED
      BY Zenon, <3>1
  <2> QED
    BY Zenon, <1>1, <2>1, <2>2 DEF CommitsBelong
<1>8. Walked'
  <2> SUFFICES ASSUME ceremony'.at = "commit", NEW i \in 1..(ceremony'.next - 1)
               PROVE  installed'[Roster[i]] = ceremony'.session
    BY Zenon DEF Walked
  <2>1. ceremony.at = "commit" /\ ceremony'.session = ceremony.session
    BY Zenon, <1>3
  <2>2. CASE i \in 1..(ceremony.next - 1)
    BY Zenon, <1>2, <2>1, <2>2
  <2>3. CASE i \notin 1..(ceremony.next - 1)
    <3>1. ceremony.next \in Nat \ {0} /\ i \in Nat /\ i >= 1 /\ i <= ceremony'.next - 1
          /\ ceremony'.next \in Nat
      BY <1>3 DEF CInv, CeremonyTypeOK
    <3>2. ceremony' # ceremony /\ ceremony' # NoCeremony
      BY <2>3 DEF NoCeremony
    <3>3. /\ ceremony' = [ceremony EXCEPT !.next = @ + 1] /\ part = ceremony.at
          /\ s = ceremony.session /\ p = Roster[ceremony.next] /\ handle(part, s, p).ok
      BY Zenon, <3>2
    <3>4. ceremony'.next = ceremony.next + 1
      BY Zenon, <3>3 DEF CInv, CeremonyTypeOK
    <3>5. i = ceremony.next
      BY <2>3, <3>1, <3>4
    <3> QED
      BY Zenon, <1>1, <2>1, <3>3, <3>5
  <2> QED
    BY Zenon, <2>2, <2>3
<1>9. Stored'
  <2>1. groupKey # NoSession => groupKey \in Sessions /\ Ready(groupKey)
    BY Zenon DEF CInv, CeremonyTypeOK, Stored
  <2>2. groupKey' # NoSession => /\ Ready(groupKey)'
                                 /\ \A q \in Members : installed'[q] = groupKey'
                                 /\ ceremony'.at \in {"idle", "stored"}
    <3> SUFFICES ASSUME groupKey' # NoSession
                 PROVE  /\ Ready(groupKey)' /\ \A q \in Members : installed'[q] = groupKey'
                        /\ ceremony'.at \in {"idle", "stored"}
      BY Zenon
    <3>1. Ready(groupKey)'
      BY Zenon, <2>1 DEF Ready
    <3> QED
      BY Zenon, <1>2, <1>3, <3>1 DEF CInv, Stored
  <2>3. ceremony'.at = "stored" => groupKey' = ceremony'.session
    BY Zenon, <1>3 DEF CInv, Stored
  <2> QED
    BY Zenon, <2>2, <2>3 DEF CInv, Stored
<1> QED
  BY Zenon, <1>4, <1>5, <1>6, <1>7, <1>8, <1>9 DEF CInv

LEMMA AskingFacts ==
  ASSUME CInv, Asking
  PROVE  /\ ceremony.at \in Stage /\ ceremony.session \in Sessions /\ Addressed \in Members
         /\ ceremony.next \in 1..Len(Roster)
         /\ ceremony.at = "commit" => Ready(ceremony.session)
         /\ ceremony.at # "commit" => \A s \in Sessions : ~Ready(s)
BY Zenon, RosterMembers DEF CInv, CeremonyTypeOK, Rounds, Asking, asked, Addressed, Stage, Ready

\* A ceremony that fails leaves the ready ones alone: it is not one of them,
\* or it keeps its row.
LEMMA FailsFacts ==
  ASSUME CInv, Asking, ceremonyFails
  PROVE  /\ ceremony' = NoCeremony /\ UNCHANGED <<groupKey, address>>
         /\ ceremonyRow' \in [Sessions -> CoordinatorPhase]
         /\ \A t \in Sessions : Ready(t)' = Ready(t)
         /\ \A t \in Sessions : ceremonyRow'[t] = "finalized" => ceremonyRow[t] = "finalized"
<1>1. /\ ceremony.session \in Sessions /\ ceremonyRow \in [Sessions -> CoordinatorPhase]
      /\ ceremony.at # "commit" => ~Ready(ceremony.session)
  BY Zenon, AskingFacts DEF CInv, CeremonyTypeOK
<1> QED
  BY <1>1 DEF ceremonyFails, CoordinatorPhase, Ready

\* The coordinator is idle again and no share has changed.
LEMMA StepStopped ==
  ASSUME CInv, ceremony' = NoCeremony, UNCHANGED <<installed, groupKey, address>>,
         dkgRow' \in [Sessions -> [Members -> Phase]],
         \A t \in Sessions, q \in Members : dkgRow'[t][q] = "committed" => dkgRow[t][q] = "committed",
         abandoned' \subseteq Stage \X Sessions \X Members,
         \A r \in abandoned' : r \in abandoned \/ (r[1] = "commit" => Ready(r[2])),
         losses' \in Nat, ceremonyRow' \in [Sessions -> CoordinatorPhase],
         \A t \in Sessions : Ready(t)' = Ready(t),
         \A t \in Sessions : ceremonyRow'[t] = "finalized" => ceremonyRow[t] = "finalized"
  PROVE  CInv'
<1>1. ceremony'.at = "idle" /\ ceremony'.next = 1 /\ ceremony'.session = NoSession
  BY Zenon DEF NoCeremony
<1>2. CeremonyTypeOK'
  BY <1>1, RosterMembers DEF CInv, CeremonyTypeOK, NoCeremony
<1>3. OneReady' /\ Rounds' /\ Walked'
  BY Zenon, <1>1 DEF CInv, OneReady, Rounds, Walked
<1>4. CommitsBelong'
  <2>1. \A q \in Members : installed[q] # NoSession => Ready(installed[q])'
    <3> SUFFICES ASSUME NEW q \in Members, installed[q] # NoSession PROVE Ready(installed[q])'
      BY Zenon
    <3>1. installed[q] \in Sessions /\ Ready(installed[q]) /\ installed'[q] = installed[q]
      BY Zenon DEF CInv, CeremonyTypeOK, CommitsBelong
    <3> QED
      BY Zenon, <3>1 DEF Ready
  <2>2. \A r \in abandoned' : r[1] = "commit" => Ready(r[2])'
    <3> SUFFICES ASSUME NEW r \in abandoned', r[1] = "commit" PROVE Ready(r[2])'
      BY Zenon
    <3>1. r[2] \in Sessions /\ Ready(r[2])
      BY Zenon DEF CInv, CommitsBelong
    <3> QED
      BY Zenon, <3>1
  <2> QED
    BY Zenon, <2>1, <2>2 DEF CInv, CommitsBelong
<1>5. Stored'
  <2>1. groupKey # NoSession => groupKey \in Sessions /\ Ready(groupKey)
    BY Zenon DEF CInv, CeremonyTypeOK, Stored
  <2>2. groupKey # NoSession => Ready(groupKey)'
    BY Zenon, <2>1 DEF Ready
  <2> QED
    BY Zenon, <1>1, <2>2 DEF CInv, Stored
<1> QED
  BY Zenon, <1>2, <1>3, <1>4, <1>5 DEF CInv

LEMMA StepFails ==
  ASSUME CInv, refused \/ ceremonyAnswerLost \/ abort_on_failure \/ requestDelayed \/ coordinatorDies
  PROVE  CInv'
<1>1. /\ dkgRow \in [Sessions -> [Members -> Phase]] /\ losses \in Nat
      /\ abandoned \subseteq Stage \X Sessions \X Members
      /\ ceremonyRow \in [Sessions -> CoordinatorPhase]
  BY Zenon DEF CInv, CeremonyTypeOK
<1>2. CASE refused
  <2>1. Asking /\ ceremonyFails /\ UNCHANGED <<dkgRow, installed, abandoned, losses>>
    BY Zenon, <1>2 DEF refused
  <2> QED
    BY Zenon, <1>1, <2>1, FailsFacts, StepStopped
<1>3. CASE ceremonyAnswerLost
  <2>1. /\ Asking /\ ceremonyFails /\ losses' = losses + 1 /\ abandoned' = abandoned
        /\ Apply(handle(ceremony.at, ceremony.session, Addressed))
    BY Zenon, <1>3 DEF ceremonyAnswerLost
  <2> QED
    BY <1>1, <2>1, AskingFacts, FailsFacts, StepHandled
<1>4. CASE abort_on_failure
  <2>1. /\ Asking /\ ceremonyFails /\ losses' = losses + 1 /\ UNCHANGED <<installed, abandoned>>
        /\ dkgRow' = [dkgRow EXCEPT ![ceremony.session][Addressed] = "aborted"]
    BY Zenon, <1>4 DEF abort_on_failure
  <2>2. ceremony.session \in Sessions /\ Addressed \in Members
    BY Zenon, <2>1, AskingFacts
  <2>3. /\ dkgRow' \in [Sessions -> [Members -> Phase]]
        /\ \A t \in Sessions, q \in Members :
             dkgRow'[t][q] = "committed" => dkgRow[t][q] = "committed"
    BY Zenon, <1>1, <2>1, <2>2 DEF Phase
  <2> QED
    BY <1>1, <2>1, <2>3, FailsFacts, StepStopped
<1>5. CASE requestDelayed
  <2>1. /\ Asking /\ ceremonyFails /\ losses' = losses + 1 /\ UNCHANGED <<dkgRow, installed>>
        /\ abandoned' = abandoned \cup {<<ceremony.at, ceremony.session, Addressed>>}
    BY Zenon, <1>5 DEF requestDelayed
  <2>2. /\ ceremony.at \in Stage /\ ceremony.session \in Sessions /\ Addressed \in Members
        /\ ceremony.at = "commit" => Ready(ceremony.session)
    BY Zenon, <2>1, AskingFacts
  <2>3. /\ abandoned' \subseteq Stage \X Sessions \X Members
        /\ \A r \in abandoned' : r \in abandoned \/ (r[1] = "commit" => Ready(r[2]))
    BY <1>1, <2>1, <2>2
  <2> QED
    BY <1>1, <2>1, <2>3, FailsFacts, StepStopped
<1>6. CASE coordinatorDies
  <2>1. /\ ceremony' = NoCeremony
        /\ UNCHANGED <<dkgRow, installed, ceremonyRow, groupKey, abandoned, losses, address>>
    BY Zenon, <1>6 DEF coordinatorDies
  <2>2. \A t \in Sessions : Ready(t)' = Ready(t)
    BY Zenon, <2>1 DEF Ready
  <2> QED
    BY Zenon, <1>1, <2>1, <2>2, StepStopped
<1> QED
  BY Zenon, <1>2, <1>3, <1>4, <1>5, <1>6

LEMMA StepAsked ==
  ASSUME CInv, ask \/ delayedArrives
  PROVE  CInv'
<1>1. losses \in Nat /\ ceremonyRow \in [Sessions -> CoordinatorPhase]
  BY Zenon DEF CInv, CeremonyTypeOK
<1>2. CASE ask
  <2>1. /\ Asking /\ Apply(handle(ceremony.at, ceremony.session, Addressed))
        /\ handle(ceremony.at, ceremony.session, Addressed).ok
        /\ ceremony' = [ceremony EXCEPT !.next = @ + 1]
        /\ UNCHANGED <<ceremonyRow, groupKey, abandoned, losses, address>>
    BY Zenon, <1>2 DEF ask
  <2>2. /\ ceremony.at \in Stage /\ ceremony.session \in Sessions /\ Addressed \in Members
        /\ ceremony.next \in 1..Len(Roster) /\ Addressed = Roster[ceremony.next]
        /\ ceremony.at = "commit" => Ready(ceremony.session)
    BY Zenon, <2>1, AskingFacts DEF Addressed
  <2>3. ceremony.next <= Len(Roster) /\ \A t \in Sessions : Ready(t)' = Ready(t)
    BY <2>1, <2>2, RosterMembers DEF Ready
  <2> QED
    BY Zenon, <1>1, <2>1, <2>2, <2>3, StepHandled
<1>3. CASE delayedArrives
  <2>1. PICK r \in abandoned : Apply(handle(r[1], r[2], r[3])) /\ abandoned' = abandoned \ {r}
    BY Zenon, <1>3 DEF delayedArrives
  <2>2. UNCHANGED <<ceremonyRow, groupKey, ceremony, losses, address>>
    BY Zenon, <1>3 DEF delayedArrives
  <2>3. r[1] \in Stage /\ r[2] \in Sessions /\ r[3] \in Members /\ (r[1] = "commit" => Ready(r[2]))
    BY Zenon DEF CInv, CeremonyTypeOK, CommitsBelong
  <2>4. \A t \in Sessions : Ready(t)' = Ready(t)
    BY Zenon, <2>2 DEF Ready
  <2> QED
    BY Zenon, <1>1, <2>1, <2>2, <2>3, <2>4, StepHandled
<1> QED
  BY Zenon, <1>2, <1>3

LEMMA MoveToEffect ==
  ASSUME CeremonyTypeOK, NEW part \in Stage \cup {"stored"},
         ceremony' = [ceremony EXCEPT !.at = part, !.next = 1], ceremony.at # "idle"
  PROVE  /\ ceremony' \in [at : Stage \cup {"idle", "stored"}, session : Sessions \cup {NoSession},
                           next : Nat \ {0}]
         /\ ceremony'.at = part /\ ceremony'.session = ceremony.session /\ ceremony'.next = 1
         /\ ceremony'.session \in Sessions /\ ceremony'.next <= Len(Roster) + 1
<1>1. /\ ceremony \in [at : Stage \cup {"idle", "stored"}, session : Sessions \cup {NoSession},
                       next : Nat \ {0}]
      /\ ceremony.session \in Sessions
  BY Zenon DEF CeremonyTypeOK
<1>2. ceremony' = [at |-> part, session |-> ceremony.session, next |-> 1]
  BY Zenon, <1>1
<1>3. Len(Roster) \in Nat
  BY Zenon, RosterMembers
<1> QED
  BY <1>1, <1>2, <1>3

\* The coordinator moves and no participant does.
LEMMA StepCoordinator ==
  ASSUME CInv, run_dkg \/ nextRound \/ allVerified \/ completeCeremony \/ answerInit \/ provisionKey
  PROVE  CInv'
<1>1. /\ UNCHANGED <<dkgRow, installed, abandoned, losses>>
      /\ CeremonyTypeOK /\ Len(Roster) \in Nat /\ 0 \notin Sessions
  BY RosterMembers
  DEF run_dkg, nextRound, allVerified, completeCeremony, answerInit, provisionKey, CInv, Sessions
<1>2. ASSUME \A s \in Sessions : Ready(s) => Ready(s)'
      PROVE  CommitsBelong'
  <2>1. \A q \in Members : installed[q] # NoSession => Ready(installed[q])'
    <3> SUFFICES ASSUME NEW q \in Members, installed[q] # NoSession PROVE Ready(installed[q])'
      BY Zenon
    <3>1. installed[q] \in Sessions /\ Ready(installed[q]) /\ installed'[q] = installed[q]
      BY Zenon, <1>1 DEF CInv, CeremonyTypeOK, CommitsBelong
    <3> QED
      BY Zenon, <1>2, <3>1 DEF Ready
  <2>2. \A r \in abandoned : r[1] = "commit" => Ready(r[2])'
    <3> SUFFICES ASSUME NEW r \in abandoned, r[1] = "commit" PROVE Ready(r[2])'
      BY Zenon
    <3>1. r[2] \in Sessions /\ Ready(r[2])
      BY Zenon, <1>1 DEF CInv, CeremonyTypeOK, CommitsBelong
    <3> QED
      BY Zenon, <1>2, <3>1
  <2> QED
    BY Zenon, <1>1, <2>1, <2>2 DEF CInv, CommitsBelong
<1>3. ASSUME \A s \in Sessions : Ready(s)' = Ready(s)
      PROVE  OneReady' /\ CommitsBelong'
  BY Zenon, <1>2, <1>3 DEF CInv, OneReady
<1>4. CASE run_dkg
  <2>1. ceremony = NoCeremony /\ groupKey = NoSession /\ UNCHANGED <<groupKey, address>>
    BY Zenon, <1>4 DEF run_dkg
  <2>2. CASE Resumable # {}
    <3> DEFINE l == Latest(Resumable)
    <3>1. ceremony' = [at |-> "commit", session |-> l, next |-> 1] /\ ceremonyRow' = ceremonyRow
      BY Zenon, <1>4, <2>2 DEF run_dkg
    <3>2. l \in Sessions /\ ceremonyRow[l] = "committing"
      <4>1. \A s, t \in Resumable : s = t
        BY Zenon DEF CInv, OneReady, Ready, Resumable
      <4>2. PICK s \in Resumable : TRUE
        BY Zenon, <2>2
      <4>3. \A t \in Resumable : t <= s
        BY <4>1 DEF Resumable, Sessions
      <4>4. l \in Resumable
        BY Zenon, <4>2, <4>3 DEF Latest
      <4> QED
        BY Zenon, <4>4 DEF Resumable
    <3> HIDE DEF l
    <3>3. \A s \in Sessions : Ready(s)' = Ready(s)
      BY Zenon, <3>1 DEF Ready
    <3>4. CeremonyTypeOK'
      BY <1>1, <2>1, <3>1, <3>2 DEF CeremonyTypeOK, Stage
    <3>5. Rounds' /\ Walked' /\ Stored'
      BY <2>1, <3>1, <3>2 DEF CInv, Rounds, Walked, Stored
    <3> QED
      BY Zenon, <1>3, <3>3, <3>4, <3>5 DEF CInv
  <2>3. CASE Resumable = {}
    <3>1. PICK s \in Sessions :
            /\ ceremonyRow[s] = "none"
            /\ ceremonyRow' = [ceremonyRow EXCEPT ![s] = "round1"]
            /\ ceremony' = [at |-> "round1", session |-> s, next |-> 1]
      BY Zenon, <1>4, <2>3 DEF run_dkg
    <3>2. \A t \in Sessions : ~Ready(t)
      BY Zenon, <1>1, <2>1, <2>3 DEF CInv, Rounds, Ready, Resumable, NoSession
    <3>3. \A t \in Sessions : ~Ready(t)'
      BY Zenon, <1>1, <3>1, <3>2 DEF Ready, CeremonyTypeOK
    <3>4. CeremonyTypeOK'
      BY <1>1, <2>1, <3>1 DEF CeremonyTypeOK, Stage, CoordinatorPhase
    <3>5. Rounds' /\ Walked' /\ Stored'
      BY Zenon, <2>1, <3>1, <3>3 DEF CInv, Rounds, Walked, Stored, Ready
    <3>6. \A t \in Sessions : Ready(t)' = Ready(t)
      BY <3>2, <3>3 DEF Ready
    <3> QED
      BY Zenon, <1>3, <3>4, <3>5, <3>6 DEF CInv
  <2> QED
    BY Zenon, <2>2, <2>3
<1>5. CASE nextRound
  <2>1. /\ UNCHANGED <<ceremonyRow, groupKey, address>> /\ ceremony.at \in {"round1", "round2"}
        /\ \E part \in {"round2", "finalize"} :
             ceremony' = [ceremony EXCEPT !.at = part, !.next = 1]
    BY Zenon, <1>5 DEF nextRound, Answered, MoveTo
  <2>2. /\ ceremony'.at \in {"round2", "finalize"} /\ ceremony'.session = ceremony.session
        /\ CeremonyTypeOK'
    <3>1. PICK part \in {"round2", "finalize"} :
            ceremony' = [ceremony EXCEPT !.at = part, !.next = 1]
      BY Zenon, <2>1
    <3>2. part \in Stage
      BY Zenon DEF Stage
    <3> QED
      BY Zenon, <1>1, <2>1, <3>1, <3>2, MoveToEffect DEF CeremonyTypeOK
  <2>3. \A s \in Sessions : Ready(s)' = Ready(s)
    BY Zenon, <2>1 DEF Ready
  <2>4. Rounds' /\ Walked' /\ Stored'
    BY Zenon, <1>1, <2>1, <2>2, <2>3 DEF CInv, Rounds, Walked, Stored
  <2> QED
    BY Zenon, <1>3, <2>2, <2>3, <2>4 DEF CInv
<1>6. CASE allVerified
  <2>1. /\ UNCHANGED <<groupKey, address>> /\ ceremony.at = "finalize"
        /\ ceremonyRow' = [ceremonyRow EXCEPT ![ceremony.session] = "committing"]
        /\ ceremony' = [ceremony EXCEPT !.at = "commit", !.next = 1]
    BY Zenon, <1>6 DEF allVerified, Answered, MoveTo
  <2>2. /\ ceremony'.at = "commit" /\ ceremony'.session = ceremony.session /\ ceremony'.next = 1
        /\ ceremony.session \in Sessions /\ CeremonyTypeOK'
    <3>1. "commit" \in Stage /\ "committing" \in CoordinatorPhase
      BY Zenon DEF Stage, CoordinatorPhase
    <3> QED
      BY Zenon, <1>1, <2>1, <3>1, MoveToEffect DEF CeremonyTypeOK
  <2>3. (\A s \in Sessions : ~Ready(s)) /\ groupKey = NoSession
    BY Zenon, <2>1 DEF CInv, Rounds, Stored
  <2>4. \A s \in Sessions : Ready(s)' => s = ceremony.session
    BY Zenon, <1>1, <2>1, <2>3 DEF Ready, CeremonyTypeOK
  <2>5. OneReady' /\ CommitsBelong'
    BY Zenon, <1>2, <2>3, <2>4 DEF OneReady
  <2>6. Rounds' /\ Walked' /\ Stored'
    BY <1>1, <2>1, <2>2, <2>3 DEF CInv, Rounds, Walked, Stored, Ready, CeremonyTypeOK
  <2> QED
    BY Zenon, <2>2, <2>5, <2>6 DEF CInv
<1>7. CASE completeCeremony
  <2>1. /\ UNCHANGED <<ceremonyRow, address>> /\ ceremony.at = "commit"
        /\ ceremony.next \notin DOMAIN Roster /\ groupKey' = ceremony.session
        /\ ceremony' = [ceremony EXCEPT !.at = "stored", !.next = 1]
    BY Zenon, <1>7 DEF completeCeremony, Answered, MoveTo, asked
  <2>2. /\ ceremony'.at = "stored" /\ ceremony'.session = ceremony.session
        /\ ceremony.session \in Sessions /\ CeremonyTypeOK'
    BY Zenon, <1>1, <2>1, MoveToEffect DEF CeremonyTypeOK
  <2>3. ceremony.next = Len(Roster) + 1
    BY <1>1, <2>1, RosterMembers DEF CeremonyTypeOK
  <2>4. \A p \in Members : installed[p] = ceremony.session
    BY <1>1, <2>1, <2>3, RosterMembers DEF CInv, Walked
  <2>5. \A s \in Sessions : Ready(s)' = Ready(s)
    BY Zenon, <2>1 DEF Ready
  <2>6. groupKey = NoSession /\ address = NoSession /\ Ready(ceremony.session)
    BY Zenon, <2>1 DEF CInv, Stored, Rounds, Ready
  <2>7. Rounds' /\ Walked' /\ Stored'
    BY Zenon, <1>1, <2>1, <2>2, <2>4, <2>6 DEF CInv, Rounds, Walked, Stored, Ready, NoSession
  <2> QED
    BY Zenon, <1>3, <2>2, <2>5, <2>7 DEF CInv
<1>8. CASE answerInit
  <2>1. /\ ceremony.at = "stored" /\ ceremony' = NoCeremony /\ groupKey' = groupKey
        /\ ceremonyRow' = [ceremonyRow EXCEPT ![ceremony.session] = "finalized"]
        /\ address' \in {address, groupKey}
    BY Zenon, <1>8 DEF answerInit, parseDkgInitResponse, init_response
  <2>2. /\ ceremony.session \in Sessions /\ groupKey = ceremony.session
        /\ ceremonyRow[ceremony.session] = "committing" /\ CeremonyTypeOK'
    BY <1>1, <2>1 DEF CInv, CeremonyTypeOK, Stored, Rounds, NoCeremony, CoordinatorPhase
  <2>3. \A s \in Sessions : Ready(s)' = Ready(s)
    BY <1>1, <2>1, <2>2 DEF Ready, CeremonyTypeOK
  <2>4. Rounds' /\ Walked' /\ Stored'
    BY Zenon, <1>1, <2>1, <2>2 DEF CInv, Rounds, Walked, Stored, Ready, NoCeremony, CeremonyTypeOK
  <2> QED
    BY Zenon, <1>3, <2>2, <2>3, <2>4 DEF CInv
<1>9. CASE provisionKey
  <2>1. UNCHANGED <<ceremony, ceremonyRow, groupKey>> /\ address' \in {address, groupKey}
    BY Zenon, <1>9 DEF provisionKey, parseDkgInitResponse, init_response
  <2>2. CeremonyTypeOK' /\ \A s \in Sessions : Ready(s)' = Ready(s)
    BY Zenon, <1>1, <2>1 DEF CeremonyTypeOK, Ready
  <2>3. Rounds' /\ Walked' /\ Stored'
    BY Zenon, <1>1, <2>1 DEF CInv, Rounds, Walked, Stored, Ready
  <2> QED
    BY Zenon, <1>3, <2>2, <2>3 DEF CInv
<1> QED
  BY Zenon, <1>4, <1>5, <1>6, <1>7, <1>8, <1>9

LEMMA CeremonyStep == CInv /\ [CeremonyNext]_ceremonyVars => CInv'
<1> SUFFICES ASSUME CInv, [CeremonyNext]_ceremonyVars PROVE CInv'
  BY Zenon
<1>1. CASE CeremonyNext
  BY Zenon, <1>1, StepFails, StepAsked, StepCoordinator DEF CeremonyNext
<1>2. CASE UNCHANGED ceremonyVars
  BY <1>2 DEF ceremonyVars, CInv, CeremonyTypeOK, OneReady, Rounds, CommitsBelong, Walked, Stored,
              Ready
<1> QED
  BY Zenon, <1>1, <1>2

\* No address without a share of its key at every participant, and never two
\* ceremonies' shares side by side (threshold.rs run_dkg, commit_all, complete;
\* dkg.rs commit; rust-single-key.ts provisionKey): for any roster and any
\* number of ceremonies, crashes and lost, delayed or repeated requests.
THEOREM AddressIsHeldByAllAlways == CeremonySpec => []AddressIsHeldByAll
<1>1. CInv => AddressIsHeldByAll
  <2> SUFFICES ASSUME CInv PROVE AddressIsHeldByAll
    BY Zenon
  <2>1. \A p, q \in Members :
          NoSession \in {installed[p], installed[q]} \/ installed[p] = installed[q]
    BY Zenon DEF CInv, CeremonyTypeOK, CommitsBelong, OneReady
  <2>2. \A p \in Members : {groupKey, address} \subseteq {NoSession, installed[p]}
    BY Zenon DEF CInv, Stored
  <2> QED
    BY Zenon, <2>1, <2>2 DEF AddressIsHeldByAll
<1> QED
  BY CeremonyInitInv, CeremonyStep, <1>1, PTL DEF CeremonySpec

-----------------------------------------------------------------------------
(* The nonce pool.                                                           *)

\* The rows that are accounts of the treasury.
HeldAccounts == {a \in DOMAIN nonceRows : nonceRows[a].status # "retired" /\ accountOf[a] = "ours"}

RowStatuses == {"available", "leased", "retired"}
Script == [at : {"idle", "read", "retire", "sign", "broadcast", "confirm", "record", "done",
                 "failed"},
           existing : SUBSET [address : PoolAddresses, status : RowStatuses],
           usable : SUBSET PoolAddresses, foreign : SUBSET PoolAddresses, missing : Int,
           address : PoolAddresses \cup {NoLease}]

PoolTypes ==
  /\ DOMAIN nonceRows \subseteq PoolAddresses
  /\ \A a \in DOMAIN nonceRows :
       nonceRows[a] \in [status : RowStatuses, leasedBy : Leasers \cup {NoLease}]
  /\ accountOf \in [PoolAddresses -> {"absent", "sent", "ours", "foreign"}]
  /\ treasury \in BOOLEAN /\ script \in Script

\* The steps of the script after the rows have been counted.
Creating == {"sign", "broadcast", "confirm", "record"}

\* What the script knows is still so: what it found usable it may count on,
\* what it found foreign stays foreign, and what is missing is missing.
ScriptKnows ==
  /\ script.at = "retire" =>
       /\ script.usable \subseteq DOMAIN nonceRows
       /\ script.foreign \subseteq DOMAIN nonceRows
       /\ treasury => script.usable \subseteq HeldAccounts
       /\ treasury => \A a \in script.foreign : accountOf[a] = "foreign"
       /\ script.foreign # {} => treasury
  /\ script.at = "read" =>
       \A e \in script.existing :
         /\ e.address \in DOMAIN nonceRows
         /\ e.status = "available" => nonceRows[e.address].status # "retired"
  /\ script.at \in Creating =>
       /\ treasury /\ script.missing \in Nat \ {0}
       /\ Cardinality(HeldAccounts) + script.missing >= noncePoolSize
  /\ script.at \in {"broadcast", "confirm", "record"} =>
       script.address \in Generated \ DOMAIN nonceRows
  /\ script.at = "confirm" => accountOf[script.address] \in {"sent", "ours"}
  /\ script.at = "record" => accountOf[script.address] = "ours"

NInv == PoolTypes /\ ScriptKnows /\ PoolHoldsTarget


LEMMA HeldIsFinite ==
  ASSUME PoolTypes
  PROVE  IsFiniteSet(HeldAccounts) /\ Cardinality(HeldAccounts) \in Nat
<1>1. IsFiniteSet(PoolAddresses)
  BY Zenon, PoolAssumption, FS_Union DEF PoolAddresses
<1>2. HeldAccounts \in SUBSET PoolAddresses
  BY Zenon DEF HeldAccounts, PoolTypes
<1>3. IsFiniteSet(HeldAccounts)
  BY Zenon, <1>1, <1>2, FS_Subset
<1> QED BY Zenon, <1>3, FS_CardinalityType

LEMMA HeldGrows ==
  ASSUME PoolTypes, PoolTypes', HeldAccounts \subseteq HeldAccounts'
  PROVE  /\ Cardinality(HeldAccounts) <= Cardinality(HeldAccounts')
         /\ Cardinality(HeldAccounts) \in Nat /\ Cardinality(HeldAccounts') \in Nat
<1>1. IsFiniteSet(HeldAccounts)' /\ (Cardinality(HeldAccounts) \in Nat)'
  BY HeldIsFinite, PTL
<1> DEFINE S == HeldAccounts'
           T == HeldAccounts
<1>2. IsFiniteSet(S) /\ T \in SUBSET S
  BY Zenon, <1>1
<1> HIDE DEF S, T
<1>3. Cardinality(T) <= Cardinality(S)
  BY Zenon, <1>2, FS_Subset
<1> QED BY Zenon, <1>1, <1>3, HeldIsFinite DEF S, T

\* What happens beside the script takes no account from the pool.
LEMMA Drift ==
  ASSUME NInv, PoolTypes', UNCHANGED <<script, treasury>>, DOMAIN nonceRows' = DOMAIN nonceRows,
         \A a \in DOMAIN nonceRows :
           nonceRows[a].status # "retired" => nonceRows'[a].status # "retired",
         \A a \in PoolAddresses : \/ accountOf'[a] = accountOf[a]
                                  \/ accountOf[a] = "sent" /\ accountOf'[a] = "ours"
  PROVE  NInv'
<1>1. HeldAccounts \subseteq HeldAccounts'
  BY Zenon DEF HeldAccounts, NInv, PoolTypes
<1>2. /\ Cardinality(HeldAccounts) <= Cardinality(HeldAccounts')
      /\ Cardinality(HeldAccounts) \in Nat /\ Cardinality(HeldAccounts') \in Nat
  BY Zenon, <1>1, HeldGrows DEF NInv
<1>3. PoolHoldsTarget'
  BY <1>2, PoolAssumption DEF NInv, PoolHoldsTarget, HeldAccounts
<1>4. ScriptKnows'
  BY <1>1, <1>2, PoolAssumption DEF NInv, ScriptKnows, PoolTypes, PoolAddresses, Creating
<1> QED BY Zenon, <1>3, <1>4 DEF NInv

LEMMA PoolBeside ==
  ASSUME NInv, Lands \/ \E w \in Leasers : lease(w) \/ release(w)
  PROVE  NInv'
<1>1. PoolTypes /\ UNCHANGED <<script, treasury>>
  BY Zenon DEF NInv, Lands, lease, release
<1>2. /\ DOMAIN nonceRows' = DOMAIN nonceRows
      /\ \A a \in DOMAIN nonceRows :
           /\ nonceRows'[a] \in [status : RowStatuses, leasedBy : Leasers \cup {NoLease}]
           /\ nonceRows[a].status # "retired" => nonceRows'[a].status # "retired"
  BY <1>1 DEF Lands, lease, release, PoolTypes, RowStatuses
<1>3. /\ accountOf' \in [PoolAddresses -> {"absent", "sent", "ours", "foreign"}]
      /\ \A a \in PoolAddresses : \/ accountOf'[a] = accountOf[a]
                                  \/ accountOf[a] = "sent" /\ accountOf'[a] = "ours"
  BY Zenon, <1>1 DEF Lands, lease, release, PoolTypes
<1>4. PoolTypes'
  BY Zenon, <1>1, <1>2, <1>3 DEF PoolTypes
<1> QED BY Zenon, <1>1, <1>2, <1>3, <1>4, Drift

\* The steps of the script that read.
LEMMA ScriptReads ==
  ASSUME NInv, listAll \/ classify \/ count \/ signPayer \/ confirmed \/ fail
  PROVE  NInv'
<1>1. PoolTypes /\ UNCHANGED <<nonceRows, accountOf, treasury>>
  BY Zenon DEF NInv, listAll, classify, count, signPayer, confirmed, fail
<1>2. HeldAccounts' = HeldAccounts
  BY Zenon, <1>1 DEF HeldAccounts
<1>3. ASSUME script' \in Script PROVE PoolTypes'
  BY Zenon, <1>1, <1>3 DEF PoolTypes
<1>4. ASSUME script'.at # "done" PROVE PoolHoldsTarget'
  BY Zenon, <1>4 DEF PoolHoldsTarget
<1>5. CASE listAll
  <2> DEFINE listed == {[address |-> a, status |-> nonceRows[a].status] : a \in DOMAIN nonceRows}
  <2>a. listed \subseteq [address : PoolAddresses, status : RowStatuses]
    BY <1>1 DEF PoolTypes
  <2>b. \A e \in listed : /\ e.address \in DOMAIN nonceRows
                          /\ e.status = nonceRows[e.address].status
    OBVIOUS
  <2>c. script' = [ScriptIdle EXCEPT !.at = "read", !.existing = listed]
    BY Zenon, <1>5 DEF listAll
  <2> HIDE DEF listed
  <2>1. script' \in Script /\ script'.at = "read" /\ script'.existing = listed
    <3>1. ScriptIdle \in Script
      BY DEF ScriptIdle, Script
    <3> QED BY Zenon, <2>a, <2>c, <3>1 DEF Script
  <2>2. ScriptKnows'
    BY Zenon, <1>1, <2>1, <2>b DEF ScriptKnows, Creating
  <2> QED BY Zenon, <1>3, <1>4, <2>1, <2>2 DEF NInv
<1>6. CASE classify
  <2>1. PICK unread \in SUBSET {e.address : e \in script.existing} :
          LET available == {e.address : e \in {x \in script.existing : x.status = "available"}}
              onChain == {e.address : e \in script.existing} \ unread
          IN  script' = [script EXCEPT !.at = "retire",
                           !.usable = {a \in onChain \cap available : authorised(a)},
                           !.foreign = {a \in onChain : readNonce(a) /\ ~authorised(a)}]
    BY Zenon, <1>6 DEF classify
  <2> DEFINE available == {e.address : e \in {x \in script.existing : x.status = "available"}}
             onChain == {e.address : e \in script.existing} \ unread
             usable == {a \in onChain \cap available : authorised(a)}
             foreign == {a \in onChain : readNonce(a) /\ ~authorised(a)}
  <2>2. /\ script.at = "read" /\ onChain \subseteq DOMAIN nonceRows
        /\ \A a \in available : nonceRows[a].status # "retired"
    <3>1. /\ script.at = "read"
          /\ \A e \in script.existing :
               /\ e.address \in DOMAIN nonceRows
               /\ e.status = "available" => nonceRows[e.address].status # "retired"
      BY Zenon, <1>6 DEF classify, NInv, ScriptKnows
    <3> QED BY Zenon, <3>1
  <2>3. /\ usable \subseteq DOMAIN nonceRows /\ foreign \subseteq DOMAIN nonceRows
        /\ DOMAIN nonceRows \subseteq PoolAddresses
        /\ treasury => usable \subseteq HeldAccounts
        /\ treasury => \A a \in foreign : accountOf[a] = "foreign"
        /\ foreign # {} => treasury
    BY Zenon, <1>1, <2>2 DEF HeldAccounts, authorised, readNonce, PoolTypes
  <2>4. script' = [script EXCEPT !.at = "retire", !.usable = usable, !.foreign = foreign]
    BY Zenon, <2>1
  <2> HIDE DEF usable, foreign
  <2>5. /\ script' \in Script /\ script'.at = "retire" /\ script'.usable = usable
        /\ script'.foreign = foreign
    BY Zenon, <1>1, <2>3, <2>4 DEF PoolTypes, Script
  <2>6. ScriptKnows'
    BY Zenon, <1>1, <1>2, <2>3, <2>5 DEF ScriptKnows, Creating
  <2> QED BY Zenon, <1>3, <1>4, <2>5, <2>6 DEF NInv
<1>7. CASE count
  <2> DEFINE missing == noncePoolSize - Cardinality(script.usable)
  <2>1. /\ script.at = "retire" /\ script.usable \subseteq DOMAIN nonceRows
        /\ treasury => script.usable \subseteq HeldAccounts
    BY Zenon, <1>7 DEF count, NInv, ScriptKnows
  <2>2. IsFiniteSet(script.usable) /\ Cardinality(script.usable) \in Nat
    <3>1. IsFiniteSet(PoolAddresses) /\ script.usable \in SUBSET PoolAddresses
      BY Zenon, <1>1, <2>1, PoolAssumption, FS_Union DEF PoolAddresses, PoolTypes
    <3>2. IsFiniteSet(script.usable)
      BY Zenon, <3>1, FS_Subset
    <3> QED BY Zenon, <3>2, FS_CardinalityType
  <2>3. /\ missing \in Int
        /\ treasury => Cardinality(HeldAccounts) + missing >= noncePoolSize
        /\ Cardinality(HeldAccounts) \in Nat
    <3>1. IsFiniteSet(HeldAccounts) /\ Cardinality(HeldAccounts) \in Nat
      BY Zenon, <1>1, HeldIsFinite
    <3>2. treasury => Cardinality(script.usable) <= Cardinality(HeldAccounts)
      BY Zenon, <2>1, <3>1, FS_Subset
    <3> QED BY <2>2, <3>1, <3>2, PoolAssumption
  <2>4. script' = [script EXCEPT !.missing = missing,
                     !.at = IF missing <= 0 THEN "done" ELSE IF treasury THEN "sign" ELSE "failed"]
    BY Zenon, <1>7 DEF count
  <2> HIDE DEF missing
  <2>5. /\ script' \in Script /\ script'.missing = missing
        /\ script'.at = IF missing <= 0 THEN "done" ELSE IF treasury THEN "sign" ELSE "failed"
    BY Zenon, <1>1, <2>3, <2>4 DEF PoolTypes, Script
  <2>6. ScriptKnows'
    BY <1>1, <1>2, <2>3, <2>5 DEF ScriptKnows, Creating
  <2>7. PoolHoldsTarget'
    <3>1. HeldAccounts' = {a \in DOMAIN nonceRows' :
                             nonceRows'[a].status # "retired" /\ accountOf'[a] = "ours"}
      BY Zenon DEF HeldAccounts
    <3>2. script'.at = "done" /\ treasury => Cardinality(HeldAccounts) >= noncePoolSize
      BY <2>3, <2>5, PoolAssumption
    <3> QED BY Zenon, <1>1, <1>2, <3>1, <3>2 DEF PoolHoldsTarget
  <2> QED BY Zenon, <1>3, <2>5, <2>6, <2>7 DEF NInv
<1>8. CASE signPayer
  <2>1. PICK a \in Generated : /\ script.at = "sign" /\ a \notin DOMAIN nonceRows
                               /\ script' = [script EXCEPT !.at = "broadcast", !.address = a]
    BY Zenon, <1>8 DEF signPayer
  <2>2. /\ script' \in Script /\ script'.at = "broadcast" /\ script'.address = a
        /\ script'.missing = script.missing
    BY Zenon, <1>1, <2>1 DEF PoolTypes, Script, PoolAddresses
  <2>3. ScriptKnows'
    BY Zenon, <1>1, <1>2, <2>1, <2>2 DEF NInv, ScriptKnows, Creating
  <2> QED BY Zenon, <1>3, <1>4, <2>2, <2>3 DEF NInv
<1>9. CASE confirmed
  <2>1. /\ script.at = "confirm" /\ readNonce(script.address)
        /\ script' = [script EXCEPT !.at = "record"]
    BY Zenon, <1>9 DEF confirmed
  <2>2. /\ script' \in Script /\ script'.at = "record" /\ script'.address = script.address
        /\ script'.missing = script.missing
    BY Zenon, <1>1, <2>1 DEF PoolTypes, Script
  <2>3. ScriptKnows'
    BY Zenon, <1>1, <1>2, <2>1, <2>2 DEF NInv, ScriptKnows, Creating, readNonce
  <2> QED BY Zenon, <1>3, <1>4, <2>2, <2>3 DEF NInv
<1>10. CASE fail
  <2>1. script' \in Script /\ script'.at = "failed"
    BY <1>10 DEF fail, ScriptIdle, Script
  <2>2. ScriptKnows'
    BY Zenon, <2>1 DEF ScriptKnows, Creating
  <2> QED BY Zenon, <1>3, <1>4, <2>1, <2>2 DEF NInv
<1> QED BY Zenon, <1>5, <1>6, <1>7, <1>8, <1>9, <1>10

\* The steps of the script that write.
LEMMA ScriptWrites ==
  ASSUME NInv, retire \/ broadcast \/ record
  PROVE  NInv'
<1>1. PoolTypes /\ treasury' = treasury
  BY Zenon DEF NInv, retire, broadcast, record
<1>2. CASE retire
  <2>1. PICK a \in script.foreign :
          /\ nonceRows' = [nonceRows EXCEPT ![a].status = "retired"]
          /\ script' = [script EXCEPT !.foreign = @ \ {a}]
          /\ script.at = "retire" /\ accountOf' = accountOf
    BY Zenon, <1>2 DEF retire
  <2>2. /\ script' \in Script /\ script'.at = "retire" /\ script'.usable = script.usable
        /\ script'.foreign = script.foreign \ {a}
    BY Zenon, <1>1, <2>1 DEF PoolTypes, Script
  <2>3. /\ a \in DOMAIN nonceRows /\ accountOf[a] = "foreign" /\ treasury
    BY Zenon, <2>1 DEF NInv, ScriptKnows
  <2>4. /\ DOMAIN nonceRows' = DOMAIN nonceRows
        /\ \A b \in DOMAIN nonceRows :
             /\ nonceRows'[b] \in [status : RowStatuses, leasedBy : Leasers \cup {NoLease}]
             /\ b # a => nonceRows'[b] = nonceRows[b]
    BY Zenon, <1>1, <2>1, <2>3 DEF PoolTypes, RowStatuses
  <2>5. PoolTypes'
    BY Zenon, <1>1, <2>1, <2>2, <2>4 DEF PoolTypes
  <2>6. HeldAccounts \subseteq HeldAccounts'
    BY Zenon, <2>1, <2>3, <2>4 DEF HeldAccounts
  <2>7. ScriptKnows'
    BY Zenon, <1>1, <2>1, <2>2, <2>3, <2>4, <2>6 DEF NInv, ScriptKnows, Creating
  <2> QED BY Zenon, <2>2, <2>5, <2>7 DEF NInv, PoolHoldsTarget
<1>3. CASE broadcast
  <2>1. /\ script.at = "broadcast" /\ script' = [script EXCEPT !.at = "confirm"]
        /\ accountOf' = [accountOf EXCEPT ![script.address] = "sent"] /\ nonceRows' = nonceRows
    BY Zenon, <1>3 DEF broadcast
  <2>2. /\ script' \in Script /\ script'.at = "confirm" /\ script'.address = script.address
        /\ script'.missing = script.missing
    BY Zenon, <1>1, <2>1 DEF PoolTypes, Script
  <2>3. script.address \in Generated \ DOMAIN nonceRows /\ script.address \in PoolAddresses
    BY Zenon, <2>1 DEF NInv, ScriptKnows, PoolAddresses
  <2>4. /\ accountOf' \in [PoolAddresses -> {"absent", "sent", "ours", "foreign"}]
        /\ accountOf'[script.address] = "sent"
        /\ \A b \in DOMAIN nonceRows : accountOf'[b] = accountOf[b]
    BY Zenon, <1>1, <2>1, <2>3 DEF PoolTypes
  <2>5. PoolTypes'
    BY Zenon, <1>1, <2>1, <2>2, <2>4 DEF PoolTypes
  <2>6. HeldAccounts' = HeldAccounts
    BY Zenon, <2>1, <2>4 DEF HeldAccounts
  <2>7. ScriptKnows'
    BY Zenon, <1>1, <2>1, <2>2, <2>3, <2>4, <2>6 DEF NInv, ScriptKnows, Creating
  <2> QED BY Zenon, <2>2, <2>5, <2>7 DEF NInv, PoolHoldsTarget
<1>4. CASE record
  <2> DEFINE new == script.address
             row == [status |-> "available", leasedBy |-> NoLease]
  <2>1. /\ script.at = "record" /\ accountOf' = accountOf
        /\ nonceRows' = [a \in DOMAIN nonceRows \cup {new} |-> IF a = new THEN row ELSE nonceRows[a]]
        /\ script' = [script EXCEPT !.missing = @ - 1, !.address = NoLease,
                        !.at = IF script.missing = 1 THEN "done" ELSE "sign"]
    BY Zenon, <1>4 DEF record, create
  <2>2. /\ treasury /\ script.missing \in Nat \ {0}
        /\ Cardinality(HeldAccounts) + script.missing >= noncePoolSize
        /\ new \in Generated \ DOMAIN nonceRows /\ accountOf[new] = "ours" /\ new \in PoolAddresses
    BY Zenon, <2>1 DEF NInv, ScriptKnows, Creating, PoolAddresses
  <2>3. /\ script' \in Script /\ script'.missing = script.missing - 1
        /\ script'.at = IF script.missing = 1 THEN "done" ELSE "sign"
    <3> DEFINE next == IF script.missing = 1 THEN "done" ELSE "sign"
               left == script.missing - 1
    <3>1. next \in {"done", "sign"} /\ left \in Int
      BY <2>2
    <3>2. script' = [script EXCEPT !.missing = left, !.address = NoLease, !.at = next]
      BY Zenon, <1>1, <2>1 DEF PoolTypes, Script
    <3> HIDE DEF next, left
    <3>3. script' \in Script /\ script'.missing = left /\ script'.at = next
      BY Zenon, <1>1, <3>1, <3>2 DEF PoolTypes, Script
    <3> QED BY Zenon, <3>3 DEF next, left
  <2>4. row \in [status : RowStatuses, leasedBy : Leasers \cup {NoLease}] /\ row.status # "retired"
    BY Zenon DEF RowStatuses
  <2> HIDE DEF row, new
  <2>5. PoolTypes'
    BY Zenon, <1>1, <2>1, <2>2, <2>3, <2>4 DEF PoolTypes
  <2>6. HeldAccounts' = HeldAccounts \cup {new} /\ new \notin HeldAccounts
    BY Zenon, <2>1, <2>2, <2>4 DEF HeldAccounts
  <2>7. /\ Cardinality(HeldAccounts') = Cardinality(HeldAccounts) + 1
        /\ Cardinality(HeldAccounts) \in Nat
    BY Zenon, <1>1, <2>6, HeldIsFinite, FS_AddElement
  <2>8. ScriptKnows'
    BY <1>1, <2>2, <2>3, <2>7, PoolAssumption DEF ScriptKnows, Creating
  <2>9. PoolHoldsTarget'
    <3>1. HeldAccounts' = {a \in DOMAIN nonceRows' :
                             nonceRows'[a].status # "retired" /\ accountOf'[a] = "ours"}
      BY Zenon DEF HeldAccounts
    <3>2. script'.at = "done" => Cardinality(HeldAccounts') >= noncePoolSize
      BY Zenon, <2>2, <2>3, <2>7, PoolAssumption
    <3> QED BY Zenon, <3>1, <3>2 DEF PoolHoldsTarget
  <2> QED BY Zenon, <2>5, <2>8, <2>9 DEF NInv
<1> QED BY Zenon, <1>2, <1>3, <1>4

(* However withdrawals lease and release accounts beside it, and whatever    *)
(* earlier runs that failed left on the chain, a run of the provisioning     *)
(* script that ends well leaves at least noncePoolSize rows that are         *)
(* accounts of the treasury, for every pool, number of runs and withdrawals  *)
(* (apps/api/src/scripts/provision-nonces.ts).                               *)
THEOREM PoolHoldsTargetAlways == PoolSpec => []PoolHoldsTarget
<1>1. PoolInit => NInv
  <2> SUFFICES ASSUME PoolInit PROVE NInv
    BY Zenon
  <2>1. script \in Script /\ script.at = "idle"
    BY DEF PoolInit, ScriptIdle, Script
  <2>2. PoolTypes
    BY <2>1 DEF PoolInit, PoolTypes, PoolAddresses, RowStatuses
  <2> QED BY Zenon, <2>1, <2>2 DEF NInv, ScriptKnows, Creating, PoolHoldsTarget
<1>2. NInv /\ [PoolNext]_poolVars => NInv'
  <2> SUFFICES ASSUME NInv, [PoolNext]_poolVars PROVE NInv'
    BY Zenon
  <2>1. CASE UNCHANGED poolVars
    BY Zenon, <2>1 DEF poolVars, NInv, PoolTypes, ScriptKnows, HeldAccounts, PoolHoldsTarget
  <2> QED BY Zenon, <2>1, PoolBeside, ScriptReads, ScriptWrites DEF PoolNext
<1>3. NInv => PoolHoldsTarget
  BY Zenon DEF NInv
<1> QED BY <1>1, <1>2, <1>3, PTL DEF PoolSpec

-----------------------------------------------------------------------------
(* The dead-letter queue.                                                    *)

JobQueue == {"order_pending_engine", "withdrawal_sign"}
Job == [id : Nat \ {0}, queue : JobQueue, reference : StuckOrders \cup StuckWithdrawals,
        retried : BOOLEAN]

JobsTypeOK ==
  /\ pending \subseteq StuckOrders
  /\ sweepAttempts \in [StuckOrders -> Nat]
  /\ sweeping = NoStuck
       \/ sweeping \in [order : StuckOrders, at : {"resolve", "budget"}]
  /\ deadLettered \subseteq StuckOrders
  /\ givingUp \subseteq StuckWithdrawals
  /\ jobs \in Seq(Job)
  /\ retrying \in [Presses -> Nat]
  /\ handlerRuns \in Seq(Nat)

\* A job has an id of its own, and an unretried one has had no handler.
JobsApart ==
  /\ \A i \in DOMAIN jobs : jobs[i].id \in DOMAIN handlerRuns
  /\ \A i, j \in DOMAIN jobs : jobs[i].id = jobs[j].id => i = j
  /\ \A i \in DOMAIN jobs : ~jobs[i].retried => handlerRuns[jobs[i].id] = 0

\* What this process parked is in the queue or was dropped from it.
ParkedStay == deadLettered \subseteq parked \cup missed

\* Between cycles an order out of attempts is in the queue or was missed.
HeldOrParked ==
  /\ \A o \in StuckOrders : sweepAttempts[o] <= SweepBudget
  /\ \A o \in pending :
       sweepAttempts[o] = SweepBudget /\ (sweeping = NoStuck \/ sweeping.order # o)
         => o \in parked \cup missed

JInv == JobsTypeOK /\ JobsApart /\ RetriedOnce /\ ParkedStay /\ HeldOrParked

\* A full queue loses its oldest job to the operators' view, and no other.
LEMMA RecordJob ==
  ASSUME JInv, NEW queue \in JobQueue, NEW reference \in StuckOrders \cup StuckWithdrawals,
         recordJob(queue, reference)
  PROVE  /\ jobs' \in Seq(Job) /\ handlerRuns' \in Seq(Nat)
         /\ JobsApart' /\ RetriedOnce'
         /\ parked \cup missed \cup {reference} \subseteq parked' \cup missed'
<1> DEFINE job == [id |-> Len(handlerRuns) + 1, queue |-> queue, reference |-> reference,
                   retried |-> FALSE]
           full == Len(jobs) = Capacity
           kept == IF full THEN Tail(jobs) ELSE jobs
<1>1. jobs \in Seq(Job) /\ handlerRuns \in Seq(Nat) /\ JobsApart /\ RetriedOnce
  BY Zenon DEF JInv, JobsTypeOK
<1>2. job \in Job
  BY <1>1 DEF Job
<1>3. jobs' = Append(kept, job) /\ handlerRuns' = Append(handlerRuns, 0)
      /\ missed' = missed \cup (IF full THEN {Head(jobs).reference} ELSE {})
  BY Zenon DEF recordJob
<1>4. job.id = Len(handlerRuns) + 1 /\ job.reference = reference /\ job.retried = FALSE
  BY Zenon
<1> HIDE DEF job
<1>5. full => jobs # <<>>
  BY Zenon, <1>1, JobsAssumption
<1>6. kept \in Seq(Job)
  BY <1>1, <1>5
<1>7. \E d \in {0, 1} :
        /\ Len(kept) = Len(jobs) - d
        /\ \A i \in 1..Len(kept) : kept[i] = jobs[i + d] /\ i + d \in 1..Len(jobs)
        /\ d = 1 => full
  <2>1. CASE full
    <3>1. Len(Tail(jobs)) = Len(jobs) - 1
          /\ \A i \in 1..Len(Tail(jobs)) : Tail(jobs)[i] = jobs[i + 1]
      BY <2>1, <1>1, <1>5
    <3> QED BY <2>1, <3>1, <1>1
  <2>2. CASE ~full
    BY <2>2, <1>1
  <2> QED BY Zenon, <2>1, <2>2
<1>8. PICK d \in {0, 1} :
        /\ Len(kept) = Len(jobs) - d
        /\ \A i \in 1..Len(kept) : kept[i] = jobs[i + d] /\ i + d \in 1..Len(jobs)
        /\ d = 1 => full
  BY Zenon, <1>7
<1> HIDE DEF kept, full
<1>9. jobs' \in Seq(Job) /\ handlerRuns' \in Seq(Nat)
  BY <1>1, <1>2, <1>3, <1>6
<1>10. /\ Len(jobs') = Len(kept) + 1 /\ jobs'[Len(kept) + 1] = job
       /\ \A i \in 1..Len(kept) : jobs'[i] = kept[i]
  BY <1>2, <1>3, <1>6
<1>11. /\ Len(handlerRuns') = Len(handlerRuns) + 1 /\ handlerRuns'[Len(handlerRuns) + 1] = 0
       /\ \A i \in 1..Len(handlerRuns) : handlerRuns'[i] = handlerRuns[i]
  BY <1>1, <1>3
<1>12. /\ DOMAIN jobs' = 1..(Len(kept) + 1) /\ DOMAIN jobs = 1..Len(jobs)
       /\ DOMAIN handlerRuns' = 1..(Len(handlerRuns) + 1)
       /\ DOMAIN handlerRuns = 1..Len(handlerRuns) /\ Len(kept) \in Nat /\ Len(jobs) \in Nat
       /\ Len(handlerRuns) \in Nat
  BY <1>1, <1>6, <1>9, <1>10, <1>11
<1>13. JobsApart'
  <2>1. \A i \in DOMAIN jobs' : jobs'[i].id \in DOMAIN handlerRuns'
    <3>1. ASSUME NEW i \in 1..Len(kept) PROVE jobs'[i].id \in DOMAIN handlerRuns'
      <4>1. i + d \in DOMAIN jobs /\ jobs'[i] = jobs[i + d]
        BY Zenon, <1>8, <1>10, <1>12
      <4>2. jobs[i + d].id \in DOMAIN handlerRuns
        BY Zenon, <4>1, <1>1 DEF JobsApart
      <4> QED BY <4>1, <4>2, <1>12
    <3>2. jobs'[Len(kept) + 1].id \in DOMAIN handlerRuns'
      BY <1>4, <1>10, <1>12
    <3> QED BY <3>1, <3>2, <1>12
  <2>2. ASSUME NEW i \in DOMAIN jobs', NEW j \in DOMAIN jobs', jobs'[i].id = jobs'[j].id
        PROVE  i = j
    <3>1. \A k \in 1..Len(kept) : jobs'[k].id = jobs[k + d].id /\ k + d \in DOMAIN jobs
                                  /\ jobs'[k].id \in 1..Len(handlerRuns)
      <4>1. \A k \in 1..Len(kept) : k + d \in DOMAIN jobs /\ jobs'[k] = jobs[k + d]
        BY Zenon, <1>8, <1>10, <1>12
      <4>2. \A k \in DOMAIN jobs : jobs[k].id \in 1..Len(handlerRuns)
        BY Zenon, <1>1, <1>12 DEF JobsApart
      <4> QED BY Zenon, <4>1, <4>2
    <3>2. CASE i \in 1..Len(kept) /\ j \in 1..Len(kept)
      BY <3>1, <3>2, <2>2, <1>1 DEF JobsApart
    <3>3. CASE i = Len(kept) + 1 \/ j = Len(kept) + 1
      BY <3>1, <3>3, <2>2, <1>4, <1>10, <1>12
    <3> QED BY <3>2, <3>3, <1>12
  <2>3. ASSUME NEW i \in DOMAIN jobs', ~jobs'[i].retried
        PROVE  handlerRuns'[jobs'[i].id] = 0
    <3>1. CASE i \in 1..Len(kept)
      <4>1. i + d \in DOMAIN jobs /\ jobs'[i] = jobs[i + d]
        BY Zenon, <3>1, <1>8, <1>10, <1>12
      <4>2. jobs[i + d].id \in DOMAIN handlerRuns /\ handlerRuns[jobs[i + d].id] = 0
        BY Zenon, <4>1, <2>3, <1>1 DEF JobsApart
      <4> QED BY Zenon, <4>1, <4>2, <1>11, <1>12
    <3>2. CASE i = Len(kept) + 1
      BY Zenon, <3>2, <1>4, <1>10, <1>11
    <3> QED BY <3>1, <3>2, <1>12
  <2> QED BY Zenon, <2>1, <2>2, <2>3 DEF JobsApart
<1>14. RetriedOnce'
  BY <1>1, <1>11, <1>12 DEF RetriedOnce
<1>15. reference \in parked'
  BY <1>4, <1>10, <1>12 DEF parked
<1>16. ASSUME NEW i \in DOMAIN jobs PROVE jobs[i].reference \in parked' \cup missed'
  <2>1. CASE i - d \in 1..Len(kept)
    <3>1. jobs'[i - d] = jobs[i] /\ i - d \in DOMAIN jobs'
      BY <2>1, <1>8, <1>10, <1>12
    <3> QED BY Zenon, <3>1 DEF parked
  <2>2. CASE i - d \notin 1..Len(kept)
    <3>1. d = 1 /\ i = 1
      BY <2>2, <1>8, <1>12
    <3>2. Head(jobs) = jobs[1]
      BY <1>1
    <3> QED BY Zenon, <3>1, <3>2, <1>3, <1>8
  <2> QED BY Zenon, <2>1, <2>2
<1> QED BY Zenon, <1>3, <1>9, <1>13, <1>14, <1>15, <1>16 DEF parked

LEMMA JobsStart == JobsInit => JInv
<1> SUFFICES ASSUME JobsInit PROVE JInv
  BY Zenon
<1>1. JobsTypeOK
  BY DEF JobsInit, JobsTypeOK, NoJob
<1>2. DOMAIN jobs = {} /\ DOMAIN handlerRuns = {}
  BY DEF JobsInit
<1>3. JobsApart /\ RetriedOnce
  BY Zenon, <1>2 DEF JobsApart, RetriedOnce
<1>4. ParkedStay /\ HeldOrParked
  BY JobsAssumption DEF JobsInit, ParkedStay, HeldOrParked
<1> QED BY Zenon, <1>1, <1>3, <1>4 DEF JInv

\* The cycle that held the order last parks it, unless it is there already.
LEMMA JobsPark == JInv /\ park => JInv'
<1> SUFFICES ASSUME JInv, park PROVE JInv'
  BY Zenon
<1> DEFINE o == sweeping.order
<1>1. /\ sweeping \in [order : StuckOrders, at : {"resolve", "budget"}] /\ sweeping # NoStuck
      /\ sweeping' = NoStuck /\ o \in StuckOrders
  BY DEF JInv, JobsTypeOK, park, NoStuck
<1>2. /\ pending' = pending /\ sweepAttempts' = sweepAttempts /\ givingUp' = givingUp
      /\ retrying' = retrying
  BY Zenon DEF park
<1>3. CASE outOfBudget(o) /\ o \in pending
  <2>1. deadLettered' = deadLettered \cup {o} /\ recordJob("order_pending_engine", o)
    BY Zenon, <1>3 DEF park
  <2>2. /\ jobs' \in Seq(Job) /\ handlerRuns' \in Seq(Nat) /\ JobsApart' /\ RetriedOnce'
        /\ parked \cup missed \cup {o} \subseteq parked' \cup missed'
    <3>1. "order_pending_engine" \in JobQueue /\ o \in StuckOrders \cup StuckWithdrawals
      BY Zenon, <1>1 DEF JobQueue
    <3> HIDE DEF o
    <3> QED BY <3>1, <2>1, RecordJob, Zenon
  <2> HIDE DEF o
  <2>3. JobsTypeOK'
    BY Zenon, <1>1, <1>2, <2>1, <2>2 DEF JInv, JobsTypeOK
  <2>4. ParkedStay'
    BY Zenon, <2>1, <2>2 DEF JInv, ParkedStay
  <2>5. HeldOrParked'
    BY Zenon, <1>1, <1>2, <2>2 DEF JInv, HeldOrParked, o
  <2> QED BY Zenon, <2>2, <2>3, <2>4, <2>5 DEF JInv
<1>4. CASE ~(outOfBudget(o) /\ o \in pending)
  <2>1. /\ deadLettered' = deadLettered /\ jobs' = jobs /\ handlerRuns' = handlerRuns
        /\ missed' = missed
    BY Zenon, <1>4 DEF park
  <2>2. JobsTypeOK' /\ JobsApart' /\ RetriedOnce' /\ ParkedStay'
    BY <1>1, <1>2, <2>1 DEF JInv, JobsTypeOK, JobsApart, RetriedOnce, ParkedStay, parked
  <2>3. o \in pending /\ sweepAttempts[o] = SweepBudget => o \in parked \cup missed
    BY <1>1, <1>4, JobsAssumption DEF JInv, ParkedStay, outOfBudget
  <2>4. HeldOrParked'
    BY Zenon, <1>1, <1>2, <2>1, <2>3 DEF JInv, HeldOrParked, parked
  <2> QED BY Zenon, <2>2, <2>4 DEF JInv
<1> QED BY Zenon, <1>3, <1>4

\* Retrying marks the job before its handler starts.
LEMMA JobsRetry ==
  ASSUME JInv, NEW p \in Presses, NEW id \in DOMAIN handlerRuns, retry(p, id)
  PROVE  JInv'
<1>1. PICK i \in DOMAIN jobs : /\ jobs[i].id = id /\ ~jobs[i].retried
                               /\ jobs' = [jobs EXCEPT ![i].retried = TRUE]
  BY Zenon DEF retry
<1>2. /\ retrying' = [retrying EXCEPT ![p] = id]
      /\ handlerRuns' = [handlerRuns EXCEPT ![id] = @ + 1]
      /\ pending' = pending /\ sweepAttempts' = sweepAttempts /\ sweeping' = sweeping
      /\ deadLettered' = deadLettered /\ givingUp' = givingUp /\ missed' = missed
  BY Zenon DEF retry
<1>3. jobs \in Seq(Job) /\ handlerRuns \in Seq(Nat) /\ retrying \in [Presses -> Nat]
  BY Zenon DEF JInv, JobsTypeOK
<1>4. \A k \in DOMAIN jobs : jobs[k] \in Job
  BY <1>3
<1>5. [jobs[i] EXCEPT !.retried = TRUE] \in Job
  BY <1>4, Zenon DEF Job
<1>6. /\ Len(jobs') = Len(jobs) /\ DOMAIN jobs' = DOMAIN jobs /\ jobs' \in Seq(Job)
      /\ \A k \in DOMAIN jobs :
           jobs'[k] = IF k = i THEN [jobs[i] EXCEPT !.retried = TRUE] ELSE jobs[k]
  BY <1>1, <1>3, <1>5
<1>7. \A k \in DOMAIN jobs :
        /\ jobs'[k].id = jobs[k].id /\ jobs'[k].reference = jobs[k].reference
        /\ jobs'[k].retried = (k = i \/ jobs[k].retried)
  BY <1>4, <1>6 DEF Job
<1>8. /\ DOMAIN handlerRuns' = DOMAIN handlerRuns /\ handlerRuns' \in Seq(Nat)
      /\ \A k \in DOMAIN handlerRuns :
           handlerRuns'[k] = IF k = id THEN handlerRuns[k] + 1 ELSE handlerRuns[k]
  BY <1>2, <1>3
<1>9. handlerRuns[id] = 0
  BY Zenon, <1>1 DEF JInv, JobsApart
<1>10. JobsTypeOK'
  <2>1. id \in Nat
    BY <1>3
  <2> QED BY Zenon, <1>2, <1>3, <1>6, <1>8, <2>1 DEF JInv, JobsTypeOK
<1>11. JobsApart'
  <2>1. JobsApart
    BY Zenon DEF JInv
  <2>2. \A k \in DOMAIN jobs' : jobs'[k].id \in DOMAIN handlerRuns'
    BY Zenon, <2>1, <1>6, <1>7, <1>8 DEF JobsApart
  <2>3. \A k, j \in DOMAIN jobs' : jobs'[k].id = jobs'[j].id => k = j
    BY Zenon, <2>1, <1>6, <1>7 DEF JobsApart
  <2>4. ASSUME NEW k \in DOMAIN jobs', ~jobs'[k].retried PROVE handlerRuns'[jobs'[k].id] = 0
    <3>1. k # i /\ ~jobs[k].retried /\ k \in DOMAIN jobs /\ jobs'[k].id = jobs[k].id
      BY Zenon, <2>4, <1>6, <1>7
    <3>2. jobs[k].id # id /\ jobs[k].id \in DOMAIN handlerRuns /\ handlerRuns[jobs[k].id] = 0
      BY Zenon, <3>1, <2>1, <1>1 DEF JobsApart
    <3> QED BY Zenon, <3>1, <3>2, <1>8
  <2> QED BY Zenon, <2>2, <2>3, <2>4 DEF JobsApart
<1>12. RetriedOnce'
  BY <1>8, <1>9 DEF JInv, RetriedOnce
<1>13. parked' = parked
  BY <1>6, <1>7 DEF parked
<1>14. ParkedStay' /\ HeldOrParked'
  BY Zenon, <1>2, <1>13 DEF JInv, ParkedStay, HeldOrParked
<1> QED BY Zenon, <1>10, <1>11, <1>12, <1>14 DEF JInv

LEMMA JobsRestart == JInv /\ restart => JInv'
<1> SUFFICES ASSUME JInv, restart PROVE JInv'
  BY Zenon
<1>1. /\ sweeping' = NoStuck /\ deadLettered' = {} /\ givingUp' = {} /\ jobs' = <<>>
      /\ retrying' = [p \in Presses |-> NoJob] /\ handlerRuns' = handlerRuns
      /\ pending' = pending /\ sweepAttempts' = sweepAttempts
      /\ missed' = missed \cup parked
                     \cup (IF sweeping = NoStuck THEN {} ELSE {sweeping.order})
  BY Zenon DEF restart
<1>2. JobsTypeOK'
  BY <1>1 DEF JInv, JobsTypeOK, NoJob
<1>3. DOMAIN jobs' = {}
  BY <1>1
<1>4. JobsApart' /\ RetriedOnce' /\ ParkedStay'
  BY Zenon, <1>1, <1>3 DEF JInv, JobsApart, RetriedOnce, ParkedStay
<1>5. HeldOrParked'
  BY Zenon, <1>1 DEF JInv, HeldOrParked
<1> QED BY Zenon, <1>2, <1>4, <1>5 DEF JInv

LEMMA JobsStep == JInv /\ [JobsNext]_jobVars => JInv'
<1> SUFFICES ASSUME JInv, [JobsNext]_jobVars PROVE JInv'
  BY Zenon
<1> USE DEF JInv
<1>1. CASE resolveOrder
  <2>1. /\ sweeping' = [sweeping EXCEPT !.at = "budget"] /\ sweeping # NoStuck
        /\ sweeping \in [order : StuckOrders, at : {"resolve", "budget"}]
        /\ pending' \subseteq pending
    BY <1>1 DEF resolveOrder, JobsTypeOK, NoStuck
  <2>2. /\ sweeping' \in [order : StuckOrders, at : {"resolve", "budget"}]
        /\ sweeping'.order = sweeping.order /\ sweeping' # NoStuck
    BY Zenon, <2>1 DEF NoStuck
  <2>3. JobsTypeOK' /\ JobsApart' /\ RetriedOnce' /\ ParkedStay'
    BY <1>1, <2>1, <2>2
       DEF resolveOrder, JobsTypeOK, JobsApart, RetriedOnce, ParkedStay, parked
  <2>4. HeldOrParked'
    BY Zenon, <1>1, <2>1, <2>2 DEF resolveOrder, HeldOrParked, parked
  <2> QED BY Zenon, <2>3, <2>4
<1>2. CASE park
  BY Zenon, <1>2, JobsPark
<1>3. CASE cycleFails
  <2>1. /\ sweeping' = NoStuck /\ missed' = missed \cup {sweeping.order}
        /\ UNCHANGED <<pending, sweepAttempts, deadLettered, givingUp, jobs, retrying,
                       handlerRuns>>
    BY Zenon, <1>3 DEF cycleFails
  <2> QED BY <2>1 DEF JobsTypeOK, JobsApart, RetriedOnce, ParkedStay, HeldOrParked, parked
<1>4. CASE restart
  BY Zenon, <1>4, JobsRestart
<1>5. ASSUME NEW o \in StuckOrders, claim(o) PROVE JInv'
  <2>1. /\ sweeping = NoStuck /\ sweepAttempts[o] < SweepBudget
        /\ sweepAttempts' = [sweepAttempts EXCEPT ![o] = @ + 1]
        /\ sweeping' = [order |-> o, at |-> "resolve"]
        /\ UNCHANGED <<pending, deadLettered, givingUp, jobs, retrying, handlerRuns, missed>>
    BY Zenon, <1>5 DEF claim
  <2>2. sweeping' \in [order : StuckOrders, at : {"resolve", "budget"}] /\ sweeping'.order = o
        /\ sweeping' # NoStuck
    BY Zenon, <2>1 DEF NoStuck
  <2>3. JobsTypeOK' /\ JobsApart' /\ RetriedOnce' /\ ParkedStay'
    BY <2>1, <2>2 DEF JobsTypeOK, JobsApart, RetriedOnce, ParkedStay, parked
  <2>4. HeldOrParked'
    BY <2>1, <2>2, JobsAssumption DEF JobsTypeOK, HeldOrParked, parked
  <2> QED BY Zenon, <2>3, <2>4
<1>6. ASSUME NEW o \in StuckOrders, settled(o) PROVE JInv'
  BY <1>6 DEF settled, JobsTypeOK, JobsApart, RetriedOnce, ParkedStay, HeldOrParked, parked
<1>7. ASSUME NEW w \in StuckWithdrawals, giveUp(w) PROVE JInv'
  BY <1>7 DEF giveUp, JobsTypeOK, JobsApart, RetriedOnce, ParkedStay, HeldOrParked, parked
<1>8. ASSUME NEW w \in StuckWithdrawals, givenUp(w) PROVE JInv'
  <2>1. /\ givingUp' = givingUp \ {w} /\ recordJob("withdrawal_sign", w)
        /\ UNCHANGED <<pending, sweepAttempts, sweeping, deadLettered, retrying>>
    BY Zenon, <1>8 DEF givenUp
  <2>2. /\ jobs' \in Seq(Job) /\ handlerRuns' \in Seq(Nat) /\ JobsApart' /\ RetriedOnce'
        /\ parked \cup missed \subseteq parked' \cup missed'
    <3> HIDE DEF JInv
    <3>1. "withdrawal_sign" \in JobQueue /\ w \in StuckOrders \cup StuckWithdrawals
      BY Zenon DEF JobQueue
    <3>2. parked \cup missed \cup {w} \subseteq parked' \cup missed'
      BY <3>1, <2>1, RecordJob, Zenon
    <3>3. jobs' \in Seq(Job) /\ handlerRuns' \in Seq(Nat) /\ JobsApart' /\ RetriedOnce'
      BY <3>1, <2>1, RecordJob, Zenon
    <3> QED BY Zenon, <3>2, <3>3
  <2>3. JobsTypeOK'
    BY Zenon, <2>1, <2>2 DEF JobsTypeOK
  <2>4. ParkedStay' /\ HeldOrParked'
    BY Zenon, <2>1, <2>2 DEF ParkedStay, HeldOrParked
  <2> QED BY Zenon, <2>2, <2>3, <2>4
<1>9. ASSUME NEW p \in Presses, retryHandler(p) PROVE JInv'
  BY <1>9 DEF retryHandler, NoJob, JobsTypeOK, JobsApart, RetriedOnce, ParkedStay,
              HeldOrParked, parked
<1>10. ASSUME NEW p \in Presses, NEW id \in DOMAIN handlerRuns, retry(p, id) PROVE JInv'
  BY Zenon, <1>10, JobsRetry
<1>11. CASE UNCHANGED jobVars
  BY <1>11 DEF jobVars, JobsTypeOK, JobsApart, RetriedOnce, ParkedStay, HeldOrParked, parked
<1> QED BY Zenon, <1>1, <1>2, <1>3, <1>4, <1>5, <1>6, <1>7, <1>8, <1>9, <1>10, <1>11 DEF JobsNext

(* However the sweeper's cycles, the workers, the operators' presses, the    *)
(* queue's turnover and the restarts interleave, for every number of orders, *)
(* operators and restarts, budget and capacity: a job's handler is started   *)
(* at most once (dead-letter.ts, retry), and an order out of attempts is in  *)
(* the queue unless a crash, a failed read or the capacity took it out       *)
(* (pending-engine-sweeper.ts, runOnce).                                     *)
THEOREM StuckIsHandledAlways == JobsSpec => []StuckIsHandled
<1>1. JInv => StuckIsHandled
  BY Zenon DEF JInv, HeldOrParked, StuckIsHandled, StuckIsParked
<1> QED BY <1>1, JobsStart, JobsStep, PTL DEF JobsSpec

=============================================================================
