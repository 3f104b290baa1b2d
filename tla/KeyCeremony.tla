---------------------------- MODULE KeyCeremony -----------------------------
(***************************************************************************)
(* How a user's key comes to be (services/mpc: threshold.rs run_dkg, dkg.rs  *)
(* and the DKG tables of store.rs), for one key_ref.  The coordinator asks   *)
(* every participant in turn, three rounds and then a commit, and records    *)
(* the group only after the last commit; requests for one key_ref take       *)
(* turns behind a lock, so one ceremony runs at a time, and the idempotency  *)
(* key the API derives from the key_ref never meets another.  Either side may *)
(* fail between any two steps and a request the coordinator gave up on may   *)
(* still be handled later.                                                   *)
(*                                                                           *)
(* A ceremony's polynomials, envelopes and group are the session's number:   *)
(* participants are honest, so what they derive in one session agrees.       *)
(***************************************************************************)
EXTENDS Integers, Sequences, FiniteSets, Functions

CONSTANTS Roster,       \* the participants, in the order they are asked
          MaxSessions,  \* bound: ceremonies started
          MaxLost       \* bound: requests or answers lost, refusals of a failing store

ASSUME CeremonyAssumption ==
  /\ Roster = [i \in 1..Len(Roster) |-> Roster[i]] /\ Len(Roster) \in Nat
  /\ MaxSessions \in Nat /\ MaxLost \in Nat

Sessions == 1..MaxSessions
Members == Range(Roster)
NoSession == 0

VARIABLES dkgRow,       \* participants: session -> participant -> phase of the row
          installed,    \* participants: the session whose share is the key's share
          ceremonyRow,  \* coordinator: session -> phase of its row
          groupKey,     \* coordinator: the session whose package is stored
          ceremony,     \* coordinator: the ceremony running
          abandoned,    \* requests given up on and not handled yet
          losses,
          address       \* API: the session whose group the wallet's address is

ceremonyVars == <<dkgRow, installed, ceremonyRow, groupKey, ceremony, abandoned, losses, address>>

NoCeremony == [at |-> "idle", session |-> NoSession, next |-> 1]

CeremonyInit ==
  /\ dkgRow = [s \in Sessions |-> [p \in Members |-> "none"]]
  /\ installed = [p \in Members |-> NoSession]
  /\ ceremonyRow = [s \in Sessions |-> "none"]
  /\ groupKey = NoSession
  /\ ceremony = NoCeremony
  /\ abandoned = {}
  /\ losses = 0
  /\ address = NoSession

-----------------------------------------------------------------------------
(* A participant's handlers: what each answers and what it leaves behind.    *)

\* A new session ends whatever this participant had not committed.
begin_dkg_session(s, p) ==
  [t \in Sessions |->
     IF t = s THEN [dkgRow[t] EXCEPT ![p] = "round1"]
     ELSE IF dkgRow[t][p] \in {"round1", "round2", "verified"}
          THEN [dkgRow[t] EXCEPT ![p] = "aborted"]
     ELSE dkgRow[t]]

Kept == [ok |-> FALSE, rows |-> dkgRow, shares |-> installed]
Advanced(s, p, phase) == [ok |-> TRUE, rows |-> [dkgRow EXCEPT ![s][p] = phase],
                          shares |-> installed]

round1(s, p) ==
  IF installed[p] # NoSession THEN Kept
  ELSE IF dkgRow[s][p] = "round1" THEN [Kept EXCEPT !.ok = TRUE]
  ELSE IF dkgRow[s][p] # "none" THEN Kept
  ELSE [ok |-> TRUE, rows |-> begin_dkg_session(s, p), shares |-> installed]

round2(s, p) == IF dkgRow[s][p] = "round1" THEN Advanced(s, p, "round2") ELSE Kept

finalize(s, p) == IF dkgRow[s][p] = "round2" THEN Advanced(s, p, "verified") ELSE Kept

commit_dkg_session(s, p) ==
  CASE dkgRow[s][p] = "committed" -> [Kept EXCEPT !.ok = TRUE]
    [] dkgRow[s][p] = "verified" /\ installed[p] = NoSession ->
         [Advanced(s, p, "committed") EXCEPT !.shares = [installed EXCEPT ![p] = s]]
    [] OTHER -> Kept

handle(stage, s, p) ==
  CASE stage = "round1" -> round1(s, p)
    [] stage = "round2" -> round2(s, p)
    [] stage = "finalize" -> finalize(s, p)
    [] stage = "commit" -> commit_dkg_session(s, p)

Apply(answer) == dkgRow' = answer.rows /\ installed' = answer.shares

-----------------------------------------------------------------------------
(* The coordinator.                                                          *)

Resumable == {s \in Sessions : ceremonyRow[s] = "committing"}
Latest(sessions) == CHOOSE s \in sessions : \A t \in sessions : t <= s

\* A key that has a group answers with it; a ceremony everyone verified is
\* taken up at its commits; otherwise a new one starts.
run_dkg ==
  /\ ceremony = NoCeremony /\ groupKey = NoSession
  /\ IF Resumable # {}
     THEN /\ ceremony' = [at |-> "commit", session |-> Latest(Resumable), next |-> 1]
          /\ UNCHANGED ceremonyRow
     ELSE \E s \in Sessions :
            /\ ceremonyRow[s] = "none" /\ \A t \in 1..(s - 1) : ceremonyRow[t] # "none"
            /\ ceremonyRow' = [ceremonyRow EXCEPT ![s] = "round1"]
            /\ ceremony' = [at |-> "round1", session |-> s, next |-> 1]
  /\ UNCHANGED <<dkgRow, installed, groupKey, abandoned, losses, address>>

\* Mutation: enough commits to sign with are enough to publish the address.
askedEnough(stage) == IF stage = "commit" THEN 1..(Len(Roster) - 1) ELSE DOMAIN Roster

\* Every participant of the roster is asked at every stage.
asked(stage) == DOMAIN Roster

Asking == ceremony.at \in {"round1", "round2", "finalize", "commit"}
          /\ ceremony.next \in asked(ceremony.at)
Addressed == Roster[ceremony.next]

ask ==
  /\ Asking
  /\ LET answer == handle(ceremony.at, ceremony.session, Addressed)
     IN  Apply(answer) /\ answer.ok
  /\ ceremony' = [ceremony EXCEPT !.next = @ + 1]
  /\ UNCHANGED <<ceremonyRow, groupKey, abandoned, losses, address>>

\* A ceremony that fails in its rounds is over; one that fails in its commits
\* stays to be resumed.
ceremonyFails ==
  /\ ceremony' = NoCeremony
  /\ ceremonyRow' = IF ceremony.at = "commit" THEN ceremonyRow
                    ELSE [ceremonyRow EXCEPT ![ceremony.session] = "aborted"]
  /\ UNCHANGED <<groupKey, address>>

refused ==
  /\ Asking
  /\ ~handle(ceremony.at, ceremony.session, Addressed).ok
  /\ ceremonyFails
  /\ UNCHANGED <<dkgRow, installed, abandoned, losses>>

\* The participant did its part and the coordinator never learns of it.
ceremonyAnswerLost ==
  /\ Asking /\ losses < MaxLost
  /\ Apply(handle(ceremony.at, ceremony.session, Addressed))
  /\ ceremonyFails
  /\ losses' = losses + 1
  /\ UNCHANGED abandoned

\* A failure of its own store or key makes a participant drop a round it had
\* begun, the secret with it.
abort_on_failure ==
  /\ Asking /\ losses < MaxLost
  /\ ceremony.at \in {"round2", "finalize"}
  /\ handle(ceremony.at, ceremony.session, Addressed).ok
  /\ dkgRow' = [dkgRow EXCEPT ![ceremony.session][Addressed] = "aborted"]
  /\ ceremonyFails
  /\ losses' = losses + 1
  /\ UNCHANGED <<installed, abandoned>>

requestDelayed ==
  /\ Asking /\ losses < MaxLost
  /\ abandoned' = abandoned \cup {<<ceremony.at, ceremony.session, Addressed>>}
  /\ ceremonyFails
  /\ losses' = losses + 1
  /\ UNCHANGED <<dkgRow, installed>>

delayedArrives ==
  /\ \E request \in abandoned :
       /\ Apply(handle(request[1], request[2], request[3]))
       /\ abandoned' = abandoned \ {request}
  /\ UNCHANGED <<ceremonyRow, groupKey, ceremony, losses, address>>

Answered(stage) == ceremony.at = stage /\ ceremony.next \notin asked(stage)
MoveTo(stage) == ceremony' = [ceremony EXCEPT !.at = stage, !.next = 1]

nextRound ==
  /\ \/ Answered("round1") /\ MoveTo("round2")
     \/ Answered("round2") /\ MoveTo("finalize")
  /\ UNCHANGED <<dkgRow, installed, ceremonyRow, groupKey, abandoned, losses, address>>

\* Everyone verified the same package; it is stored before the first commit.
allVerified ==
  /\ Answered("finalize") /\ MoveTo("commit")
  /\ ceremonyRow' = [ceremonyRow EXCEPT ![ceremony.session] = "committing"]
  /\ UNCHANGED <<dkgRow, installed, groupKey, abandoned, losses, address>>

completeCeremony ==
  /\ Answered("commit") /\ MoveTo("stored")
  /\ groupKey' = ceremony.session
  /\ UNCHANGED <<dkgRow, installed, ceremonyRow, abandoned, losses, address>>

\* What the coordinator says of a stored group, and what the API takes: a
\* group with a verification share for each participant.
init_response(s) == [group |-> s, verifyingShares |-> Members]

parseDkgInitResponse(response) ==
  IF Cardinality(response.verifyingShares) = Len(Roster) THEN response.group ELSE address

\* The API may be gone by the time the ceremony ends.
answerInit ==
  /\ ceremony.at = "stored" /\ ceremony' = NoCeremony
  /\ ceremonyRow' = [ceremonyRow EXCEPT ![ceremony.session] = "finalized"]
  /\ address' \in {address, parseDkgInitResponse(init_response(groupKey))}
  /\ UNCHANGED <<dkgRow, installed, groupKey, abandoned, losses>>

\* Asked again for a key that has a group, the coordinator answers with it.
provisionKey ==
  /\ ceremony = NoCeremony /\ groupKey # NoSession /\ address = NoSession
  /\ address' = parseDkgInitResponse(init_response(groupKey))
  /\ UNCHANGED <<dkgRow, installed, ceremonyRow, groupKey, ceremony, abandoned, losses>>

coordinatorDies ==
  /\ ceremony # NoCeremony
  /\ ceremony' = NoCeremony
  /\ UNCHANGED <<dkgRow, installed, ceremonyRow, groupKey, abandoned, losses, address>>

CeremonyNext ==
  \/ run_dkg \/ ask \/ refused \/ ceremonyAnswerLost \/ abort_on_failure \/ requestDelayed
  \/ delayedArrives \/ nextRound \/ allVerified \/ completeCeremony \/ answerInit
  \/ provisionKey \/ coordinatorDies

CeremonySpec == CeremonyInit /\ [][CeremonyNext]_ceremonyVars

-----------------------------------------------------------------------------
\* The shares installed for a key all come from one ceremony, whatever was
\* abandoned, delayed or resumed on the way, and an address is handed out and
\* recorded only when every participant holds its share of the ceremony behind
\* it: a deposit address nobody can sign for is lost money (threshold.rs run_dkg,
\* commit_all, complete; dkg.rs commit; rust-single-key.ts provisionKey).
AddressIsHeldByAll ==
  /\ \A p, q \in Members : NoSession \in {installed[p], installed[q]} \/ installed[p] = installed[q]
  /\ \A p \in Members : {groupKey, address} \subseteq {NoSession, installed[p]}

=============================================================================
