--------------------------- MODULE OrderLifecycle ----------------------------
(***************************************************************************)
(* The life of an order and of the funds held for it.  Three actors move   *)
(* an order: the gateway, acting on what the engine answers; the sweeper,  *)
(* asking the engine about orders left in doubt; and settlement, applying  *)
(* the engine's events in order, each once (SequencedConsumer).            *)
(*                                                                         *)
(* The engine is the environment: it handles requests in any order and     *)
(* emits, per command, a sequence of events.  A command fills at most one  *)
(* maker.  A buy is held at MaxPrice and may fill below it.                *)
(***************************************************************************)
EXTENDS Integers, Sequences, FiniteSets, FiniteSetsExt

CONSTANTS
  Orders,
  Buys,       \* the buy orders; the others sell
  Qty,        \* quantity of each order
  MaxPrice,   \* bound: prices, and the price a buy is held at
  Replaces,   \* for each replacement an amend may create, the order it replaces
  Cancels,    \* orders whose owner may cancel them
  Faults      \* "lag": settlement may fall behind by more than the sweeper's
              \* window; "stall": a handler may pause that long before it sends

ASSUME OrdersAssumption ==
  /\ IsFiniteSet(Orders) /\ Buys \subseteq Orders /\ Cancels \subseteq Orders
  /\ Qty \in [Orders -> Nat \ {0}] /\ MaxPrice \in Nat \ {0}
  /\ DOMAIN Replaces \subseteq Orders /\ \A c \in DOMAIN Replaces : Replaces[c] \in Orders

VARIABLES
  \* the database: status and filled quantity of each order, what fills have
  \* consumed of its hold and what has been released
  status, filled, consumed, released,
  \* settlement: key of the next event, and whether it has halted
  pos, halted,
  \* the engine: remaining quantity of resting orders, events per command, and
  \* the lookup index (sequence of the placement, 0: never seen)
  resting, log, index,
  \* the gateway's handlers, and their requests on the way to the engine
  task, net,
  \* the sweeper: what it is about to do with each order
  sweep,
  \* orders old enough for "never seen" to be proof
  conclusive,
  \* a release was refused because the hold it took for unfilled was not
  misread

dbVars == <<status, filled, consumed, released>>
settleVars == <<pos, halted>>
engineVars == <<resting, log, index>>
vars == <<dbVars, settleVars, engineVars, task, net, sweep, conclusive, misread>>

TERMINAL == {"FILLED", "CANCELLED", "REJECTED", "EXPIRED", "FAILED"}
HOLDING == {"PENDING_ENGINE", "OPEN", "PARTIALLY_FILLED", "PENDING_CANCEL"}
CANCELLABLE == {"OPEN", "PARTIALLY_FILLED", "PENDING_CANCEL"}
\* Mutation: a cancel in flight is not foreseen when the rest expires.
ExpirableBeforeCancel == {"PENDING_ENGINE", "OPEN", "PARTIALLY_FILLED"}

EXPIRABLE == {"PENDING_ENGINE", "OPEN", "PARTIALLY_FILLED", "PENDING_CANCEL"}
Resting == {"OPEN", "PARTIALLY_FILLED"}

\* What a fill of q at price p takes from an order's hold, and the hold.
Cost(o, q, p) == IF o \in Buys THEN q * p ELSE q
Hold(o) == Cost(o, Qty[o], MaxPrice)
Outstanding(o) == Hold(o) - consumed[o] - released[o]

Replacements == DOMAIN Replaces
Tasks ==
  ({"place"} \X (Orders \ Replacements)) \cup ({"cancel"} \X Cancels)
    \cup ({"amend"} \X Replacements)
\* The order a cancel or an amend takes out of the book.
Target(t) == IF t[1] = "amend" THEN Replaces[t[2]] ELSE t[2]
\* The handler that sends an order to the engine.
Sender(o) == <<IF o \in Replacements THEN "amend" ELSE "place", o>>

Idle == [at |-> "new", saw |-> "none", reply |-> 0]
Done == [at |-> "done", saw |-> "none", reply |-> 0]
Refused == -1

Event(k, o, q) == [k |-> k, o |-> o, q |-> q, m |-> o, p |-> 0]
FillEvent(o, m, q, p) == [k |-> "fill", o |-> o, q |-> q, m |-> m, p |-> p]
Touches(e, o) == e.o = o \/ e.m = o

Init ==
  /\ status = [o \in Orders |-> "none"]
  /\ filled = [o \in Orders |-> 0]
  /\ consumed = [o \in Orders |-> 0]
  /\ released = [o \in Orders |-> 0]
  /\ pos = <<1, 1>> /\ halted = FALSE
  /\ resting = [o \in Orders |-> 0] /\ log = <<>> /\ index = [o \in Orders |-> 0]
  /\ task = [t \in Tasks |-> Idle] /\ net = {}
  /\ sweep = [o \in Orders |-> "idle"] /\ conclusive = {} /\ misread = FALSE

-----------------------------------------------------------------------------
\* Transactions that several actors share.

\* Mutation: the status is overwritten whoever was first.
TransitionUnguarded(o, from, to) ==
  status' = [status EXCEPT ![o] = to]

\* A guarded status change: nothing happens if another actor was first.
Transition(o, from, to) ==
  status' = IF status[o] = from THEN [status EXCEPT ![o] = to] ELSE status

\* Mutation: an order someone else has finished is finished again.
FinalizeAnyStatus(o, from, to) ==
  /\ IF filled[o] # 0 \/ status[o] = "none"
     THEN UNCHANGED <<status, released, misread>>
     ELSE /\ status' = [status EXCEPT ![o] = to]
          /\ released' = [released EXCEPT ![o] = @ + Outstanding(o)]
          /\ UNCHANGED misread
  /\ UNCHANGED <<filled, consumed>>

\* finalizeUnfilled: the winner of the guarded transition releases the whole
\* hold, and is refused if part of it was consumed.
FinalizeUnfilled(o, from, to) ==
  /\ IF status[o] # from
     THEN UNCHANGED <<status, released, misread>>
     ELSE IF Outstanding(o) # Hold(o)
     THEN misread' = TRUE /\ UNCHANGED <<status, released>>
     ELSE /\ status' = [status EXCEPT ![o] = to]
          /\ released' = [released EXCEPT ![o] = @ + Outstanding(o)]
          /\ UNCHANGED misread
  /\ UNCHANGED <<filled, consumed>>

Has(evs, o, k) == \E i \in 1 .. Len(evs) : Touches(evs[i], o) /\ evs[i].k = k
Mentions(evs, o) == \E i \in 1 .. Len(evs) : Touches(evs[i], o)

\* Mutation: an expired order is taken for an unfilled one.
ResolvePendingExpired(o, evs) ==
  IF Has(evs, o, "rejected") THEN FinalizeUnfilled(o, "PENDING_ENGINE", "REJECTED")
  ELSE IF Has(evs, o, "expired")
  THEN FinalizeUnfilled(o, "PENDING_ENGINE", "EXPIRED")
  ELSE /\ IF Mentions(evs, o)
          THEN Transition(o, "PENDING_ENGINE", "OPEN")
          ELSE UNCHANGED status
       /\ UNCHANGED <<filled, consumed, released, misread>>

\* resolvePending: what the events of its command say of an order in doubt.
ResolvePending(o, evs) ==
  IF Has(evs, o, "rejected") THEN FinalizeUnfilled(o, "PENDING_ENGINE", "REJECTED")
  ELSE IF Has(evs, o, "expired") /\ ~Has(evs, o, "fill")
  THEN FinalizeUnfilled(o, "PENDING_ENGINE", "EXPIRED")
  ELSE /\ IF Mentions(evs, o)
          THEN Transition(o, "PENDING_ENGINE", "OPEN")
          ELSE UNCHANGED status
       /\ UNCHANGED <<filled, consumed, released, misread>>

-----------------------------------------------------------------------------
\* The gateway.

Goto(t, at) == task' = [task EXCEPT ![t].at = at]
Return(t) == task' = [task EXCEPT ![t] = Done]

\* createWithHold: the order row and its hold in one transaction.
Create(o) ==
  /\ status[o] = "none"
  /\ status' = [status EXCEPT ![o] = "PENDING_ENGINE"]
  /\ UNCHANGED <<filled, consumed, released>>

\* place: the order is created.
Place(o) ==
  /\ <<"place", o>> \in Tasks /\ task[<<"place", o>>].at = "new"
  /\ Create(o)
  /\ Goto(<<"place", o>>, "send")
  /\ UNCHANGED <<settleVars, engineVars, net, sweep, conclusive, misread>>

\* cancel: a resting order is first to move to PENDING_CANCEL; one that is
\* there already is sent again.
Cancel(o) ==
  LET t == <<"cancel", o>>
  IN  /\ t \in Tasks /\ task[t].at = "new" /\ status[o] \in CANCELLABLE
      /\ task' = [task EXCEPT ![t] =
           [@ EXCEPT !.saw = status[o],
                     !.at = IF status[o] \in Resting THEN "move" ELSE "send"]]
      /\ UNCHANGED <<dbVars, settleVars, engineVars, net, sweep, conclusive, misread>>

\* amend: the replacement is created and held before the old order is touched.
Amend(c) ==
  LET t == <<"amend", c>>
  IN  /\ t \in Tasks /\ task[t].at = "new" /\ status[Target(t)] \in Resting
      /\ Create(c)
      /\ task' = [task EXCEPT ![t] = [@ EXCEPT !.saw = status[Target(t)], !.at = "move"]]
      /\ UNCHANGED <<settleVars, engineVars, net, sweep, conclusive, misread>>

\* toPendingCancel, one attempt: a lost race is tried again from the status
\* found; a cancel ends if that is terminal.
ToPendingCancel(t) ==
  LET o == Target(t)
      now == IF status[o] = task[t].saw THEN "PENDING_CANCEL" ELSE status[o]
  IN  /\ task[t].at = "move"
      /\ Transition(o, task[t].saw, "PENDING_CANCEL")
      /\ IF t[1] = "cancel" /\ now \in TERMINAL
         THEN Return(t)
         ELSE task' = [task EXCEPT ![t] =
                [@ EXCEPT !.saw = now, !.at = IF now \in Resting THEN "move" ELSE "send"]]
      /\ UNCHANGED <<filled, consumed, released, settleVars, engineVars, net, sweep,
                     conclusive, misread>>

\* The signed request leaves.
Send(t) ==
  /\ task[t].at = "send"
  /\ Goto(t, "wait")
  /\ net' = net \cup {t}
  /\ UNCHANGED <<dbVars, settleVars, engineVars, sweep, conclusive, misread>>

\* The handler stops waiting - a timeout, or an answer that leaves the outcome
\* open - or dies anywhere on the way.
GiveUp(t) ==
  /\ task[t].at \notin {"new", "done"}
  /\ Return(t)
  /\ UNCHANGED <<dbVars, settleVars, engineVars, net, sweep, conclusive, misread>>

Answer(t) == task[t].reply

\* actOnPlacement.
PlaceAnswered(o) ==
  LET t == <<"place", o>>
  IN  /\ t \in Tasks /\ task[t].at = "answered"
      /\ IF Answer(t) = Refused
         THEN FinalizeUnfilled(o, "PENDING_ENGINE", "FAILED")
         ELSE ResolvePending(o, log[Answer(t)])
      /\ Return(t)
      /\ UNCHANGED <<settleVars, engineVars, net, sweep, conclusive>>

\* The engine cancelled all of order o.
CancelledWhole(t, o) ==
  /\ Answer(t) # Refused
  /\ Event("cancelled", o, Qty[o]) \in {log[Answer(t)][i] : i \in 1 .. Len(log[Answer(t)])}

\* cancel, once answered: only an order cancelled whole is finished here.
CancelAnswered(o) ==
  LET t == <<"cancel", o>>
  IN  /\ t \in Tasks /\ task[t].at = "answered"
      /\ IF CancelledWhole(t, o)
         THEN FinalizeUnfilled(o, task[t].saw, "CANCELLED")
         ELSE UNCHANGED <<dbVars, misread>>
      /\ Return(t)
      /\ UNCHANGED <<settleVars, engineVars, net, sweep, conclusive>>

\* amend, once answered: first the old order ...
AmendAnsweredOld(c) ==
  LET t == <<"amend", c>>
      o == Target(t)
  IN  /\ t \in Tasks /\ task[t].at = "answered"
      /\ IF CancelledWhole(t, o) /\ task[t].saw \notin TERMINAL
         THEN FinalizeUnfilled(o, task[t].saw, "CANCELLED")
         ELSE UNCHANGED <<dbVars, misread>>
      /\ Goto(t, "second")
      /\ UNCHANGED <<settleVars, engineVars, net, sweep, conclusive>>

\* ... then the replacement.
AmendAnsweredNew(c) ==
  LET t == <<"amend", c>>
  IN  /\ t \in Tasks /\ task[t].at = "second"
      /\ IF Answer(t) = Refused
         THEN FinalizeUnfilled(c, "PENDING_ENGINE", "FAILED")
         ELSE IF ~Mentions(log[Answer(t)], c)
         THEN FinalizeUnfilled(c, "PENDING_ENGINE", "REJECTED")
         ELSE ResolvePending(c, log[Answer(t)])
      /\ Return(t)
      /\ UNCHANGED <<settleVars, engineVars, net, sweep, conclusive>>

-----------------------------------------------------------------------------
\* The engine, and the network in front of it.

\* What placing order o in book r may come to: events, and the book after it.
Rests(o, r, q, evs) ==
  [evs |-> Append(evs, Event("accepted", o, q)), book |-> [r EXCEPT ![o] = q]]
Expires(o, r, q, evs) ==
  [evs |-> Append(evs, Event("expired", o, q)), book |-> r]
Remainder(o, r, q, evs) ==
  {Rests(o, r, q, evs)} \cup (IF q > 0 THEN {Expires(o, r, q, evs)} ELSE {})

Opposite(o, r) == {m \in Orders : r[m] > 0 /\ (m \in Buys <=> o \notin Buys)}

\* Mutation: the taker trades in full, whatever the maker has left.
TradedInFull(o, r, m) == Qty[o]

Traded(o, r, m) == IF Qty[o] <= r[m] THEN Qty[o] ELSE r[m]

Placements(o, r, evs) ==
  {[evs |-> Append(evs, Event("rejected", o, 0)), book |-> r]}
    \cup Remainder(o, r, Qty[o], evs)
    \cup UNION {LET q == Traded(o, r, m)
                IN  Remainder(o, [r EXCEPT ![m] = @ - q], Qty[o] - q,
                              Append(evs, FillEvent(o, m, q, p)))
                : m \in Opposite(o, r), p \in 1 .. MaxPrice}

Removed(o) == <<Event("cancelled", o, resting[o])>>
UnknownOrder(o) == {[evs |-> <<Event("unknown", o, 0)>>, book |-> resting]}

\* What the command of task t may come to.
Outcomes(t) ==
  CASE t[1] = "place"  -> Placements(t[2], resting, <<>>)
    [] t[1] = "cancel" ->
         IF resting[t[2]] = 0 THEN UnknownOrder(t[2])
         ELSE {[evs |-> Removed(t[2]), book |-> [resting EXCEPT ![t[2]] = 0]]}
    [] t[1] = "amend"  ->
         IF resting[Target(t)] = 0 THEN UnknownOrder(Target(t))
         ELSE Placements(t[2], [resting EXCEPT ![Target(t)] = 0], Removed(Target(t)))

\* The reply reaches the handler if it still waits.
Reply(t, s) ==
  task' = IF task[t].at = "wait"
          THEN [task EXCEPT ![t] = [@ EXCEPT !.at = "answered", !.reply = s]]
          ELSE task

\* The engine journals and applies a request.  The lookup indexes placements,
\* not the order an amend places.
EngineHandles(t) ==
  /\ t \in net
  /\ net' = net \ {t}
  /\ \E r \in Outcomes(t) : log' = Append(log, r.evs) /\ resting' = r.book
  /\ index' = IF t[1] = "place" THEN [index EXCEPT ![t[2]] = Len(log) + 1] ELSE index
  /\ Reply(t, Len(log) + 1)
  /\ UNCHANGED <<dbVars, settleVars, sweep, conclusive, misread>>

\* The engine refuses a request (a 4xx): nothing is journaled.
EngineRefuses(t) ==
  /\ t \in net
  /\ net' = net \ {t}
  /\ Reply(t, Refused)
  /\ UNCHANGED <<dbVars, settleVars, engineVars, sweep, conclusive, misread>>

\* A request is lost.
Lose(t) ==
  /\ t \in net
  /\ net' = net \ {t}
  /\ UNCHANGED <<dbVars, settleVars, engineVars, task, sweep, conclusive, misread>>

-----------------------------------------------------------------------------
\* Settlement.

HasNext == pos[1] <= Len(log)
NextEvent == log[pos[1]][pos[2]]
Advanced ==
  IF pos[2] < Len(log[pos[1]]) THEN <<pos[1], pos[2] + 1>> ELSE <<pos[1] + 1, 1>>

Unfilled(o) == Qty[o] - filled[o]

\* A transaction that fails an assertion rolls back, and settlement stops.
Halt == halted' = TRUE /\ UNCHANGED <<pos, dbVars>>
Applied == pos' = Advanced /\ UNCHANGED halted
Noop == Applied /\ UNCHANGED dbVars

\* Mutation: a finished order keeps its hold.
FinishKeepsHold(o, from, to) ==
  IF status[o] = to THEN Noop
  ELSE IF status[o] \notin from THEN Halt
  ELSE /\ status' = [status EXCEPT ![o] = to]
       /\ UNCHANGED <<filled, consumed, released>>
       /\ Applied

\* finish: the winner of the transition releases what is still held.
Finish(o, from, to) ==
  IF status[o] = to /\ Outstanding(o) = 0 THEN Noop
  ELSE IF status[o] \notin from \/ Outstanding(o) < 0 THEN Halt
  ELSE /\ status' = [status EXCEPT ![o] = to]
       /\ released' = [released EXCEPT ![o] = @ + Outstanding(o)]
       /\ UNCHANGED <<filled, consumed>>
       /\ Applied

\* The status an order goes to with a fill of q.
AfterFill(o, q) ==
  IF filled[o] + q = Qty[o] THEN "FILLED"
  ELSE IF status[o] = "PENDING_CANCEL" THEN "PENDING_CANCEL" ELSE "PARTIALLY_FILLED"

\* settleFill: the trade is posted, both holds are consumed, both orders moved,
\* and what a filled order still holds is released.
SettleFill(e) ==
  LET sides == {e.o, e.m}
      left(o) == Outstanding(o) - Cost(o, e.q, e.p)
      ok(o) == /\ status[o] \in HOLDING /\ filled[o] + e.q <= Qty[o]
               /\ left(o) >= 0
               /\ AfterFill(o, e.q) # "FILLED" => left(o) > 0
  IN  IF \A o \in sides : ok(o)
      THEN /\ filled' = [o \in Orders |-> IF o \in sides THEN filled[o] + e.q ELSE filled[o]]
           /\ consumed' = [o \in Orders |-> IF o \in sides THEN consumed[o] + Cost(o, e.q, e.p)
                                            ELSE consumed[o]]
           /\ status' = [o \in Orders |-> IF o \in sides THEN AfterFill(o, e.q) ELSE status[o]]
           /\ released' = [o \in Orders |->
                IF o \in sides /\ AfterFill(o, e.q) = "FILLED"
                THEN released[o] + left(o) ELSE released[o]]
           /\ Applied
      ELSE Halt

\* apply: one event, in one transaction with the offset.
Settle ==
  /\ ~halted /\ HasNext
  /\ LET e == NextEvent
         o == e.o
     IN  CASE e.k = "fill" -> SettleFill(e)
           [] e.k = "cancelled" ->
                IF status[o] # "CANCELLED" /\ Unfilled(o) # e.q THEN Halt
                ELSE Finish(o, CANCELLABLE, "CANCELLED")
           [] e.k = "expired" ->
                IF status[o] # "EXPIRED" /\ Unfilled(o) # e.q THEN Halt
                ELSE Finish(o, EXPIRABLE, "EXPIRED")
           [] e.k = "rejected" ->
                IF filled[o] # 0 THEN Halt ELSE Finish(o, {"PENDING_ENGINE"}, "REJECTED")
           [] e.k = "accepted" ->
                IF Unfilled(o) # e.q \/ (e.q = 0 /\ status[o] # "FILLED") THEN Halt
                ELSE /\ IF e.q > 0 THEN Transition(o, "PENDING_ENGINE", "OPEN")
                        ELSE UNCHANGED status
                     /\ UNCHANGED <<filled, consumed, released>>
                     /\ Applied
           [] e.k = "unknown" -> Noop
  /\ UNCHANGED <<engineVars, task, net, sweep, conclusive, misread>>

-----------------------------------------------------------------------------
\* The sweeper.

SweepGoto(o, at) == sweep' = [sweep EXCEPT ![o] = at]

\* An order left in doubt is claimed.
Claim(o) ==
  /\ \A other \in Orders : sweep[other] = "idle"
  /\ status[o] = "PENDING_ENGINE"
  /\ SweepGoto(o, "ask")
  /\ UNCHANGED <<dbVars, settleVars, engineVars, task, net, conclusive, misread>>

\* Mutation: "never seen" is never taken for proof.
AskNeverConclusive(o) ==
  /\ sweep[o] = "ask"
  /\ SweepGoto(o, IF index[o] # 0 THEN "resolve" ELSE "idle")
  /\ UNCHANGED <<dbVars, settleVars, engineVars, task, net, conclusive, misread>>

\* The engine's lookup answers: it has seen the order, or never has and the
\* order is old enough for that to be proof.
Ask(o) ==
  /\ sweep[o] = "ask"
  /\ SweepGoto(o, IF index[o] # 0 THEN "resolve"
                  ELSE IF o \in conclusive THEN "fail" ELSE "idle")
  /\ UNCHANGED <<dbVars, settleVars, engineVars, task, net, conclusive, misread>>

\* The engine is rebuilding or unreachable, or the sweeper dies.
Defer(o) ==
  /\ sweep[o] # "idle"
  /\ SweepGoto(o, "idle")
  /\ UNCHANGED <<dbVars, settleVars, engineVars, task, net, conclusive, misread>>

\* Seen: the events of that sequence decide.
SweepResolve(o) ==
  /\ sweep[o] = "resolve"
  /\ ResolvePending(o, log[index[o]])
  /\ SweepGoto(o, "idle")
  /\ UNCHANGED <<settleVars, engineVars, task, net, conclusive>>

\* failNeverSeen.
SweepFail(o) ==
  /\ sweep[o] = "fail"
  /\ FinalizeUnfilled(o, "PENDING_ENGINE", "FAILED")
  /\ SweepGoto(o, "idle")
  /\ UNCHANGED <<settleVars, engineVars, task, net, conclusive>>

\* An order in doubt outlives the engine's tolerance window: its request is
\* refused from here on.
UpToDate(o) ==
  \A s \in 1 .. Len(log) : \A i \in 1 .. Len(log[s]) :
    Touches(log[s][i], o) => s < pos[1] \/ (s = pos[1] /\ i < pos[2])
Age(o) ==
  /\ status[o] = "PENDING_ENGINE" /\ o \notin conclusive
  /\ "stall" \in Faults \/ task[Sender(o)].at \notin {"move", "send"}
  /\ "lag" \in Faults \/ halted \/ UpToDate(o)
  /\ conclusive' = conclusive \cup {o}
  /\ net' = net \ {Sender(o)}
  /\ UNCHANGED <<dbVars, settleVars, engineVars, task, sweep, misread>>

Gateway ==
  \/ \E o \in Orders : Place(o) \/ Cancel(o) \/ PlaceAnswered(o) \/ CancelAnswered(o)
  \/ \E c \in Replacements : Amend(c) \/ AmendAnsweredOld(c) \/ AmendAnsweredNew(c)
  \/ \E t \in Tasks : ToPendingCancel(t) \/ Send(t) \/ GiveUp(t)

Engine == \E t \in Tasks : EngineHandles(t) \/ EngineRefuses(t) \/ Lose(t)

Sweeper ==
  \E o \in Orders : Claim(o) \/ Ask(o) \/ Defer(o) \/ SweepResolve(o) \/ SweepFail(o)

Next == Gateway \/ Engine \/ Settle \/ Sweeper \/ \E o \in Orders : Age(o)

Spec == Init /\ [][Next]_vars

\* Settlement runs and handlers time out; orders grow old.  The sweeper claims
\* the least recently attempted order first, and the engine answers it again
\* and again if not every time.
HandlerEnds(t) == Send(t) \/ GiveUp(t)
Fairness ==
  /\ WF_vars(Settle)
  /\ \A t \in Tasks : WF_vars(HandlerEnds(t))
  /\ \A o \in Orders :
       /\ WF_vars(Age(o))
       /\ SF_vars(Claim(o)) /\ SF_vars(Ask(o)) /\ SF_vars(SweepResolve(o) \/ SweepFail(o))
FairSpec == Spec /\ Fairness

-----------------------------------------------------------------------------
\* Properties.

Statuses == {"none"} \cup HOLDING \cup TERMINAL
Kinds == {"fill", "cancelled", "expired", "rejected", "accepted", "unknown"}
Events == [k : Kinds, o : Orders, q : Nat, m : Orders, p : 0 .. MaxPrice]
Stages == {"new", "move", "send", "wait", "answered", "second", "done"}

\* Every variable has its type (the rows of `orders`, the engine's events, the
\* handlers' steps).
TypeOK ==
  /\ status \in [Orders -> Statuses]
  /\ filled \in [Orders -> Nat]
  /\ consumed \in [Orders -> Nat] /\ released \in [Orders -> Nat]
  /\ pos \in Nat \X Nat /\ halted \in BOOLEAN
  /\ resting \in [Orders -> Nat]
  /\ log \in Seq(Seq(Events)) /\ index \in [Orders -> Nat]
  /\ task \in [Tasks -> [at : Stages, saw : Statuses, reply : Nat \cup {Refused}]]
  /\ net \subseteq Tasks
  /\ sweep \in [Orders -> {"idle", "ask", "resolve", "fail"}]
  /\ conclusive \subseteq Orders /\ misread \in BOOLEAN

\* The status of an order and its hold agree (assertHoldAgrees, rule 79): an
\* order that holds funds still holds something, a finished one nothing, however
\* gateway, sweeper and settlement interleave.
HoldAgrees ==
  \A o \in Orders :
    /\ status[o] \in TERMINAL => Outstanding(o) = 0
    /\ status[o] \in HOLDING => Outstanding(o) > 0

\* The keys of the fills of order o that settlement has yet to apply.
UnsettledFills(o) ==
  {k \in UNION {{s} \X (1 .. Len(log[s])) : s \in pos[1] .. Len(log)} :
     /\ k[1] = pos[1] => k[2] >= pos[2]
     /\ log[k[1]][k[2]].k = "fill" /\ Touches(log[k[1]][k[2]], o)}

\* Whatever the engine has filled or may still fill of an order is covered by
\* what the order still holds: no hold is released while the order is live or
\* a fill of it is on its way to settlement (pending-engine-sweeper.ts, ADR-0030).
LiveOrderIsHeld ==
  \A o \in Orders :
    Cost(o, resting[o], MaxPrice)
      + MapThenSumSet(LAMBDA k : Cost(o, log[k[1]][k[2]].q, log[k[1]][k[2]].p), UnsettledFills(o))
    <= Outstanding(o)

\* No actor meets a state it takes for impossible: settlement never halts, and
\* the gateway never takes a consumed hold for an unfilled one.
NoAlarm == ~halted /\ ~misread

\* Once everything is settled, what the book and the database say of an order
\* agrees: an order rests exactly if its row is resting, with that remainder.
BookAgrees ==
  ~HasNext /\ ~halted =>
    \A o \in Orders :
      /\ resting[o] > 0 => status[o] \in CANCELLABLE /\ Unfilled(o) = resting[o]
      /\ status[o] \in CANCELLABLE => resting[o] > 0

\* Settlement never meets what it takes for impossible, and what it leaves in the
\* database is what the engine has in its book, in whatever order the gateway's
\* answers, the sweeper's verdicts and the engine's events are applied.
SettlementAgrees == NoAlarm /\ BookAgrees

Row(o) == <<status[o], filled[o], consumed[o], released[o]>>

\* An order once finished is never touched again: its status, its filled
\* quantity and its hold stay, so no hold is released or consumed a second time
\* (the guarded transitions of finalizeUnfilled and finish).
FinishedStays == [][\A o \in Orders : status[o] \in TERMINAL => UNCHANGED Row(o)]_vars

\* No order stays in doubt: whatever became of its request and of the handler
\* that sent it, gateway, settlement or sweeper resolves it.
EveryOrderResolved ==
  \A o \in Orders : status[o] = "PENDING_ENGINE" ~> status[o] # "PENDING_ENGINE"

=============================================================================
