------------------------ MODULE OrderLifecycleProofs -------------------------
(***************************************************************************)
(* Proofs about orders.  On the server (OrderLifecycle) the status of      *)
(* every order agrees with its hold, and a finished order is never touched *)
(* again, for any orders, quantities and prices and under every fault.  In *)
(* the browser (OrderEntry) the forms make one row per intent.             *)
(***************************************************************************)
EXTENDS OrderLifecycle, OrderEntry, TLAPS

-----------------------------------------------------------------------------
(* On the server.                                                            *)

\* The rows have their types.
DbType ==
  /\ status \in [Orders -> Statuses]
  /\ filled \in [Orders -> Nat]
  /\ consumed \in [Orders -> Nat] /\ released \in [Orders -> Nat]

\* An order that does not exist yet has no fill and no release.
Untouched ==
  \A o \in Orders : status[o] = "none" => filled[o] = 0 /\ consumed[o] = 0 /\ released[o] = 0

\* What is true of the rows.
DbInv == DbType /\ Untouched /\ HoldAgrees

\* The engine's variables have their types.
EngineType ==
  /\ resting \in [Orders -> Nat]
  /\ log \in Seq(Seq(Events)) /\ index \in [Orders -> Nat]

\* Settlement's position is the key of an event, or just behind the last one.
Position ==
  /\ pos \in Nat \X Nat /\ pos[1] >= 1 /\ pos[2] >= 1
  /\ pos[1] <= Len(log) + 1
  /\ pos[1] <= Len(log) => pos[2] <= Len(log[pos[1]])
  /\ pos[1] = Len(log) + 1 => pos[2] = 1
  /\ \A s \in 1 .. Len(log) : Len(log[s]) >= 1

\* What the handlers know: a cancel about to move its order saw it resting, and
\* one that was sent saw it unfinished.
Handlers ==
  \A t \in Tasks :
    /\ task[t].at = "move" => task[t].saw \in Resting
    /\ t[1] = "cancel" /\ task[t].at \in {"send", "wait", "answered"}
         => task[t].saw \notin TERMINAL

OtherType ==
  /\ halted \in BOOLEAN
  /\ task \in [Tasks -> [at : Stages, saw : Statuses, reply : Nat \cup {Refused}]]
  /\ net \subseteq Tasks
  /\ sweep \in [Orders -> {"idle", "ask", "resolve", "fail"}]
  /\ conclusive \subseteq Orders /\ misread \in BOOLEAN

IInv == DbInv /\ EngineType /\ Position /\ Handlers /\ OtherType

\* What a step may do to a row that is finished: nothing.
Final == \A o \in Orders : status[o] \in TERMINAL => UNCHANGED Row(o)

-----------------------------------------------------------------------------
\* Operators.

\* A fill of a natural quantity at a natural price costs a natural amount.
LEMMA CostType ==
    ASSUME NEW o, NEW q \in Nat, NEW p \in Nat
    PROVE  Cost(o, q, p) \in Nat
  <1>1. q * p \in Nat
    OBVIOUS
  <1> QED
    BY <1>1 DEF Cost

\* Every order holds something.
LEMMA HoldType ==
    ASSUME NEW o \in Orders
    PROVE  Hold(o) \in Nat \ {0}
  <1>1. Qty[o] \in Nat \ {0} /\ MaxPrice \in Nat \ {0}
    BY OrdersAssumption
  <1>2. \A x, y \in Nat \ {0} : x * y \in Nat \ {0}
    OBVIOUS
  <1> QED
    BY <1>1, <1>2 DEF Hold, Cost

\* The elements of a sequence are in the set it is over.
LEMMA ElementType ==
    ASSUME NEW S, NEW q \in Seq(S), NEW i \in 1 .. Len(q)
    PROVE  q[i] \in S
  OBVIOUS

-----------------------------------------------------------------------------
\* What each kind of database transaction does to the rows.

\* An order is created.
LEMMA CreateRows ==
    ASSUME DbInv, NEW o \in Orders, Create(o)
    PROVE  DbInv' /\ Final
  <1>1. status' = [status EXCEPT ![o] = "PENDING_ENGINE"] /\ status[o] = "none"
        /\ UNCHANGED <<filled, consumed, released>>
    BY DEF Create
  <1>2. DbType' /\ Untouched'
    BY <1>1 DEF DbInv, DbType, Untouched, Statuses, HOLDING
  <1>3. Hold(o) \in Nat \ {0}
    BY HoldType
  <1>4. \A v \in Orders : Outstanding(v)' = Outstanding(v)
    BY <1>1 DEF Outstanding
  <1>5. Outstanding(o) > 0
    BY <1>1, <1>3 DEF Outstanding, DbInv, Untouched
  <1>6. HoldAgrees'
    BY <1>1, <1>4, <1>5 DEF HoldAgrees, DbInv, DbType, TERMINAL, HOLDING
  <1>7. Final
    BY <1>1 DEF Final, Row, TERMINAL, DbInv, DbType
  <1> QED
    BY <1>2, <1>6, <1>7 DEF DbInv

\* A guarded transition between two statuses that hold funds.
LEMMA TransitionRows ==
    ASSUME DbInv, NEW o \in Orders, NEW from \in HOLDING, NEW to \in HOLDING,
           Transition(o, from, to), UNCHANGED <<filled, consumed, released>>
    PROVE  DbInv' /\ Final
  <1>1. status' = status \/ (status[o] = from /\ status' = [status EXCEPT ![o] = to])
    BY DEF Transition
  <1>2. DbType' /\ Untouched'
    BY <1>1 DEF DbInv, DbType, Untouched, Statuses, HOLDING
  <1>3. \A v \in Orders : Outstanding(v)' = Outstanding(v)
    BY DEF Outstanding
  <1>4. HoldAgrees'
    BY <1>1, <1>3 DEF HoldAgrees, DbInv, DbType, TERMINAL, HOLDING
  <1>5. Final
    BY <1>1 DEF Final, Row, TERMINAL, HOLDING, DbInv, DbType
  <1> QED
    BY <1>2, <1>4, <1>5 DEF DbInv

\* A row is finished and what it still holds is released.
LEMMA ReleaseRows ==
    ASSUME DbInv, NEW o \in Orders, NEW to \in TERMINAL, status[o] \notin TERMINAL,
           Outstanding(o) \in Nat,
           status' = [status EXCEPT ![o] = to],
           released' = [released EXCEPT ![o] = @ + Outstanding(o)],
           UNCHANGED <<filled, consumed>>
    PROVE  DbInv' /\ Final
  <1>1. DbType'
    BY DEF DbInv, DbType, Statuses
  <1>2. Untouched'
    BY DEF DbInv, DbType, Untouched, TERMINAL
  <1>3. ASSUME NEW v \in Orders, v # o
        PROVE  Outstanding(v)' = Outstanding(v) /\ status'[v] = status[v]
    BY <1>3 DEF Outstanding, DbInv, DbType
  <1>4. Outstanding(o)' = 0 /\ status'[o] = to
    <2>1. released'[o] = released[o] + (Hold(o) - consumed[o] - released[o])
      BY DEF Outstanding, DbInv, DbType
    <2>2. Hold(o) \in Nat /\ consumed[o] \in Nat /\ released[o] \in Nat
      BY HoldType DEF DbInv, DbType
    <2>3. Hold(o)' = Hold(o)
      BY DEF Hold
    <2>4. Hold(o) - consumed[o] - released'[o] = 0
      BY <2>1, <2>2
    <2>5. status'[o] = to
      BY DEF DbInv, DbType
    <2> QED
      BY <2>3, <2>4, <2>5 DEF Outstanding
  <1>5. HoldAgrees'
    BY <1>3, <1>4 DEF HoldAgrees, DbInv, TERMINAL, HOLDING
  <1>6. Final
    BY DEF Final, Row, DbInv, DbType
  <1> QED
    BY <1>1, <1>2, <1>5, <1>6 DEF DbInv

\* The rows do not change.
LEMMA SameRows ==
    ASSUME DbInv, UNCHANGED dbVars
    PROVE  DbInv' /\ Final
  <1>1. \A v \in Orders : Outstanding(v)' = Outstanding(v)
    BY DEF Outstanding, dbVars
  <1>2. DbType' /\ Untouched'
    BY DEF DbInv, DbType, Untouched, dbVars
  <1>3. HoldAgrees'
    BY <1>1 DEF DbInv, HoldAgrees, dbVars
  <1>4. Final
    BY DEF Final, Row, dbVars
  <1> QED
    BY <1>2, <1>3, <1>4 DEF DbInv

\* finalizeUnfilled.
LEMMA FinalizeRows ==
    ASSUME DbInv, misread \in BOOLEAN, NEW o \in Orders, NEW from, from \notin TERMINAL,
           NEW to \in TERMINAL, FinalizeUnfilled(o, from, to)
    PROVE  DbInv' /\ Final /\ misread' \in BOOLEAN
  <1>1. CASE UNCHANGED <<status, released>> /\ misread' \in BOOLEAN
    <2>1. UNCHANGED dbVars
      BY <1>1 DEF FinalizeUnfilled, dbVars
    <2> QED
      BY <1>1, <2>1, SameRows
  <1>2. CASE /\ status[o] = from /\ Outstanding(o) = Hold(o)
             /\ status' = [status EXCEPT ![o] = to]
             /\ released' = [released EXCEPT ![o] = @ + Outstanding(o)]
             /\ UNCHANGED misread
    <2>1. Outstanding(o) \in Nat
      BY <1>2, HoldType
    <2>2. UNCHANGED <<filled, consumed>>
      BY DEF FinalizeUnfilled
    <2> QED
      BY Zenon, <1>2, <2>1, <2>2, ReleaseRows
  <1> QED
    BY Zenon, <1>1, <1>2 DEF FinalizeUnfilled

\* resolvePending.
LEMMA ResolveRows ==
    ASSUME DbInv, misread \in BOOLEAN, NEW o \in Orders, NEW evs, ResolvePending(o, evs)
    PROVE  DbInv' /\ Final /\ misread' \in BOOLEAN
  <1>1. CASE FinalizeUnfilled(o, "PENDING_ENGINE", "REJECTED")
             \/ FinalizeUnfilled(o, "PENDING_ENGINE", "EXPIRED")
    BY <1>1, FinalizeRows DEF TERMINAL
  <1>2. CASE /\ Transition(o, "PENDING_ENGINE", "OPEN")
             /\ UNCHANGED <<filled, consumed, released, misread>>
    BY <1>2, TransitionRows DEF HOLDING
  <1>3. CASE UNCHANGED <<status, filled, consumed, released, misread>>
    BY <1>3, SameRows DEF dbVars
  <1> QED
    BY <1>1, <1>2, <1>3 DEF ResolvePending

-----------------------------------------------------------------------------
\* Settlement.

\* finish.
LEMMA FinishRows ==
    ASSUME DbInv, NEW o \in Orders, NEW from, NEW to \in TERMINAL,
           from \cap TERMINAL = {}, Finish(o, from, to)
    PROVE  DbInv' /\ Final /\ (Halt \/ Applied)
  <1>1. CASE Noop \/ Halt
    BY <1>1, SameRows DEF Noop, Halt
  <1>2. CASE /\ status[o] \in from /\ ~(Outstanding(o) < 0)
             /\ status' = [status EXCEPT ![o] = to]
             /\ released' = [released EXCEPT ![o] = @ + Outstanding(o)]
             /\ UNCHANGED <<filled, consumed>>
             /\ Applied
    <2>1. Outstanding(o) \in Nat
      BY <1>2, HoldType DEF Outstanding, DbInv, DbType
    <2> QED
      BY Zenon, <1>2, <2>1, ReleaseRows
  <1> QED
    BY <1>1, <1>2 DEF Finish, Noop

\* settleFill.
LEMMA FillRows ==
    ASSUME DbInv, NEW e \in Events, SettleFill(e)
    PROVE  DbInv' /\ Final /\ (Halt \/ Applied)
  <1> DEFINE sides == {e.o, e.m}
             left(o) == Outstanding(o) - Cost(o, e.q, e.p)
             ok(o) == /\ status[o] \in HOLDING /\ filled[o] + e.q <= Qty[o]
                      /\ left(o) >= 0
                      /\ AfterFill(o, e.q) # "FILLED" => left(o) > 0
  <1>1. CASE Halt
    BY <1>1, SameRows DEF Halt
  <1>2. CASE /\ \A o \in sides : ok(o)
             /\ filled' = [o \in Orders |-> IF o \in sides THEN filled[o] + e.q ELSE filled[o]]
             /\ consumed' = [o \in Orders |-> IF o \in sides THEN consumed[o] + Cost(o, e.q, e.p)
                                              ELSE consumed[o]]
             /\ status' = [o \in Orders |-> IF o \in sides THEN AfterFill(o, e.q) ELSE status[o]]
             /\ released' = [o \in Orders |->
                  IF o \in sides /\ AfterFill(o, e.q) = "FILLED"
                  THEN released[o] + left(o) ELSE released[o]]
             /\ Applied
    <2>1. e.q \in Nat /\ e.p \in Nat
      BY OrdersAssumption DEF Events
    <2>2. ASSUME NEW o \in Orders
          PROVE  /\ Cost(o, e.q, e.p) \in Nat /\ Hold(o) \in Nat \ {0}
                 /\ filled[o] \in Nat /\ consumed[o] \in Nat /\ released[o] \in Nat
                 /\ Outstanding(o) = Hold(o) - consumed[o] - released[o]
                 /\ Outstanding(o)' = Hold(o) - consumed'[o] - released'[o]
      BY <2>1, CostType, HoldType DEF DbInv, DbType, Outstanding, Hold
    <2>3. ASSUME NEW o \in Orders, o \in sides
          PROVE  /\ status'[o] = AfterFill(o, e.q)
                 /\ AfterFill(o, e.q) \in {"FILLED", "PENDING_CANCEL", "PARTIALLY_FILLED"}
                 /\ status[o] \in HOLDING
                 /\ filled'[o] = filled[o] + e.q
                 /\ consumed'[o] = consumed[o] + Cost(o, e.q, e.p)
                 /\ released'[o] = IF AfterFill(o, e.q) = "FILLED"
                                   THEN released[o] + left(o) ELSE released[o]
                 /\ left(o) >= 0
                 /\ AfterFill(o, e.q) # "FILLED" => left(o) > 0
      BY <1>2, <2>3 DEF AfterFill
    <2>4. ASSUME NEW o \in Orders, o \notin sides
          PROVE  /\ status'[o] = status[o] /\ filled'[o] = filled[o]
                 /\ consumed'[o] = consumed[o] /\ released'[o] = released[o]
      BY <1>2, <2>4
    <2>5. ASSUME NEW o \in Orders, o \in sides
          PROVE  /\ released'[o] \in Nat
                 /\ status'[o] = "FILLED" => Outstanding(o)' = 0
                 /\ status'[o] # "FILLED" => Outstanding(o)' > 0
      <3> HIDE DEF sides
      <3>1. left(o) = Outstanding(o) - Cost(o, e.q, e.p)
        OBVIOUS
      <3> HIDE DEF left
      <3> QED
        BY <3>1, <2>2, <2>3, <2>5
    <2> HIDE DEF sides, left
    <2>6. DbType'
      <3>1. status' \in [Orders -> Statuses]
        BY <1>2, <2>3, <2>4 DEF DbInv, DbType, Statuses, HOLDING, TERMINAL
      <3>2. filled' \in [Orders -> Nat]
        BY <1>2, <2>1, <2>2
      <3>3. consumed' \in [Orders -> Nat]
        BY <1>2, <2>2
      <3>4. released' \in [Orders -> Nat]
        <4>1. \A o \in Orders : released'[o] \in Nat
          BY <2>2, <2>4, <2>5
        <4> QED
          BY <1>2, <4>1
      <3> QED
        BY <3>1, <3>2, <3>3, <3>4 DEF DbType
    <2>7. Untouched'
      BY <2>3, <2>4 DEF Untouched, DbInv
    <2>8. HoldAgrees'
      <3>1. ASSUME NEW o \in Orders, o \notin sides
            PROVE  Outstanding(o)' = Outstanding(o)
        BY <2>2, <2>4, <3>1
      <3> QED
        BY <2>3, <2>4, <2>5, <3>1 DEF HoldAgrees, DbInv, TERMINAL, HOLDING
    <2>9. Final
      BY <2>3, <2>4 DEF Final, Row, TERMINAL, HOLDING
    <2> QED
      BY <1>2, <2>6, <2>7, <2>8, <2>9 DEF DbInv
  <1> QED
    BY <1>1, <1>2 DEF SettleFill

\* The event settlement is at.
LEMMA NextEventType ==
    ASSUME EngineType, Position, HasNext
    PROVE  NextEvent \in Events
  <1>1. pos[1] \in 1 .. Len(log) /\ log \in Seq(Seq(Events))
    BY DEF Position, HasNext, EngineType
  <1>2. log[pos[1]] \in Seq(Events)
    BY <1>1, ElementType
  <1>3. pos[2] \in 1 .. Len(log[pos[1]])
    BY <1>1, <1>2 DEF Position
  <1> QED
    BY <1>2, <1>3, ElementType DEF NextEvent

\* Applying an event moves to the next key.
LEMMA AdvancePosition ==
    ASSUME EngineType, Position, HasNext, pos' = Advanced, UNCHANGED log
    PROVE  Position'
  <1>1. pos[1] \in 1 .. Len(log) /\ log \in Seq(Seq(Events)) /\ Len(log) \in Nat
    BY DEF Position, HasNext, EngineType
  <1>2. \A s \in 1 .. Len(log) : Len(log[s]) \in Nat /\ Len(log[s]) >= 1
    <2>1. \A s \in 1 .. Len(log) : log[s] \in Seq(Events)
      BY <1>1, ElementType
    <2> QED
      BY <2>1 DEF Position
  <1>3. pos[2] \in 1 .. Len(log[pos[1]]) /\ pos[2] \in Nat
    BY <1>1, <1>2 DEF Position
  <1>4. CASE pos[2] < Len(log[pos[1]])
    <2>1. pos' = <<pos[1], pos[2] + 1>>
      BY <1>4 DEF Advanced
    <2>2. pos'[1] = pos[1] /\ pos'[2] = pos[2] + 1
      BY <2>1
    <2> QED
      BY <1>1, <1>2, <1>3, <1>4, <2>1, <2>2 DEF Position
  <1>5. CASE ~(pos[2] < Len(log[pos[1]]))
    <2>1. pos' = <<pos[1] + 1, 1>>
      BY <1>5 DEF Advanced
    <2>2. pos'[1] = pos[1] + 1 /\ pos'[2] = 1
      BY <2>1
    <2> QED
      BY <1>1, <1>2, <2>1, <2>2 DEF Position
  <1> QED
    BY <1>4, <1>5

\* apply.
LEMMA SettleRows ==
    ASSUME IInv, Settle
    PROVE  DbInv' /\ Final /\ (Halt \/ Applied)
  <1> DEFINE e == NextEvent
             o == e.o
  <1>1. e \in Events /\ o \in Orders
    <2>1. e \in Events
      BY NextEventType DEF IInv, Settle
    <2> QED
      BY <2>1 DEF Events
  <1>2. DbInv
    BY DEF IInv
  <1>3. CANCELLABLE \cap TERMINAL = {} /\ EXPIRABLE \cap TERMINAL = {}
        /\ {"PENDING_ENGINE"} \cap TERMINAL = {}
    BY DEF CANCELLABLE, EXPIRABLE, TERMINAL
  <1>4. {"CANCELLED", "EXPIRED", "REJECTED"} \subseteq TERMINAL
    BY DEF TERMINAL
  <1>5. CASE e.k = "fill"
    BY <1>1, <1>2, <1>5, FillRows DEF Settle
  <1>6. CASE e.k = "cancelled"
    <2>1. Halt \/ Finish(o, CANCELLABLE, "CANCELLED")
      BY <1>6 DEF Settle
    <2> QED
      BY Zenon, <1>1, <1>2, <1>3, <1>4, <2>1, FinishRows, SameRows DEF Halt
  <1>7. CASE e.k = "expired"
    <2>1. Halt \/ Finish(o, EXPIRABLE, "EXPIRED")
      BY <1>7 DEF Settle
    <2> QED
      BY Zenon, <1>1, <1>2, <1>3, <1>4, <2>1, FinishRows, SameRows DEF Halt
  <1>8. CASE e.k = "rejected"
    <2>1. Halt \/ Finish(o, {"PENDING_ENGINE"}, "REJECTED")
      BY <1>8 DEF Settle
    <2> QED
      BY Zenon, <1>1, <1>2, <1>3, <1>4, <2>1, FinishRows, SameRows DEF Halt
  <1>9. CASE e.k = "accepted"
    <2>1. \/ Halt
          \/ /\ Transition(o, "PENDING_ENGINE", "OPEN") \/ UNCHANGED status
             /\ UNCHANGED <<filled, consumed, released>>
             /\ Applied
      BY <1>9 DEF Settle
    <2>2. CASE Halt
      BY <1>2, <2>2, SameRows DEF Halt
    <2>3. CASE Transition(o, "PENDING_ENGINE", "OPEN")
               /\ UNCHANGED <<filled, consumed, released>> /\ Applied
      BY <1>1, <1>2, <2>3, TransitionRows DEF HOLDING
    <2>4. CASE UNCHANGED <<status, filled, consumed, released>> /\ Applied
      BY <1>2, <2>4, SameRows DEF dbVars
    <2> QED
      BY <2>1, <2>2, <2>3, <2>4
  <1>10. CASE e.k = "unknown"
    <2>1. Noop
      BY <1>10 DEF Settle
    <2> QED
      BY <1>2, <2>1, SameRows DEF Noop
  <1> QED
    BY <1>1, <1>5, <1>6, <1>7, <1>8, <1>9, <1>10 DEF Events, Kinds

-----------------------------------------------------------------------------
\* The engine.

\* An outcome: at least one event, and the book after it.
Outcome == {r \in [evs : Seq(Events), book : [Orders -> Nat]] : Len(r.evs) >= 1}

\* The events of the model are events.
LEMMA EventTypes ==
    ASSUME NEW o \in Orders, NEW m \in Orders, NEW q \in Nat, NEW p \in 1 .. MaxPrice,
           NEW k \in Kinds
    PROVE  Event(k, o, q) \in Events /\ FillEvent(o, m, q, p) \in Events
  BY OrdersAssumption DEF Event, FillEvent, Events, Kinds

\* Some events and a book are an outcome.
LEMMA MakeOutcome ==
    ASSUME NEW evs \in Seq(Events), Len(evs) >= 1, NEW b \in [Orders -> Nat]
    PROVE  [evs |-> evs, book |-> b] \in Outcome
  BY DEF Outcome

\* A sequence of events with one more is not empty.
LEMMA AppendOutcome ==
    ASSUME NEW evs \in Seq(Events), NEW e \in Events, NEW b \in [Orders -> Nat]
    PROVE  [evs |-> Append(evs, e), book |-> b] \in Outcome
  <1>1. Append(evs, e) \in Seq(Events) /\ Len(Append(evs, e)) >= 1
    OBVIOUS
  <1> QED
    BY <1>1 DEF Outcome

\* What is left of an order rests or expires.
LEMMA RemainderType ==
    ASSUME NEW o \in Orders, NEW r \in [Orders -> Nat], NEW q \in Nat, NEW evs \in Seq(Events)
    PROVE  Remainder(o, r, q, evs) \subseteq Outcome
  <1>1. Event("accepted", o, q) \in Events /\ Event("expired", o, q) \in Events
    BY OrdersAssumption DEF Event, Events, Kinds
  <1>2. [r EXCEPT ![o] = q] \in [Orders -> Nat]
    OBVIOUS
  <1> QED
    BY <1>1, <1>2, AppendOutcome DEF Remainder, Rests, Expires

\* A placement has an outcome.
LEMMA PlacementType ==
    ASSUME NEW o \in Orders, NEW r \in [Orders -> Nat], NEW evs \in Seq(Events)
    PROVE  Placements(o, r, evs) \subseteq Outcome
  <1>1. Qty[o] \in Nat
    BY OrdersAssumption
  <1>2. [evs |-> Append(evs, Event("rejected", o, 0)), book |-> r] \in Outcome
    <2>1. Event("rejected", o, 0) \in Events
      BY OrdersAssumption DEF Event, Events, Kinds
    <2> QED
      BY <2>1, AppendOutcome
  <1>3. Remainder(o, r, Qty[o], evs) \subseteq Outcome
    BY <1>1, RemainderType
  <1>4. ASSUME NEW m \in Opposite(o, r), NEW p \in 1 .. MaxPrice
        PROVE  LET q == Traded(o, r, m)
               IN  Remainder(o, [r EXCEPT ![m] = @ - q], Qty[o] - q,
                             Append(evs, FillEvent(o, m, q, p))) \subseteq Outcome
    <2> DEFINE q == Traded(o, r, m)
    <2>1. m \in Orders
      BY DEF Opposite
    <2>2. q \in Nat /\ Qty[o] - q \in Nat /\ r[m] - q \in Nat
      BY <1>1, <2>1 DEF Traded
    <2>3. [r EXCEPT ![m] = @ - q] \in [Orders -> Nat]
      BY <2>1, <2>2
    <2>4. FillEvent(o, m, q, p) \in Events
      BY <2>1, <2>2, OrdersAssumption DEF FillEvent, Events, Kinds
    <2>5. Append(evs, FillEvent(o, m, q, p)) \in Seq(Events)
      BY <2>4
    <2> HIDE DEF q
    <2> QED
      BY Zenon, <2>2, <2>3, <2>5, RemainderType DEF q
  <1> DEFINE F(m, p) == LET q == Traded(o, r, m)
                        IN  Remainder(o, [r EXCEPT ![m] = @ - q], Qty[o] - q,
                                      Append(evs, FillEvent(o, m, q, p)))
  <1>5. \A m \in Opposite(o, r), p \in 1 .. MaxPrice : F(m, p) \subseteq Outcome
    BY Zenon, <1>4
  <1>6. Placements(o, r, evs) =
          {[evs |-> Append(evs, Event("rejected", o, 0)), book |-> r]}
            \cup Remainder(o, r, Qty[o], evs)
            \cup UNION {F(m, p) : m \in Opposite(o, r), p \in 1 .. MaxPrice}
    BY DEF Placements
  <1> HIDE DEF F
  <1>7. UNION {F(m, p) : m \in Opposite(o, r), p \in 1 .. MaxPrice} \subseteq Outcome
    <2>1. ASSUME NEW x \in {F(m, p) : m \in Opposite(o, r), p \in 1 .. MaxPrice}
          PROVE  x \subseteq Outcome
      <3>1. PICK m \in Opposite(o, r), p \in 1 .. MaxPrice : x = F(m, p)
        OBVIOUS
      <3> QED
        BY <1>5, <3>1
    <2> QED
      BY <2>1
  <1> DEFINE A == [evs |-> Append(evs, Event("rejected", o, 0)), book |-> r]
             B == Remainder(o, r, Qty[o], evs)
             C == UNION {F(m, p) : m \in Opposite(o, r), p \in 1 .. MaxPrice}
  <1>8. Placements(o, r, evs) = {A} \cup B \cup C
    BY <1>6
  <1>9. A \in Outcome /\ B \subseteq Outcome /\ C \subseteq Outcome
    BY <1>2, <1>3, <1>7
  <1> HIDE DEF A, B, C
  <1> QED
    BY <1>8, <1>9

\* The parts of a task.
LEMMA TaskParts ==
    ASSUME NEW t \in Tasks
    PROVE  /\ t[1] \in {"place", "cancel", "amend"} /\ t[2] \in Orders
           /\ Target(t) \in Orders
           /\ t[1] = "amend" => t[2] \in Replacements
  BY OrdersAssumption DEF Tasks, Target, Replacements

\* Every command has outcomes only of that kind.
LEMMA OutcomeType ==
    ASSUME EngineType, NEW t \in Tasks
    PROVE  Outcomes(t) \subseteq Outcome
  <1>1. /\ t[1] \in {"place", "cancel", "amend"} /\ t[2] \in Orders /\ Target(t) \in Orders
        /\ resting \in [Orders -> Nat]
    BY TaskParts DEF EngineType
  <1>2. ASSUME NEW o \in Orders
        PROVE  /\ Removed(o) \in Seq(Events) /\ Len(Removed(o)) = 1
               /\ UnknownOrder(o) \subseteq Outcome
               /\ [resting EXCEPT ![o] = 0] \in [Orders -> Nat]
    <2>1. Event("cancelled", o, resting[o]) \in Events /\ Event("unknown", o, 0) \in Events
      BY <1>1, OrdersAssumption DEF Event, Events, Kinds
    <2>2. <<Event("unknown", o, 0)>> \in Seq(Events) /\ Len(<<Event("unknown", o, 0)>>) = 1
      BY <2>1
    <2>3. Removed(o) \in Seq(Events) /\ Len(Removed(o)) = 1
      BY <2>1 DEF Removed
    <2>4. [evs |-> <<Event("unknown", o, 0)>>, book |-> resting] \in Outcome
      <3>1. Len(<<Event("unknown", o, 0)>>) >= 1
        BY <2>2
      <3> QED
        BY Zenon, <1>1, <2>2, <3>1, MakeOutcome
    <2> QED
      BY <1>1, <2>3, <2>4 DEF UnknownOrder
  <1>3. CASE t[1] = "place"
    <2>1. <<>> \in Seq(Events)
      OBVIOUS
    <2>2. Outcomes(t) = Placements(t[2], resting, <<>>)
      BY <1>3 DEF Outcomes
    <2> QED
      BY Zenon, <1>1, <2>1, <2>2, PlacementType
  <1>4. CASE t[1] = "cancel"
    <2>1. Outcomes(t) = IF resting[t[2]] = 0 THEN UnknownOrder(t[2])
             ELSE {[evs |-> Removed(t[2]), book |-> [resting EXCEPT ![t[2]] = 0]]}
      BY <1>4 DEF Outcomes
    <2>2. [evs |-> Removed(t[2]), book |-> [resting EXCEPT ![t[2]] = 0]] \in Outcome
      <3> DEFINE R == Removed(t[2])
                 B == [resting EXCEPT ![t[2]] = 0]
      <3>1. R \in Seq(Events) /\ Len(R) = 1 /\ B \in [Orders -> Nat]
        BY <1>1, <1>2
      <3> HIDE DEF R, B
      <3>2. [evs |-> R, book |-> B] \in Outcome
        BY <3>1, MakeOutcome
      <3> QED
        BY <3>2 DEF R, B
    <2> QED
      BY Zenon, <1>1, <1>2, <2>1, <2>2
  <1>5. CASE t[1] = "amend"
    <2>1. Outcomes(t) = IF resting[Target(t)] = 0 THEN UnknownOrder(Target(t))
             ELSE Placements(t[2], [resting EXCEPT ![Target(t)] = 0], Removed(Target(t)))
      BY <1>5 DEF Outcomes
    <2>2. Placements(t[2], [resting EXCEPT ![Target(t)] = 0], Removed(Target(t))) \subseteq Outcome
      BY Zenon, <1>1, <1>2, PlacementType
    <2> QED
      BY Zenon, <1>1, <1>2, <2>1, <2>2
  <1> QED
    BY <1>1, <1>3, <1>4, <1>5

\* A command's events are appended to the log.
LEMMA EngineStep ==
    ASSUME EngineType, Position, NEW t \in Tasks, EngineHandles(t)
    PROVE  EngineType' /\ Position'
  <1>1. PICK r \in Outcome : log' = Append(log, r.evs) /\ resting' = r.book
    BY OutcomeType DEF EngineHandles
  <1>2. r.evs \in Seq(Events) /\ Len(r.evs) >= 1 /\ r.book \in [Orders -> Nat]
    BY DEF Outcome
  <1>3. log \in Seq(Seq(Events)) /\ Len(log) \in Nat
    BY DEF EngineType
  <1>4. index' \in [Orders -> Nat]
    <2>1. t[2] \in Orders
      BY TaskParts
    <2> QED
      BY <1>3, <2>1 DEF EngineHandles, EngineType
  <1>5. /\ log' \in Seq(Seq(Events)) /\ Len(log') = Len(log) + 1
        /\ \A s \in 1 .. Len(log) : log'[s] = log[s]
        /\ log'[Len(log) + 1] = r.evs
    BY <1>1, <1>2, <1>3
  <1>6. pos' = pos
    BY DEF EngineHandles, settleVars
  <1>8. ASSUME NEW s \in 1 .. Len(log')
        PROVE  Len(log'[s]) >= 1
    <2>1. CASE s \in 1 .. Len(log)
      BY Zenon, <1>5, <2>1 DEF Position
    <2>2. CASE s = Len(log) + 1
      BY <1>2, <1>5, <2>2
    <2> QED
      BY <1>3, <1>5, <2>1, <2>2
  <1>9. pos[1] \in Nat /\ pos[2] \in Nat /\ pos[1] >= 1 /\ pos[2] >= 1
        /\ pos[1] <= Len(log) + 1
    BY DEF Position
  <1>10. pos[2] <= Len(log'[pos[1]])
    <2>1. CASE pos[1] \in 1 .. Len(log)
      <3>1. log'[pos[1]] = log[pos[1]]
        BY <1>5, <2>1
      <3> QED
        BY <2>1, <3>1 DEF Position
    <2>2. CASE pos[1] = Len(log) + 1
      <3>1. log'[pos[1]] = r.evs /\ pos[2] = 1
        BY <1>5, <2>2 DEF Position
      <3> QED
        BY <1>2, <3>1
    <2> QED
      BY <1>3, <1>9, <2>1, <2>2
  <1>11. pos'[1] # Len(log') + 1 /\ pos'[1] <= Len(log') + 1
    BY <1>3, <1>5, <1>6, <1>9
  <1>7. Position'
    BY <1>6, <1>8, <1>9, <1>10, <1>11 DEF Position
  <1> QED
    BY <1>1, <1>2, <1>4, <1>5, <1>7 DEF EngineType

\* Nothing of the engine or of settlement's position changes.
LEMMA EngineStays ==
    ASSUME EngineType, Position, UNCHANGED <<engineVars, pos>>
    PROVE  EngineType' /\ Position'
  BY DEF EngineType, Position, engineVars

-----------------------------------------------------------------------------
\* The handlers.

HandlerState == [at : Stages, saw : Statuses, reply : Nat \cup {Refused}]

\* What Handlers says of the state h of one task.
Knows(t, h) ==
  /\ h.at = "move" => h.saw \in Resting
  /\ t[1] = "cancel" /\ h.at \in {"send", "wait", "answered"} => h.saw \notin TERMINAL

\* One handler takes a step.
LEMMA HandlerStep ==
    ASSUME Handlers, task \in [Tasks -> HandlerState], NEW t \in Tasks,
           NEW h \in HandlerState, Knows(t, h), task' = [task EXCEPT ![t] = h]
    PROVE  Handlers' /\ task' \in [Tasks -> HandlerState]
  <1>1. task' \in [Tasks -> HandlerState]
    OBVIOUS
  <1>2. \A u \in Tasks : task'[u] = IF u = t THEN h ELSE task[u]
    OBVIOUS
  <1>3. Handlers'
    BY <1>2 DEF Handlers, Knows
  <1> QED
    BY <1>1, <1>3

\* A handler goes on to another stage, or ends.
LEMMA GotoStep ==
    ASSUME Handlers, task \in [Tasks -> HandlerState], NEW t \in Tasks,
           \/ Return(t)
           \/ \E at \in {"send", "second"} : t[1] # "cancel" /\ Goto(t, at)
           \/ task[t].at = "send" /\ Goto(t, "wait")
    PROVE  Handlers' /\ task' \in [Tasks -> HandlerState]
  <1>1. CASE Return(t)
    <2>1. Done \in HandlerState /\ Knows(t, Done)
      BY DEF Done, HandlerState, Stages, Statuses, Knows
    <2> QED
      BY Zenon, <1>1, <2>1, HandlerStep DEF Return
  <1>2. ASSUME NEW at \in Stages \ {"move"}, Goto(t, at),
               t[1] # "cancel" \/ (at = "wait" /\ task[t].at = "send")
        PROVE  Handlers' /\ task' \in [Tasks -> HandlerState]
    <2> DEFINE h == [task[t] EXCEPT !.at = at]
    <2>1. task' = [task EXCEPT ![t] = h]
      BY <1>2 DEF Goto
    <2>2. task[t] \in HandlerState
      OBVIOUS
    <2>3. h \in HandlerState /\ h.at = at /\ h.saw = task[t].saw
      BY <2>2 DEF HandlerState
    <2> HIDE DEF h
    <2>4. Knows(t, h)
      BY <1>2, <2>3 DEF Knows, Handlers
    <2> QED
      BY Zenon, <2>1, <2>3, <2>4, HandlerStep
  <1>3. {"send", "second", "wait"} \subseteq Stages \ {"move"}
    BY DEF Stages
  <1> QED
    BY <1>1, <1>2, <1>3

\* A reply arrives, or comes too late.
LEMMA ReplyStep ==
    ASSUME Handlers, task \in [Tasks -> HandlerState], NEW t \in Tasks,
           NEW s \in Nat \cup {Refused}, Reply(t, s)
    PROVE  Handlers' /\ task' \in [Tasks -> HandlerState]
  <1>1. CASE task' = task
    BY <1>1 DEF Handlers
  <1>2. CASE task[t].at = "wait"
             /\ task' = [task EXCEPT ![t] = [@ EXCEPT !.at = "answered", !.reply = s]]
    <2> DEFINE h == [task[t] EXCEPT !.at = "answered", !.reply = s]
    <2>1. task' = [task EXCEPT ![t] = h]
      BY <1>2
    <2>2. task[t] \in HandlerState
      OBVIOUS
    <2>3. h \in HandlerState /\ h.at = "answered" /\ h.saw = task[t].saw
      BY Zenon, <2>2 DEF HandlerState, Stages
    <2> HIDE DEF h
    <2>4. Knows(t, h)
      BY <1>2, <2>3 DEF Knows, Handlers
    <2> QED
      BY Zenon, <2>1, <2>3, <2>4, HandlerStep
  <1> QED
    BY <1>1, <1>2 DEF Reply

\* The same state in terms of the type invariant.
LEMMA OtherTypeParts ==
    OtherType <=> /\ halted \in BOOLEAN
                  /\ task \in [Tasks -> HandlerState]
                  /\ net \subseteq Tasks
                  /\ sweep \in [Orders -> {"idle", "ask", "resolve", "fail"}]
                  /\ conclusive \subseteq Orders /\ misread \in BOOLEAN
  BY DEF OtherType, HandlerState

-----------------------------------------------------------------------------
\* The steps.

\* place.
LEMMA StepPlace ==
    ASSUME IInv, NEW o \in Orders, Place(o)
    PROVE  IInv' /\ Final
  <1> DEFINE t == <<"place", o>>
  <1>1. DbInv' /\ Final
    BY CreateRows DEF Place, IInv
  <1>2. EngineType' /\ Position'
    BY EngineStays DEF Place, IInv, settleVars
  <1>3. t \in Tasks /\ t[1] # "cancel" /\ Goto(t, "send")
    BY DEF Place
  <1>4. task \in [Tasks -> HandlerState] /\ Handlers
    BY OtherTypeParts DEF IInv
  <1>5. Handlers' /\ task' \in [Tasks -> HandlerState]
    BY <1>3, <1>4, GotoStep
  <1>6. OtherType'
    BY <1>5 DEF Place, IInv, OtherType, HandlerState, settleVars
  <1> QED
    BY <1>1, <1>2, <1>5, <1>6 DEF IInv

\* cancel: the request is taken.
LEMMA StepCancel ==
    ASSUME IInv, NEW o \in Orders, Cancel(o)
    PROVE  IInv' /\ Final
  <1> DEFINE t == <<"cancel", o>>
             h == [task[t] EXCEPT !.saw = status[o],
                     !.at = IF status[o] \in Resting THEN "move" ELSE "send"]
  <1>1. DbInv' /\ Final
    BY SameRows DEF Cancel, IInv
  <1>2. EngineType' /\ Position'
    BY EngineStays DEF Cancel, IInv, settleVars
  <1>3. t \in Tasks /\ task' = [task EXCEPT ![t] = h] /\ status[o] \in CANCELLABLE
    BY DEF Cancel
  <1>4. task \in [Tasks -> HandlerState] /\ Handlers
    BY OtherTypeParts DEF IInv
  <1>5. task[t] \in HandlerState
    BY <1>3, <1>4
  <1>6. h \in HandlerState /\ h.saw = status[o]
        /\ h.at = IF status[o] \in Resting THEN "move" ELSE "send"
    BY Zenon, <1>3, <1>5 DEF HandlerState, Stages, Statuses, CANCELLABLE, HOLDING
  <1> HIDE DEF h
  <1>7. Knows(t, h)
    BY <1>3, <1>6 DEF Knows, CANCELLABLE, TERMINAL
  <1>8. Handlers' /\ task' \in [Tasks -> HandlerState]
    BY Zenon, <1>3, <1>4, <1>6, <1>7, HandlerStep
  <1>9. OtherType'
    BY <1>8 DEF Cancel, IInv, OtherType, HandlerState, settleVars
  <1> QED
    BY <1>1, <1>2, <1>8, <1>9 DEF IInv

\* amend: the replacement is created.
LEMMA StepAmend ==
    ASSUME IInv, NEW c \in Replacements, Amend(c)
    PROVE  IInv' /\ Final
  <1> DEFINE t == <<"amend", c>>
             h == [task[t] EXCEPT !.saw = status[Target(t)], !.at = "move"]
  <1>1. c \in Orders
    BY OrdersAssumption DEF Replacements
  <1>2. DbInv' /\ Final
    BY <1>1, CreateRows DEF Amend, IInv
  <1>3. EngineType' /\ Position'
    BY EngineStays DEF Amend, IInv, settleVars
  <1>4. t \in Tasks /\ task' = [task EXCEPT ![t] = h] /\ status[Target(t)] \in Resting
    BY DEF Amend
  <1>5. task \in [Tasks -> HandlerState] /\ Handlers
    BY OtherTypeParts DEF IInv
  <1>6. task[t] \in HandlerState
    BY <1>4, <1>5
  <1>7. h \in HandlerState /\ h.saw \in Resting /\ h.at = "move"
    BY Zenon, <1>4, <1>6 DEF HandlerState, Stages, Statuses, Resting, HOLDING
  <1> HIDE DEF h
  <1>8. Knows(t, h)
    BY <1>7 DEF Knows
  <1>9. Handlers' /\ task' \in [Tasks -> HandlerState]
    BY Zenon, <1>4, <1>5, <1>7, <1>8, HandlerStep
  <1>10. OtherType'
    BY <1>9 DEF Amend, IInv, OtherType, HandlerState, settleVars
  <1> QED
    BY <1>2, <1>3, <1>9, <1>10 DEF IInv

\* toPendingCancel.
LEMMA StepMove ==
    ASSUME IInv, NEW t \in Tasks, ToPendingCancel(t)
    PROVE  IInv' /\ Final
  <1> DEFINE o == Target(t)
             now == IF status[o] = task[t].saw THEN "PENDING_CANCEL" ELSE status[o]
             h == [task[t] EXCEPT !.saw = now, !.at = IF now \in Resting THEN "move" ELSE "send"]
  <1>1. o \in Orders
    BY TaskParts
  <1>2. task \in [Tasks -> HandlerState] /\ Handlers /\ task[t] \in HandlerState
    BY OtherTypeParts DEF IInv
  <1>3. task[t].saw \in HOLDING /\ "PENDING_CANCEL" \in HOLDING
    BY <1>2 DEF ToPendingCancel, Handlers, Resting, HOLDING
  <1>4. DbInv' /\ Final
    BY <1>1, <1>3, TransitionRows DEF ToPendingCancel, IInv
  <1>5. EngineType' /\ Position'
    BY EngineStays DEF ToPendingCancel, IInv, settleVars
  <1>6. now \in Statuses
    BY <1>1 DEF IInv, DbInv, DbType, Statuses, HOLDING
  <1>7. Handlers' /\ task' \in [Tasks -> HandlerState]
    <2>1. CASE Return(t)
      BY <1>2, <2>1, GotoStep
    <2>2. CASE ~(t[1] = "cancel" /\ now \in TERMINAL) /\ task' = [task EXCEPT ![t] = h]
      <3>1. h \in HandlerState /\ h.saw = now /\ h.at = IF now \in Resting THEN "move" ELSE "send"
        BY Zenon, <1>2, <1>6 DEF HandlerState, Stages
      <3> HIDE DEF h, now
      <3>2. Knows(t, h)
        BY <2>2, <3>1 DEF Knows
      <3> QED
        BY Zenon, <1>2, <2>2, <3>1, <3>2, HandlerStep
    <2> QED
      BY <2>1, <2>2 DEF ToPendingCancel
  <1>8. OtherType'
    BY <1>7 DEF ToPendingCancel, IInv, OtherType, HandlerState, settleVars
  <1> QED
    BY <1>4, <1>5, <1>7, <1>8 DEF IInv

\* The rows and the engine stay as they are.
LEMMA QuietStep ==
    ASSUME IInv, UNCHANGED <<dbVars, settleVars, engineVars>>
    PROVE  DbInv' /\ Final /\ EngineType' /\ Position' /\ UNCHANGED halted
  BY SameRows, EngineStays DEF IInv, settleVars

\* A request leaves, is refused or lost; a handler ends.
LEMMA StepQuietTask ==
    ASSUME IInv, NEW t \in Tasks, Send(t) \/ GiveUp(t) \/ EngineRefuses(t) \/ Lose(t)
    PROVE  IInv' /\ Final
  <1>1. task \in [Tasks -> HandlerState] /\ Handlers
    BY OtherTypeParts DEF IInv
  <1>2. UNCHANGED <<dbVars, settleVars, engineVars, sweep, conclusive, misread>>
    BY DEF Send, GiveUp, EngineRefuses, Lose
  <1>3. Handlers' /\ task' \in [Tasks -> HandlerState]
    <2>1. CASE Send(t)
      BY <1>1, <2>1, GotoStep DEF Send
    <2>2. CASE GiveUp(t)
      BY <1>1, <2>2, GotoStep DEF GiveUp
    <2>3. CASE EngineRefuses(t)
      BY Zenon, <1>1, <2>3, ReplyStep DEF EngineRefuses
    <2>4. CASE Lose(t)
      BY <1>1, <2>4 DEF Lose, Handlers
    <2> QED
      BY <2>1, <2>2, <2>3, <2>4
  <1>4. net' \subseteq Tasks
    BY DEF Send, GiveUp, EngineRefuses, Lose, IInv, OtherType
  <1>5. DbInv' /\ Final /\ EngineType' /\ Position' /\ UNCHANGED halted
    BY <1>2, QuietStep
  <1>6. OtherType'
    BY <1>2, <1>3, <1>4, <1>5 DEF IInv, OtherType, HandlerState
  <1> QED
    BY <1>3, <1>5, <1>6 DEF IInv

\* A handler acts on an answer.
LEMMA AnswerStep ==
    ASSUME IInv, NEW t \in Tasks, DbInv' /\ Final /\ misread' \in BOOLEAN,
           Return(t) \/ (t[1] # "cancel" /\ Goto(t, "second")),
           UNCHANGED <<settleVars, engineVars, net, sweep, conclusive>>
    PROVE  IInv' /\ Final
  <1>1. task \in [Tasks -> HandlerState] /\ Handlers
    BY OtherTypeParts DEF IInv
  <1>2. Handlers' /\ task' \in [Tasks -> HandlerState]
    BY <1>1, GotoStep
  <1>3. EngineType' /\ Position'
    BY EngineStays DEF IInv, settleVars
  <1>4. OtherType'
    BY <1>2 DEF IInv, OtherType, HandlerState, settleVars
  <1> QED
    BY <1>2, <1>3, <1>4 DEF IInv

\* The rows after an answer.
LEMMA FinalizeOrNot ==
    ASSUME IInv, NEW o \in Orders, NEW from, from \notin TERMINAL, NEW to \in TERMINAL,
           FinalizeUnfilled(o, from, to) \/ UNCHANGED <<dbVars, misread>>
    PROVE  DbInv' /\ Final /\ misread' \in BOOLEAN
  BY FinalizeRows, SameRows DEF IInv, OtherType

\* actOnPlacement.
LEMMA StepPlaceAnswered ==
    ASSUME IInv, NEW o \in Orders, PlaceAnswered(o)
    PROVE  IInv' /\ Final
  <1> DEFINE t == <<"place", o>>
  <1>1. DbInv' /\ Final /\ misread' \in BOOLEAN
    BY FinalizeRows, ResolveRows DEF PlaceAnswered, IInv, OtherType, TERMINAL
  <1>2. t \in Tasks /\ Return(t) /\ UNCHANGED <<settleVars, engineVars, net, sweep, conclusive>>
    BY DEF PlaceAnswered
  <1> QED
    BY <1>1, <1>2, AnswerStep

\* cancel, once answered.
LEMMA StepCancelAnswered ==
    ASSUME IInv, NEW o \in Orders, CancelAnswered(o)
    PROVE  IInv' /\ Final
  <1> DEFINE t == <<"cancel", o>>
  <1>1. t \in Tasks /\ Return(t) /\ UNCHANGED <<settleVars, engineVars, net, sweep, conclusive>>
        /\ task[t].at = "answered"
    BY DEF CancelAnswered
  <1>2. task[t].saw \notin TERMINAL
    BY <1>1 DEF IInv, Handlers
  <1>3. FinalizeUnfilled(o, task[t].saw, "CANCELLED") \/ UNCHANGED <<dbVars, misread>>
    BY DEF CancelAnswered
  <1>4. DbInv' /\ Final /\ misread' \in BOOLEAN
    BY <1>2, <1>3, FinalizeOrNot DEF TERMINAL
  <1> QED
    BY <1>1, <1>4, AnswerStep

\* amend, once answered.
LEMMA StepAmendAnswered ==
    ASSUME IInv, NEW c \in Replacements, AmendAnsweredOld(c) \/ AmendAnsweredNew(c)
    PROVE  IInv' /\ Final
  <1> DEFINE t == <<"amend", c>>
  <1>1. t \in Tasks /\ UNCHANGED <<settleVars, engineVars, net, sweep, conclusive>>
        /\ t[1] # "cancel" /\ c \in Orders /\ Target(t) \in Orders
    BY TaskParts, OrdersAssumption DEF AmendAnsweredOld, AmendAnsweredNew, Replacements
  <1>2. CASE AmendAnsweredOld(c)
    <2>1. \/ task[t].saw \notin TERMINAL /\ FinalizeUnfilled(Target(t), task[t].saw, "CANCELLED")
          \/ UNCHANGED <<dbVars, misread>>
      BY <1>2 DEF AmendAnsweredOld
    <2>2. DbInv' /\ Final /\ misread' \in BOOLEAN
      BY <1>1, <2>1, FinalizeRows, SameRows DEF IInv, OtherType, TERMINAL
    <2>3. Goto(t, "second")
      BY <1>2 DEF AmendAnsweredOld
    <2> QED
      BY <1>1, <2>2, <2>3, AnswerStep
  <1>3. CASE AmendAnsweredNew(c)
    <2>1. \/ FinalizeUnfilled(c, "PENDING_ENGINE", "FAILED")
          \/ FinalizeUnfilled(c, "PENDING_ENGINE", "REJECTED")
          \/ ResolvePending(c, log[Answer(t)])
      BY <1>3 DEF AmendAnsweredNew
    <2>2. DbInv' /\ Final /\ misread' \in BOOLEAN
      BY <1>1, <2>1, FinalizeRows, ResolveRows DEF IInv, OtherType, TERMINAL
    <2>3. Return(t)
      BY <1>3 DEF AmendAnsweredNew
    <2> QED
      BY <1>1, <2>2, <2>3, AnswerStep
  <1> QED
    BY <1>2, <1>3

\* The engine handles a request.
LEMMA StepEngineHandles ==
    ASSUME IInv, NEW t \in Tasks, EngineHandles(t)
    PROVE  IInv' /\ Final
  <1>1. task \in [Tasks -> HandlerState] /\ Handlers
    BY OtherTypeParts DEF IInv
  <1>2. DbInv' /\ Final
    BY SameRows DEF EngineHandles, IInv
  <1>3. EngineType' /\ Position'
    BY EngineStep DEF IInv
  <1>4. Len(log) + 1 \in Nat
    BY DEF IInv, EngineType
  <1>5. Handlers' /\ task' \in [Tasks -> HandlerState]
    BY <1>1, <1>4, ReplyStep DEF EngineHandles
  <1>6. OtherType'
    BY <1>5 DEF EngineHandles, IInv, OtherType, HandlerState, settleVars
  <1> QED
    BY <1>2, <1>3, <1>5, <1>6 DEF IInv

\* Settlement applies an event or halts.
LEMMA StepSettle ==
    ASSUME IInv, Settle
    PROVE  IInv' /\ Final
  <1>1. DbInv' /\ Final /\ (Halt \/ Applied)
    BY SettleRows
  <1>2. UNCHANGED <<engineVars, task, net, sweep, conclusive, misread>> /\ HasNext
    BY DEF Settle
  <1>3. EngineType' /\ Position' /\ halted' \in BOOLEAN
    <2>1. CASE Halt
      BY <1>2, <2>1, EngineStays DEF Halt, IInv
    <2>2. CASE Applied
      <3>1. Position'
        BY <1>2, <2>2, AdvancePosition DEF Applied, IInv, engineVars
      <3> QED
        BY <1>2, <2>2, <3>1 DEF Applied, IInv, EngineType, engineVars, OtherType
    <2> QED
      BY <1>1, <2>1, <2>2
  <1>4. Handlers' /\ OtherType'
    BY <1>2, <1>3 DEF IInv, Handlers, OtherType
  <1> QED
    BY <1>1, <1>3, <1>4 DEF IInv

\* The sweeper takes a step, or an order grows old.
LEMMA StepSweep ==
    ASSUME IInv, NEW o \in Orders,
           Claim(o) \/ Ask(o) \/ Defer(o) \/ SweepResolve(o) \/ SweepFail(o) \/ Age(o)
    PROVE  IInv' /\ Final
  <1>1. sweep' \in [Orders -> {"idle", "ask", "resolve", "fail"}]
    BY DEF Claim, Ask, Defer, SweepResolve, SweepFail, Age, SweepGoto, IInv, OtherType
  <1>2. DbInv' /\ Final /\ misread' \in BOOLEAN
    <2>1. CASE Claim(o) \/ Ask(o) \/ Defer(o) \/ Age(o)
      BY <2>1, SameRows DEF Claim, Ask, Defer, Age, IInv, OtherType
    <2>2. CASE SweepResolve(o)
      BY <2>2, ResolveRows DEF SweepResolve, IInv, OtherType
    <2>3. CASE SweepFail(o)
      BY <2>3, FinalizeRows DEF SweepFail, IInv, OtherType, TERMINAL
    <2> QED
      BY <2>1, <2>2, <2>3
  <1>3. UNCHANGED <<settleVars, engineVars, task>>
    BY DEF Claim, Ask, Defer, SweepResolve, SweepFail, Age
  <1>4. net' \subseteq Tasks /\ conclusive' \subseteq Orders
    BY DEF Claim, Ask, Defer, SweepResolve, SweepFail, Age, IInv, OtherType
  <1>5. EngineType' /\ Position'
    BY <1>3, EngineStays DEF IInv, settleVars
  <1>6. Handlers' /\ OtherType'
    BY <1>1, <1>2, <1>3, <1>4 DEF IInv, Handlers, OtherType, settleVars
  <1> QED
    BY <1>2, <1>5, <1>6 DEF IInv

-----------------------------------------------------------------------------
\* The theorems.

\* The invariant holds initially.
LEMMA InitIInv == Init => IInv
  <1> SUFFICES ASSUME Init PROVE IInv
    OBVIOUS
  <1>1. DbInv
    <2>1. DbType /\ Untouched
      BY DEF Init, DbType, Untouched, Statuses
    <2>2. HoldAgrees
      BY DEF Init, HoldAgrees, TERMINAL, HOLDING
    <2> QED
      BY <2>1, <2>2 DEF DbInv
  <1>2. EngineType /\ Position
    <2>1. <<>> \in Seq(Seq(Events)) /\ Len(<<>>) = 0
      OBVIOUS
    <2> QED
      BY <2>1 DEF Init, EngineType, Position
  <1>3. Idle \in HandlerState
    BY DEF Idle, HandlerState, Stages, Statuses
  <1>4. OtherType
    BY Zenon, <1>3 DEF Init, OtherType, HandlerState
  <1>5. Handlers
    BY DEF Init, Handlers, Idle
  <1> QED
    BY <1>1, <1>2, <1>4, <1>5 DEF IInv

\* Every step keeps the invariant and leaves finished orders alone.
LEMMA NextIInv ==
    ASSUME IInv, [Next]_vars
    PROVE  IInv' /\ Final
  <1>1. CASE UNCHANGED vars
    <2>1. DbInv' /\ Final
      BY <1>1, SameRows DEF vars, IInv
    <2>2. EngineType' /\ Position'
      BY <1>1, EngineStays DEF vars, settleVars, IInv
    <2>3. Handlers' /\ OtherType'
      BY <1>1 DEF vars, settleVars, IInv, Handlers, OtherType
    <2> QED
      BY <2>1, <2>2, <2>3 DEF IInv
  <1>2. CASE Gateway
    BY <1>2, StepPlace, StepCancel, StepPlaceAnswered, StepCancelAnswered, StepAmend,
       StepAmendAnswered, StepMove, StepQuietTask DEF Gateway
  <1>3. CASE Engine
    BY <1>3, StepEngineHandles, StepQuietTask DEF Engine
  <1>4. CASE Settle
    BY <1>4, StepSettle
  <1>5. CASE Sweeper \/ \E o \in Orders : Age(o)
    BY <1>5, StepSweep DEF Sweeper
  <1> QED
    BY <1>1, <1>2, <1>3, <1>4, <1>5 DEF Next

\* The invariant holds always.
LEMMA Invariance == Spec => []IInv
  <1>1. IInv /\ [Next]_vars => IInv'
    BY NextIInv
  <1> QED
    BY InitIInv, <1>1, PTL DEF Spec

\* Every variable keeps its type, for any orders and under every fault.
THEOREM TypeCorrect == Spec => []TypeOK
  <1>1. IInv => TypeOK
    BY DEF IInv, DbInv, DbType, EngineType, Position, OtherType, TypeOK
  <1> QED
    BY Invariance, <1>1, PTL

\* However gateway, sweeper and settlement interleave, an order's status and
\* its hold agree (assertHoldAgrees), even when settlement lags or a handler
\* stalls.
THEOREM HoldAgreesAlways == Spec => []HoldAgrees
  <1>1. IInv => HoldAgrees
    BY DEF IInv, DbInv
  <1> QED
    BY Invariance, <1>1, PTL

\* A finished order is never touched again: no hold is released twice.
THEOREM FinishedStaysAlways == Spec => FinishedStays
  <1>1. IInv /\ [Next]_vars
          => [\A o \in Orders : status[o] \in TERMINAL => UNCHANGED Row(o)]_vars
    BY NextIInv DEF Final
  <1> QED
    BY Invariance, <1>1, PTL DEF Spec, FinishedStays

-----------------------------------------------------------------------------
(* In the browser.                                                           *)

EntrySpec == EntryInit /\ [][EntryNext]_entryVars

\* Every body a draft can have.
OrderBodies == {draftOrder(t, r).body : t \in Typings, r \in References}
AmountBodies == {parseAmount(a).body : a \in Amounts}
DraftBodies == {Nothing} \cup AmountBodies \cup OrderBodies

CallRecord == [id : Nat, body : DraftBodies, attempt : 0 .. 3, press : Nat, wish : Nat]
SentRecord == [id : Nat, body : DraftBodies, press : Nat, wish : Nat]

EntryTypeOK ==
  /\ desk \in [form : Forms, typed : Typings \cup Amounts \cup {Nothing},
               reference : References \cup {NONE},
               intent : [fingerprint : DraftBodies, id : Nat], ids : Nat,
               open : BOOLEAN, call : CallRecord]
  /\ gateway \in [rows : SUBSET SentRecord, fresh : BOOLEAN, resting : BOOLEAN]
  /\ late \in SUBSET CallRecord
  /\ meant \in [presses : Nat, wish : Nat, body : DraftBodies, failed : BOOLEAN,
                told : SUBSET [id : Nat, body : DraftBodies], lost : Nat]
  /\ desk.form = "order" => desk.typed \in Typings \cup {Nothing} /\ desk.reference \in References
  /\ desk.form # "order" => desk.typed \in Amounts \cup {Nothing}

\* The calls that may still reach the gateway, and everything that was sent:
\* the rows it made and the rows those calls would make.
Pending == late \cup ({desk.call} \ {NoCall})
Sent == gateway.rows \cup {rowOf(c) : c \in Pending}

\* Ids are numbered from one, and none is used before it is issued.
SentNumbered ==
  \A u \in Sent : /\ 1 <= u.id /\ u.id <= desk.ids
                  /\ u.press <= meant.presses
                  /\ u.wish <= meant.wish

\* The unique index.
RowsById == \A r, s \in gateway.rows : r.id = s.id => r = s

\* What is sent for one intent has one id.
OneIdPerIntent == \A u, v \in Sent : SameIntent(u, v) => u.id = v.id

\* On the order form an id stands for one body, the fingerprint of the id the
\* form holds.
OneBodyPerId ==
  desk.form = "order" =>
    /\ \A u, v \in Sent : u.id = v.id => u.body = v.body
    /\ \A u \in Sent : u.id = desk.intent.id => u.body = desk.intent.fingerprint

\* While a form that keeps its id waits or has failed, what was sent for the
\* wish carries that id, and the order form's fingerprint is the wish's body.
WishHoldsId ==
  (desk.form \notin SteppedUp /\ (meant.failed \/ desk.call # NoCall)) =>
    /\ \A u \in Sent : u.wish = meant.wish => u.id = desk.intent.id
    /\ desk.form = "order" => desk.intent.fingerprint = meant.body /\ desk.intent.id # 0

IntentIssued ==
  /\ desk.intent.id <= desk.ids
  /\ desk.open => desk.form = "amend" /\ 1 <= desk.intent.id
  /\ desk.call # NoCall => ~meant.failed /\ desk.call.attempt \in 1 .. 3

EntryInv ==
  /\ EntryTypeOK /\ SentNumbered /\ RowsById /\ OneIdPerIntent /\ OneBodyPerId
  /\ WishHoldsId /\ IntentIssued /\ PlacedAsAsked

LEMMA EntryInvMeans == EntryInv => FormsMeanWhatTheySend
  <1> SUFFICES ASSUME EntryInv PROVE FormsMeanWhatTheySend
    OBVIOUS
  <1>1. OneRowPerIntent
    <2> SUFFICES ASSUME NEW r \in gateway.rows, NEW s \in gateway.rows, SameIntent(r, s)
                 PROVE r = s
      BY Zenon DEF OneRowPerIntent
    <2>1. r \in Sent /\ s \in Sent
      BY Zenon DEF Sent
    <2>2. r.id = s.id
      BY <2>1, Zenon DEF EntryInv, OneIdPerIntent
    <2> QED
      BY <2>2, Zenon DEF EntryInv, RowsById
  <1> QED
    BY <1>1, Zenon DEF EntryInv, FormsMeanWhatTheySend

LEMMA NoCallTyped == NoCall \in CallRecord /\ Nothing \in DraftBodies
  <1>1. Nothing \in DraftBodies
    BY Zenon DEF DraftBodies
  <1> QED
    BY <1>1, SMT DEF NoCall, CallRecord

LEMMA EntryInitInv == EntryInit => EntryInv
  <1> SUFFICES ASSUME EntryInit PROVE EntryInv
    OBVIOUS
  <1> USE NoCallTyped
  <1>0. PICK f \in Forms, r \in References :
          /\ f = "order" \/ r = NONE
          /\ desk = [form |-> f, typed |-> Nothing, reference |-> r, intent |-> NoIntent,
                     ids |-> 0, open |-> FALSE, call |-> NoCall]
    BY Zenon DEF EntryInit
  <1>1. PICK fresh \in BOOLEAN : gateway = [rows |-> {}, fresh |-> fresh, resting |-> TRUE]
    BY Zenon DEF EntryInit
  <1>2. /\ late = {}
        /\ meant = [presses |-> 0, wish |-> 0, body |-> Nothing, failed |-> FALSE,
                    told |-> {}, lost |-> 0]
    BY Zenon DEF EntryInit
  <1>3. EntryTypeOK
    <2>1. NoIntent \in [fingerprint : DraftBodies, id : Nat]
      BY SMT DEF NoIntent
    <2>2. gateway \in [rows : SUBSET SentRecord, fresh : BOOLEAN, resting : BOOLEAN]
      BY <1>1, SMT
    <2>3. meant \in [presses : Nat, wish : Nat, body : DraftBodies, failed : BOOLEAN,
                told : SUBSET [id : Nat, body : DraftBodies], lost : Nat]
      BY <1>2, SMT
    <2>4. desk \in [form : Forms, typed : Typings \cup Amounts \cup {Nothing},
               reference : References \cup {NONE},
               intent : [fingerprint : DraftBodies, id : Nat], ids : Nat,
               open : BOOLEAN, call : CallRecord]
      BY <1>0, <2>1, SMT
    <2> QED
      BY <1>0, <1>2, <2>2, <2>3, <2>4, SMT DEF EntryTypeOK
  <1>4. Sent = {}
    BY <1>0, <1>1, <1>2, SMT DEF Sent, Pending
  <1>5. desk.call = NoCall /\ ~meant.failed /\ gateway.rows = {} /\ meant.told = {}
        /\ desk.intent.id = 0 /\ desk.ids = 0 /\ ~desk.open
    BY <1>0, <1>1, <1>2, SMT DEF NoIntent
  <1>6. SentNumbered /\ RowsById /\ OneIdPerIntent /\ OneBodyPerId /\ PlacedAsAsked
    BY <1>4, <1>5, Zenon DEF SentNumbered, RowsById, OneIdPerIntent, OneBodyPerId, PlacedAsAsked
  <1>7. WishHoldsId
    BY <1>5, Zenon DEF WishHoldsId
  <1>8. IntentIssued
    BY <1>5, SMT DEF IntentIssued
  <1> QED
    BY <1>3, <1>6, <1>7, <1>8, Zenon DEF EntryInv

DeskRecord == [form : Forms, typed : Typings \cup Amounts \cup {Nothing},
               reference : References \cup {NONE},
               intent : [fingerprint : DraftBodies, id : Nat], ids : Nat,
               open : BOOLEAN, call : CallRecord]
GatewayRecord == [rows : SUBSET SentRecord, fresh : BOOLEAN, resting : BOOLEAN]
MeantRecord == [presses : Nat, wish : Nat, body : DraftBodies, failed : BOOLEAN,
                told : SUBSET [id : Nat, body : DraftBodies], lost : Nat]

LEMMA DraftedBody == ASSUME EntryTypeOK, drafted.ok PROVE drafted.body \in DraftBodies
  <1>0. desk.typed # Nothing
    BY Zenon DEF drafted
  <1>1. CASE desk.form # "order"
    <2>1. desk.typed \in Amounts
      BY <1>0, <1>1, Zenon DEF EntryTypeOK
    <2>2. drafted = parseAmount(desk.typed)
      BY <1>0, <1>1, Zenon DEF drafted
    <2>3. drafted.body \in AmountBodies
      BY <2>1, <2>2, Zenon DEF AmountBodies
    <2> QED
      BY <2>3, Zenon DEF DraftBodies
  <1>2. CASE desk.form = "order"
    <2>1. desk.typed \in Typings /\ desk.reference \in References
      BY <1>0, <1>2, Zenon DEF EntryTypeOK
    <2>2. drafted = draftOrder(desk.typed, desk.reference)
      BY <1>0, <1>2, Zenon DEF drafted
    <2>3. draftOrder(desk.typed, desk.reference).body \in OrderBodies
      BY <2>1 DEF OrderBodies
    <2>4. drafted.body \in OrderBodies
      BY <2>2, <2>3, Zenon
    <2> QED
      BY <2>4, Zenon DEF DraftBodies
  <1> QED
    BY <1>1, <1>2

LEMMA PendingSent ==
  ASSUME EntryTypeOK, NEW c \in Pending
  PROVE  /\ c \in CallRecord /\ rowOf(c) \in Sent /\ rowOf(c) \in SentRecord
         /\ rowOf(c).id = c.id /\ rowOf(c).body = c.body
         /\ rowOf(c).press = c.press /\ rowOf(c).wish = c.wish
  <1>1. desk.call \in CallRecord /\ late \subseteq CallRecord
    BY SMT DEF EntryTypeOK
  <1>2. c \in CallRecord
    BY <1>1, Zenon DEF Pending
  <1>3. rowOf(c) \in Sent
    BY Zenon DEF Sent
  <1>4. rowOf(c) \in SentRecord
    BY <1>2, SMT DEF rowOf, SentRecord, CallRecord
  <1> QED
    BY <1>2, <1>3, <1>4, Zenon DEF rowOf

LEMMA EntryCreated ==
  ASSUME EntryInv, NEW c \in Pending
  PROVE  /\ created(c) \in GatewayRecord
         /\ created(c).resting = gateway.resting
         /\ gateway.rows \subseteq created(c).rows
         /\ created(c).rows \subseteq gateway.rows \cup {rowOf(c)}
         /\ \A r, s \in created(c).rows : r.id = s.id => r = s
         /\ \E row \in created(c).rows : row.id = c.id
  <1> DEFINE new == IF known(c.id) THEN gateway.rows ELSE gateway.rows \cup {rowOf(c)}
  <1>0. EntryTypeOK /\ RowsById
    BY Zenon DEF EntryInv
  <1>1. gateway \in GatewayRecord
    BY <1>0, Zenon DEF EntryTypeOK, GatewayRecord
  <1>2. /\ created(c).rows = new /\ created(c).resting = gateway.resting
        /\ created(c).fresh = gateway.fresh
        /\ created(c) = [gateway EXCEPT !.rows = new]
    BY <1>1, SMT DEF created, GatewayRecord
  <1>3. rowOf(c) \in SentRecord /\ rowOf(c).id = c.id
    BY <1>0, PendingSent, Zenon
  <1>4. new \in SUBSET SentRecord
    BY <1>1, <1>3, SMT DEF GatewayRecord
  <1>5. created(c) \in GatewayRecord
    BY <1>1, <1>2, <1>4, SMT DEF GatewayRecord
  <1>6. \A r, s \in new : r.id = s.id => r = s
    BY <1>0, <1>3, Zenon DEF RowsById, known
  <1>7. \E row \in new : row.id = c.id
    BY <1>3, Zenon DEF known
  <1>8. gateway.rows \subseteq new /\ new \subseteq gateway.rows \cup {rowOf(c)}
    BY Zenon
  <1> HIDE DEF new
  <1> QED
    BY <1>2, <1>5, <1>6, <1>7, <1>8, Zenon

\* Whatever the answer, the gateway has at most the call's row more, one row
\* per id, and a row with the call's id if the answer is ok.
LEMMA EntryAnswers ==
  ASSUME EntryInv, NEW c \in Pending, NEW o \in outcomes(c)
  PROVE  /\ o.gateway \in GatewayRecord
         /\ gateway.rows \subseteq o.gateway.rows
         /\ o.gateway.rows \subseteq gateway.rows \cup {rowOf(c)}
         /\ \A r, s \in o.gateway.rows : r.id = s.id => r = s
         /\ o.answer = "ok" => \E row \in o.gateway.rows : row.id = c.id
  <1> DEFINE placed == IF desk.form = "amend" /\ ~known(c.id)
                       THEN [created(c) EXCEPT !.resting = FALSE] ELSE created(c)
  <1>0. gateway \in GatewayRecord /\ RowsById
    BY Zenon DEF EntryInv, EntryTypeOK, GatewayRecord
  <1>1. \/ o.gateway = gateway /\ o.answer # "ok"
        \/ o.gateway = placed
    <2> DEFINE stale == desk.form \in SteppedUp /\ ~gateway.fresh
               notResting == desk.form = "amend" /\ ~gateway.resting
               asked == [answer |-> "STEP_UP_REQUIRED", gateway |-> gateway]
               refused == [answer |-> "refused", gateway |-> gateway]
               ok == [answer |-> "ok", gateway |-> placed]
    <2>1. outcomes(c) = CASE stale -> {asked}
                          [] notResting -> {refused}
                          [] OTHER -> {ok} \cup (IF known(c.id) THEN {} ELSE {refused})
      BY Zenon DEF outcomes
    <2>2. asked.gateway = gateway /\ asked.answer # "ok" /\ refused.gateway = gateway
          /\ refused.answer # "ok" /\ ok.gateway = placed
      BY Zenon
    <2> HIDE DEF stale, notResting, asked, refused, ok, placed
    <2>3. o \in {asked, refused, ok}
      BY <2>1, SMT
    <2> QED
      BY <2>2, <2>3, Zenon
  <1>2. placed \in GatewayRecord /\ placed.rows = created(c).rows
    <2>1. created(c) \in GatewayRecord
      BY EntryCreated, Zenon
    <2>2. ASSUME NEW x \in GatewayRecord
          PROVE  [x EXCEPT !.resting = FALSE] \in GatewayRecord
                 /\ [x EXCEPT !.resting = FALSE].rows = x.rows
      BY Zenon DEF GatewayRecord
    <2>3. CASE desk.form = "amend" /\ ~known(c.id)
      <3>1. placed = [created(c) EXCEPT !.resting = FALSE]
        BY <2>3, Zenon
      <3> QED
        BY <2>1, <2>2, <3>1, Zenon
    <2>4. CASE ~(desk.form = "amend" /\ ~known(c.id))
      BY <2>1, <2>4, Zenon
    <2> QED
      BY <2>3, <2>4
  <1> HIDE DEF placed
  <1>3. CASE o.gateway = gateway /\ o.answer # "ok"
    BY <1>0, <1>3, Zenon DEF RowsById
  <1>4. CASE o.gateway = placed
    BY <1>2, <1>4, EntryCreated, Zenon
  <1> QED
    BY <1>1, <1>3, <1>4

\* The gateway asks for a step-up before it looks at the request.
LEMMA EntryAsked ==
  ASSUME NEW c, NEW o \in outcomes(c), o.answer = "STEP_UP_REQUIRED"
  PROVE  o.gateway = gateway
  <1> DEFINE stale == desk.form \in SteppedUp /\ ~gateway.fresh
             notResting == desk.form = "amend" /\ ~gateway.resting
             placed == IF desk.form = "amend" /\ ~known(c.id)
                       THEN [created(c) EXCEPT !.resting = FALSE] ELSE created(c)
             asked == [answer |-> "STEP_UP_REQUIRED", gateway |-> gateway]
             refused == [answer |-> "refused", gateway |-> gateway]
             ok == [answer |-> "ok", gateway |-> placed]
  <1>1. outcomes(c) = CASE stale -> {asked}
                        [] notResting -> {refused}
                        [] OTHER -> {ok} \cup (IF known(c.id) THEN {} ELSE {refused})
    BY Zenon DEF outcomes
  <1>2. asked.gateway = gateway /\ refused.gateway = gateway /\ ok.answer # "STEP_UP_REQUIRED"
    BY Zenon
  <1> HIDE DEF stale, notResting, placed, asked, refused, ok
  <1>3. o \in {asked, refused, ok}
    BY <1>1, SMT
  <1> QED
    BY <1>2, <1>3, Zenon

\* A step that sends nothing new and leaves what is meant alone.
LEMMA EntryKeeps ==
  ASSUME EntryInv, EntryTypeOK',
         desk'.form = desk.form, desk'.ids >= desk.ids,
         \/ desk'.intent = desk.intent
         \/ desk'.intent.id = 0
         \/ desk.form # "order",
         meant'.presses = meant.presses, meant'.wish = meant.wish, meant'.body = meant.body,
         Sent' \subseteq Sent,
         \/ /\ desk'.intent = desk.intent
            /\ meant.failed \/ desk.call # NoCall
         \/ ~meant'.failed /\ desk'.call = NoCall
  PROVE  SentNumbered' /\ OneIdPerIntent' /\ OneBodyPerId' /\ WishHoldsId'
  <1>0. EntryTypeOK /\ SentNumbered /\ OneIdPerIntent /\ OneBodyPerId /\ WishHoldsId
    BY Zenon DEF EntryInv
  <1>1. desk.ids \in Nat /\ desk'.ids \in Nat /\ Sent \subseteq SentRecord
    <2>1. desk.ids \in Nat /\ desk'.ids \in Nat
      BY <1>0, SMT DEF EntryTypeOK
    <2>2. \A c \in Pending : rowOf(c) \in SentRecord
      BY <1>0, PendingSent, Zenon
    <2>3. gateway.rows \subseteq SentRecord
      BY <1>0, SMT DEF EntryTypeOK
    <2> QED
      BY <2>1, <2>2, <2>3, Zenon DEF Sent
  <1>2. SentNumbered'
    <2> SUFFICES ASSUME NEW u \in Sent'
                 PROVE  /\ 1 <= u.id /\ u.id <= desk'.ids
                        /\ u.press <= meant'.presses
                        /\ u.wish <= meant'.wish
      BY Zenon DEF SentNumbered
    <2>1. u \in Sent /\ u \in SentRecord
      BY <1>1, Zenon
    <2>2. /\ 1 <= u.id /\ u.id <= desk.ids
          /\ u.press <= meant.presses
          /\ u.wish <= meant.wish
      BY <1>0, <2>1, Zenon DEF SentNumbered
    <2>3. u.id \in Nat
      BY <2>1, SMT DEF SentRecord
    <2>4. u.id <= desk'.ids
      BY <2>2, <2>3, <1>1, SMT
    <2> QED
      BY <2>2, <2>4, Zenon
  <1>3. OneIdPerIntent'
    BY <1>0, Zenon DEF OneIdPerIntent, SameIntent
  <1>4. OneBodyPerId'
    <2> SUFFICES ASSUME desk.form = "order"
                 PROVE  /\ \A u, v \in Sent' : u.id = v.id => u.body = v.body
                        /\ \A u \in Sent' : u.id = desk'.intent.id
                                              => u.body = desk'.intent.fingerprint
      BY Zenon DEF OneBodyPerId
    <2>1. \A u \in Sent : u.id # 0
      BY <1>0, SMT DEF SentNumbered
    <2> QED
      BY <1>0, <2>1, Zenon DEF OneBodyPerId
  <1>5. WishHoldsId'
    BY <1>0, Zenon DEF WishHoldsId
  <1> QED
    BY <1>2, <1>3, <1>4, <1>5

\* One press: what it sends is new, or is what was sent for the same wish.
LEMMA EntryPress ==
  ASSUME EntryInv, NEW body \in DraftBodies, NEW intent \in [fingerprint : DraftBodies, id : Nat],
         press(body, intent),
         desk.form \in SteppedUp => intent.id = desk.ids + 1,
         desk.form = "order" => intent = orderIntent(body),
         desk.form = "amend" => intent = desk.intent /\ desk.open
  PROVE  EntryInv'
  <1> DEFINE wish == IF sameWish(body) THEN meant.wish ELSE meant.wish + 1
             call == [id |-> intent.id, body |-> body, attempt |-> 1,
                      press |-> meant.presses + 1, wish |-> wish]
             ids == IF intent.id > desk.ids THEN intent.id ELSE desk.ids
  <1>0. /\ EntryTypeOK /\ SentNumbered /\ RowsById /\ OneIdPerIntent /\ OneBodyPerId
        /\ WishHoldsId /\ IntentIssued /\ PlacedAsAsked
    BY Zenon DEF EntryInv
  <1>1. /\ desk.call = NoCall
        /\ desk' = [desk EXCEPT !.intent = intent, !.ids = ids, !.call = call]
        /\ meant' = [meant EXCEPT !.presses = meant.presses + 1, !.wish = wish,
                                  !.body = body, !.failed = FALSE]
        /\ gateway' = gateway /\ late' = late
    <2>1. desk \in DeskRecord /\ meant \in MeantRecord
      BY <1>0, Zenon DEF EntryTypeOK, DeskRecord, MeantRecord
    <2> QED
      BY <2>1, Zenon DEF press, DeskRecord, MeantRecord
  <1>2. wish \in Nat /\ call \in CallRecord /\ ids \in Nat /\ call # NoCall
        /\ desk.ids \in Nat /\ desk.ids <= ids /\ intent.id <= ids
    <2>1. /\ meant.presses \in Nat /\ meant.wish \in Nat /\ desk.ids \in Nat /\ intent.id \in Nat
      BY <1>0, SMT DEF EntryTypeOK
    <2>2. wish \in Nat
      BY <2>1, SMT
    <2> HIDE DEF wish
    <2>3. call \in CallRecord
      BY <2>1, <2>2, SMT DEF CallRecord
    <2>4. call.attempt = 1 /\ NoCall.attempt = 0
      BY SMT DEF NoCall
    <2> HIDE DEF call
    <2>5. call # NoCall
      BY <2>4, SMT
    <2> QED
      BY <2>1, <2>2, <2>3, <2>5, SMT
  <1> HIDE DEF wish, call, ids
  <1>3. /\ desk'.form = desk.form /\ desk'.typed = desk.typed /\ desk'.open = desk.open
        /\ desk'.reference = desk.reference
        /\ desk'.intent = intent /\ desk'.ids = ids /\ desk'.call = call
        /\ meant'.presses = meant.presses + 1 /\ meant'.wish = wish /\ meant'.body = body
        /\ meant'.failed = FALSE /\ meant'.told = meant.told
    BY <1>0, <1>1, SMT DEF EntryTypeOK
  <1>4. EntryTypeOK'
    <2>0. desk \in DeskRecord /\ meant \in MeantRecord
      BY <1>0, Zenon DEF EntryTypeOK, DeskRecord, MeantRecord
    <2>1. desk' \in DeskRecord
      BY <1>1, <1>2, <2>0, Zenon DEF DeskRecord
    <2>2. meant' \in MeantRecord
      <3>1. meant.presses + 1 \in Nat /\ FALSE \in BOOLEAN
        BY <2>0, SMT DEF MeantRecord
      <3> QED
        BY <1>1, <1>2, <2>0, <3>1, Zenon DEF MeantRecord
    <2> QED
      BY <1>0, <1>1, <1>3, <2>1, <2>2, Zenon DEF EntryTypeOK, DeskRecord, MeantRecord
  <1> DEFINE new == rowOf(call)
  <1>5. /\ new \in SentRecord /\ new.id = intent.id /\ new.body = body
        /\ new.press = meant.presses + 1 /\ new.wish = wish
    BY <1>2, SMT DEF rowOf, call, SentRecord, CallRecord
  <1>6. Sent' = Sent \cup {new}
    <2>1. Pending' = Pending \cup {call}
      BY <1>1, <1>2, <1>3, Zenon DEF Pending
    <2> QED
      BY <1>1, <2>1, Zenon DEF Sent
  <1> HIDE DEF new
  <1>7. \A u \in Sent : u \in SentRecord
    <2>1. \A c \in Pending : rowOf(c) \in SentRecord
      BY <1>0, PendingSent, Zenon
    <2>2. gateway.rows \subseteq SentRecord
      BY <1>0, SMT DEF EntryTypeOK
    <2> QED
      BY <2>1, <2>2, Zenon DEF Sent
  <1>8. /\ meant.presses \in Nat /\ meant.wish \in Nat
        /\ wish = IF sameWish(body) THEN meant.wish ELSE meant.wish + 1
        /\ meant.wish <= wish /\ intent.id >= 1
    <2>1. /\ meant.presses \in Nat /\ meant.wish \in Nat /\ desk.ids \in Nat /\ intent.id \in Nat
          /\ desk.form \in Forms
      BY <1>0, SMT DEF EntryTypeOK
    <2>2. CASE desk.form \in SteppedUp
      BY <2>1, <2>2, SMT DEF wish
    <2>3. CASE desk.form = "order"
      <3>1. intent.id # 0
        BY <2>1, <2>3, SMT DEF orderIntent
      <3> QED
        BY <2>1, <3>1, SMT DEF wish
    <2>4. CASE desk.form = "amend"
      <3>1. 1 <= intent.id
        BY <1>0, <2>4, Zenon DEF IntentIssued
      <3> QED
        BY <2>1, <3>1, SMT DEF wish
    <2> QED
      BY <2>1, <2>2, <2>3, <2>4, Zenon DEF Forms, SteppedUp
  <1>9. SentNumbered'
    <2> SUFFICES ASSUME NEW u \in Sent'
                 PROVE  /\ 1 <= u.id /\ u.id <= desk'.ids
                        /\ u.press <= meant'.presses
                        /\ u.wish <= meant'.wish
      BY Zenon DEF SentNumbered
    <2>1. CASE u = new
      BY <1>2, <1>3, <1>5, <1>8, <2>1, SMT
    <2>2. CASE u \in Sent
      <3>1. u.id \in Nat /\ u.press \in Nat /\ u.wish \in Nat
        BY <1>7, <2>2, SMT DEF SentRecord
      <3>2. /\ 1 <= u.id /\ u.id <= desk.ids
            /\ u.press <= meant.presses
            /\ u.wish <= meant.wish
        BY <1>0, <2>2, Zenon DEF SentNumbered
      <3> QED
        BY <1>2, <1>3, <1>8, <3>1, <3>2, SMT
    <2> QED
      BY <1>6, <2>1, <2>2, Zenon
  \* What was sent for this intent has its id.
  <1>10. ASSUME NEW u \in Sent, SameIntent(u, new) PROVE u.id = intent.id
    <2>1. /\ u.press \in Nat /\ u.wish \in Nat /\ u.press <= meant.presses
          /\ u.wish <= meant.wish
      BY <1>0, <1>7, SMT DEF SentNumbered, SentRecord
    <2>2. desk.form \notin SteppedUp
      <3>1. u.press # new.press
        BY <1>5, <1>8, <2>1, SMT
      <3> QED
        BY <1>10, <3>1, Zenon DEF SameIntent
    <2>3. u.wish = wish
      BY <1>5, <1>10, <2>2, Zenon DEF SameIntent
    <2>4. sameWish(body) /\ wish = meant.wish
      BY <1>8, <2>1, <2>3, SMT
    <2>5. u.id = desk.intent.id
      BY <1>0, <2>2, <2>3, <2>4, Zenon DEF sameWish, WishHoldsId
    <2>6. CASE desk.form = "amend"
      BY <2>5, <2>6, Zenon
    <2>7. CASE desk.form = "order"
      <3>1. "order" # "amend"
        BY SMT
      <3>2. meant.failed /\ meant.body = body
        BY <2>4, <2>7, <3>1, Zenon DEF sameWish
      <3>3. desk.intent.id # 0 /\ desk.intent.fingerprint = body
        BY <1>0, <2>2, <2>7, <3>2, Zenon DEF WishHoldsId
      <3> QED
        BY <2>5, <2>7, <3>3, Zenon DEF orderIntent
    <2>8. desk.form \in Forms
      BY <1>0, SMT DEF EntryTypeOK
    <2> QED
      BY <2>2, <2>6, <2>7, <2>8, Zenon DEF Forms, SteppedUp
  <1>11. OneIdPerIntent'
    <2> SUFFICES ASSUME NEW u \in Sent', NEW v \in Sent', SameIntent(u, v)
                 PROVE  u.id = v.id
      BY <1>3, Zenon DEF OneIdPerIntent, SameIntent
    <2>1. SameIntent(v, u)
      BY Zenon DEF SameIntent
    <2> QED
      BY <1>0, <1>5, <1>6, <1>10, <2>1, Zenon DEF OneIdPerIntent
  <1>12. desk.form = "order" => /\ intent.fingerprint = body
                                /\ intent = desk.intent \/ intent.id = desk.ids + 1
    <2> SUFFICES ASSUME desk.form = "order"
                 PROVE  /\ intent.fingerprint = body
                        /\ intent = desk.intent \/ intent.id = desk.ids + 1
      OBVIOUS
    <2>1. CASE desk.intent.id # 0 /\ desk.intent.fingerprint = body
      <3>1. intent = desk.intent
        BY <2>1, Zenon DEF orderIntent
      <3> QED
        BY <2>1, <3>1, Zenon
    <2>2. CASE ~(desk.intent.id # 0 /\ desk.intent.fingerprint = body)
      <3>1. intent = [fingerprint |-> body, id |-> desk.ids + 1]
        BY <2>2, Zenon DEF orderIntent
      <3> QED
        BY <3>1, Zenon
    <2> QED
      BY <2>1, <2>2
  <1>13. OneBodyPerId'
    <2> SUFFICES ASSUME desk.form = "order"
                 PROVE  /\ \A u, v \in Sent' : u.id = v.id => u.body = v.body
                        /\ \A u \in Sent' : u.id = intent.id => u.body = intent.fingerprint
      BY <1>3, Zenon DEF OneBodyPerId
    <2>1. intent.fingerprint = body
      BY <1>12, Zenon
    <2>2. ASSUME NEW u \in Sent, u.id = intent.id PROVE u.body = body
      <3>1. CASE intent = desk.intent
        BY <1>0, <2>1, <2>2, <3>1, Zenon DEF OneBodyPerId
      <3>2. CASE intent.id = desk.ids + 1
        BY <1>0, <1>2, <1>7, <2>2, <3>2, SMT DEF SentNumbered, SentRecord
      <3> QED
        BY <1>12, <3>1, <3>2, Zenon
    <2>3. \A u \in Sent' : u.id = intent.id => u.body = body
      BY <1>5, <1>6, <2>2, Zenon
    <2>4. ASSUME NEW u \in Sent', NEW v \in Sent', u.id = v.id PROVE u.body = v.body
      <3>1. CASE u = new \/ v = new
        BY <1>5, <2>3, <2>4, <3>1, Zenon
      <3>2. CASE u \in Sent /\ v \in Sent
        BY <1>0, <2>4, <3>2, Zenon DEF OneBodyPerId
      <3> QED
        BY <1>6, <3>1, <3>2, Zenon
    <2> QED
      BY <2>1, <2>3, <2>4, Zenon
  <1>14. WishHoldsId'
    <2>1. ASSUME desk.form \notin SteppedUp, NEW u \in Sent', u.wish = wish
          PROVE  u.id = intent.id
      BY <1>5, <1>6, <1>10, <2>1, Zenon DEF SameIntent
    <2>2. intent.id # 0
      BY <1>8, SMT
    <2>3. desk.form = "order" => intent.fingerprint = body
      BY <1>12, Zenon
    <2> QED
      BY <1>3, <2>1, <2>2, <2>3, Zenon DEF WishHoldsId
  <1>15. IntentIssued'
    <2>1. call.attempt \in 1 .. 3
      BY SMT DEF call
    <2> QED
      BY <1>0, <1>2, <1>3, <1>8, <2>1, SMT DEF IntentIssued
  <1>16. RowsById' /\ PlacedAsAsked'
    BY <1>0, <1>1, <1>3, Zenon DEF RowsById, PlacedAsAsked
  <1> QED
    BY <1>4, <1>9, <1>11, <1>13, <1>14, <1>15, <1>16, Zenon DEF EntryInv

\* A step that leaves the gateway's rows and what the person was told alone.
LEMMA EntryRowsKept ==
  ASSUME EntryInv, gateway'.rows = gateway.rows, meant'.told = meant.told,
         desk'.form = desk.form
  PROVE  RowsById' /\ PlacedAsAsked'
  BY Zenon DEF EntryInv, RowsById, PlacedAsAsked

\* An answer that does not reach the screen, or is not ok.
LEMMA EntryRowsGrow ==
  ASSUME EntryInv, NEW c \in Pending, gateway.rows \subseteq gateway'.rows,
         \A r, s \in gateway'.rows : r.id = s.id => r = s,
         meant'.told = meant.told, desk'.form = desk.form
  PROVE  RowsById' /\ PlacedAsAsked'
  BY Zenon DEF EntryInv, RowsById, PlacedAsAsked

\* Nothing is sent that was not pending.
LEMMA EntrySentShrinks ==
  ASSUME NEW c \in Pending,
         gateway'.rows \subseteq gateway.rows \cup {rowOf(c)},
         \A d \in Pending' : \E e \in Pending : rowOf(d) = rowOf(e)
  PROVE  Sent' \subseteq Sent
  BY Zenon DEF Sent

\* A step that changes only what is typed, the reference or the assertion.
LEMMA EntryQuiet ==
  ASSUME EntryInv,
         desk' \in DeskRecord, gateway' \in GatewayRecord, late' = late, meant' = meant,
         desk'.form = desk.form, desk'.ids = desk.ids, desk'.intent = desk.intent,
         desk'.call = desk.call, desk'.open = desk.open, gateway'.rows = gateway.rows,
         desk.form = "order" =>
           desk'.typed \in Typings \cup {Nothing} /\ desk'.reference \in References,
         desk.form # "order" => desk'.typed \in Amounts \cup {Nothing}
  PROVE  EntryInv'
  <1>0. /\ EntryTypeOK /\ SentNumbered /\ RowsById /\ OneIdPerIntent /\ OneBodyPerId
        /\ WishHoldsId /\ IntentIssued /\ PlacedAsAsked
    BY Zenon DEF EntryInv
  <1>1. EntryTypeOK'
    BY <1>0, Zenon DEF EntryTypeOK, DeskRecord, GatewayRecord
  <1>2. Sent' = Sent
    BY Zenon DEF Sent, Pending
  <1>3. SentNumbered' /\ RowsById' /\ OneIdPerIntent' /\ OneBodyPerId'
    BY <1>0, <1>2, Zenon DEF SentNumbered, RowsById, OneIdPerIntent, OneBodyPerId, SameIntent
  <1>4. WishHoldsId' /\ IntentIssued' /\ PlacedAsAsked'
    BY <1>0, <1>2, Zenon DEF WishHoldsId, IntentIssued, PlacedAsAsked
  <1> QED
    BY <1>1, <1>3, <1>4, Zenon DEF EntryInv

\* The call is over and the form was told that it failed; what it asked for
\* may have been done, or may still be.
LEMMA EntryFails ==
  ASSUME EntryInv, desk.call # NoCall, desk' = [desk EXCEPT !.call = NoCall],
         meant' \in MeantRecord, meant'.presses = meant.presses, meant'.wish = meant.wish,
         meant'.body = meant.body, meant'.failed = TRUE, meant'.told = meant.told,
         gateway' \in GatewayRecord, gateway.rows \subseteq gateway'.rows,
         gateway'.rows \subseteq gateway.rows \cup {rowOf(desk.call)},
         \A r, s \in gateway'.rows : r.id = s.id => r = s,
         late' = late \/ late' = late \cup {desk.call}
  PROVE  EntryInv'
  <1> USE NoCallTyped
  <1>0. EntryTypeOK /\ IntentIssued
    BY Zenon DEF EntryInv
  <1>1. desk \in DeskRecord /\ late \in SUBSET CallRecord
    BY <1>0, Zenon DEF EntryTypeOK, DeskRecord
  <1>2. /\ desk'.form = desk.form /\ desk'.ids = desk.ids /\ desk'.intent = desk.intent
        /\ desk'.call = NoCall /\ desk'.open = desk.open /\ desk'.typed = desk.typed
        /\ desk'.reference = desk.reference /\ desk' \in DeskRecord
    BY <1>1, Zenon DEF DeskRecord
  <1>3. late' \in SUBSET CallRecord
    BY <1>1, Zenon DEF DeskRecord
  <1>4. EntryTypeOK'
    BY <1>0, <1>2, <1>3, Zenon DEF EntryTypeOK, DeskRecord, GatewayRecord, MeantRecord
  <1>5. desk.call \in Pending /\ Pending' \subseteq Pending
    BY <1>2, Zenon DEF Pending
  <1>6. Sent' \subseteq Sent
    BY <1>5, Zenon DEF Sent
  <1>7. desk.ids >= desk.ids
    BY <1>1, SMT DEF DeskRecord
  <1>8. SentNumbered' /\ OneIdPerIntent' /\ OneBodyPerId' /\ WishHoldsId'
    BY <1>2, <1>4, <1>6, <1>7, EntryKeeps, Zenon
  <1>9. IntentIssued'
    BY <1>0, <1>2, Zenon DEF IntentIssued
  <1>10. RowsById' /\ PlacedAsAsked'
    BY <1>2, <1>5, EntryRowsGrow, Zenon
  <1> QED
    BY <1>4, <1>8, <1>9, <1>10, Zenon DEF EntryInv

\* The call waits for a step-up, or is made again after it.
LEMMA EntryRetries ==
  ASSUME EntryInv, desk.call # NoCall, NEW n \in {2, 3},
         desk' = [desk EXCEPT !.call.attempt = n], meant' = meant, late' = late,
         gateway' \in GatewayRecord, gateway'.rows = gateway.rows
  PROVE  EntryInv'
  <1> USE NoCallTyped
  <1> DEFINE again == [desk.call EXCEPT !.attempt = n]
  <1>0. EntryTypeOK /\ IntentIssued
    BY Zenon DEF EntryInv
  <1>1. desk \in DeskRecord /\ desk.call \in CallRecord
    BY <1>0, Zenon DEF EntryTypeOK, DeskRecord
  <1>2. n \in 0 .. 3 /\ n \in 1 .. 3 /\ n # 0 /\ desk.ids >= desk.ids
    BY <1>1, SMT DEF DeskRecord
  <1>3. again \in CallRecord /\ again.attempt = n /\ rowOf(again) = rowOf(desk.call)
    BY <1>1, <1>2, Zenon DEF CallRecord, rowOf
  <1>4. again # NoCall
    BY <1>2, <1>3, Zenon DEF NoCall
  <1>5. desk' = [desk EXCEPT !.call = again]
    BY <1>1, Zenon DEF DeskRecord
  <1> HIDE DEF again
  <1>6. /\ desk'.form = desk.form /\ desk'.ids = desk.ids /\ desk'.intent = desk.intent
        /\ desk'.call = again /\ desk'.open = desk.open /\ desk'.typed = desk.typed
        /\ desk'.reference = desk.reference /\ desk' \in DeskRecord
    BY <1>1, <1>3, <1>5, Zenon DEF DeskRecord
  <1>7. EntryTypeOK'
    BY <1>0, <1>6, Zenon DEF EntryTypeOK, DeskRecord, GatewayRecord
  <1>8. Sent' \subseteq Sent
    <2>1. desk.call \in Pending
      BY Zenon DEF Pending
    <2>2. ASSUME NEW d \in Pending' PROVE \E e \in Pending : rowOf(d) = rowOf(e)
      <3>1. d = again \/ d \in Pending
        BY <1>6, Zenon DEF Pending
      <3> QED
        BY <1>3, <2>1, <3>1, Zenon
    <2> QED
      BY <2>1, <2>2, EntrySentShrinks, Zenon
  <1>9. SentNumbered' /\ OneIdPerIntent' /\ OneBodyPerId' /\ WishHoldsId'
    BY <1>2, <1>6, <1>7, <1>8, EntryKeeps, Zenon
  <1>10. IntentIssued'
    BY <1>0, <1>2, <1>3, <1>6, Zenon DEF IntentIssued
  <1>11. RowsById' /\ PlacedAsAsked'
    BY <1>6, EntryRowsKept, Zenon
  <1> QED
    BY <1>7, <1>9, <1>10, <1>11, Zenon DEF EntryInv

\* The form is told that it succeeded: there is a row with the call's id, and
\* on the order form it has the call's body.
LEMMA EntrySucceeds ==
  ASSUME EntryInv, desk.call # NoCall, succeeded,
         gateway' \in GatewayRecord, gateway.rows \subseteq gateway'.rows,
         gateway'.rows \subseteq gateway.rows \cup {rowOf(desk.call)},
         \A r, s \in gateway'.rows : r.id = s.id => r = s,
         \E row \in gateway'.rows : row.id = desk.call.id,
         late' = late
  PROVE  EntryInv'
  <1> USE NoCallTyped
  <1>0. EntryTypeOK /\ IntentIssued /\ OneBodyPerId /\ PlacedAsAsked
    BY Zenon DEF EntryInv
  <1>1. desk \in DeskRecord /\ late \in SUBSET CallRecord /\ meant \in MeantRecord
        /\ desk.call \in CallRecord
    BY <1>0, Zenon DEF EntryTypeOK, DeskRecord, MeantRecord
  <1> DEFINE intent == IF desk.form = "order" THEN NoIntent ELSE desk.intent
             open == IF desk.form = "amend" THEN FALSE ELSE desk.open
  <1>2. /\ desk' = [desk EXCEPT !.call = NoCall, !.typed = Nothing, !.intent = intent,
                                !.open = open]
        /\ meant' = [meant EXCEPT !.told = meant.told \cup {told(desk.call)}]
    BY <1>1, Zenon DEF succeeded, DeskRecord, MeantRecord
  <1>3. intent \in [fingerprint : DraftBodies, id : Nat] /\ open \in BOOLEAN
        /\ NoIntent.id = 0 /\ (open => desk.open)
    <2>1. 0 \in Nat
      BY SMT
    <2>2. NoIntent \in [fingerprint : DraftBodies, id : Nat] /\ NoIntent.id = 0
      BY <2>1, Zenon DEF NoIntent
    <2> QED
      BY <1>1, <2>2, Zenon DEF DeskRecord
  <1>4. /\ desk'.form = desk.form /\ desk'.ids = desk.ids /\ desk'.intent = intent
        /\ desk'.call = NoCall /\ desk'.open = open /\ desk'.typed = Nothing
        /\ desk'.reference = desk.reference /\ desk' \in DeskRecord
    BY <1>1, <1>2, <1>3, Zenon DEF DeskRecord
  <1>5. told(desk.call) \in [id : Nat, body : DraftBodies]
        /\ told(desk.call).id = desk.call.id /\ told(desk.call).body = desk.call.body
    BY <1>1, Zenon DEF told, CallRecord
  <1>6. /\ meant'.presses = meant.presses /\ meant'.wish = meant.wish
        /\ meant'.body = meant.body /\ meant'.failed = meant.failed
        /\ meant'.told = meant.told \cup {told(desk.call)} /\ meant' \in MeantRecord
    BY <1>1, <1>2, <1>5, Zenon DEF MeantRecord
  <1>7. EntryTypeOK'
    BY <1>0, <1>1, <1>4, <1>6, Zenon DEF EntryTypeOK, DeskRecord, GatewayRecord, MeantRecord
  <1>8. desk.call \in Pending /\ Pending' \subseteq Pending
    BY <1>4, Zenon DEF Pending
  <1>9. Sent' \subseteq Sent
    BY <1>8, Zenon DEF Sent
  <1>10. desk.ids >= desk.ids /\ desk.intent.id \in Nat /\ desk.ids \in Nat
    BY <1>1, SMT DEF DeskRecord
  <1>11. ~meant.failed
    BY <1>0, Zenon DEF IntentIssued
  <1>12. SentNumbered' /\ OneIdPerIntent' /\ OneBodyPerId' /\ WishHoldsId'
    BY <1>3, <1>4, <1>6, <1>7, <1>9, <1>10, <1>11, EntryKeeps, Zenon
  <1>13. IntentIssued'
    <2>1. intent.id <= desk.ids
      <3>1. desk.intent.id <= desk.ids
        BY <1>0, Zenon DEF IntentIssued
      <3> QED
        BY <1>3, <1>10, <3>1, SMT
    <2>2. open => desk.form = "amend" /\ 1 <= intent.id
      BY <1>0, <1>3, Zenon DEF IntentIssued
    <2> QED
      BY <1>4, <2>1, <2>2, Zenon DEF IntentIssued
  <1>14. RowsById'
    BY Zenon DEF RowsById
  <1>15. PlacedAsAsked'
    <2> SUFFICES ASSUME desk.form = "order", NEW t \in meant'.told
                 PROVE  \E row \in gateway'.rows : row.id = t.id /\ row.body = t.body
      BY <1>4, Zenon DEF PlacedAsAsked
    <2>1. CASE t \in meant.told
      BY <1>0, <2>1, Zenon DEF PlacedAsAsked
    <2>2. CASE t = told(desk.call)
      <3>1. PICK row \in gateway'.rows : row.id = desk.call.id
        OBVIOUS
      <3>2. row \in Sent
        BY <1>9, Zenon DEF Sent
      <3>3. rowOf(desk.call) \in Sent /\ rowOf(desk.call).id = desk.call.id
            /\ rowOf(desk.call).body = desk.call.body
        BY <1>0, <1>8, PendingSent, Zenon
      <3>4. row.body = desk.call.body
        BY <1>0, <3>1, <3>2, <3>3, Zenon DEF OneBodyPerId
      <3> QED
        BY <1>5, <2>2, <3>1, <3>4, Zenon
    <2> QED
      BY <1>6, <2>1, <2>2, Zenon
  <1> QED
    BY <1>7, <1>12, <1>13, <1>14, <1>15, Zenon DEF EntryInv

LEMMA EntryStep == EntryInv /\ [EntryNext]_entryVars => EntryInv'
  <1> SUFFICES ASSUME EntryInv, [EntryNext]_entryVars PROVE EntryInv'
    OBVIOUS
  <1> USE NoCallTyped
  <1>0. /\ EntryTypeOK /\ SentNumbered /\ RowsById /\ OneIdPerIntent /\ OneBodyPerId
        /\ WishHoldsId /\ IntentIssued /\ PlacedAsAsked
    BY Zenon DEF EntryInv
  <1>t. desk \in DeskRecord /\ gateway \in GatewayRecord /\ late \in SUBSET CallRecord
        /\ meant \in MeantRecord
    BY <1>0, Zenon DEF EntryTypeOK, DeskRecord, GatewayRecord, MeantRecord
  <1>1. CASE typeIn
    <2>1. PICK t \in Typings \cup Amounts : /\ desk.form = "order" => t \in Typings
                                            /\ desk.form # "order" => t \in Amounts
                                            /\ desk' = [desk EXCEPT !.typed = t]
      BY <1>1, Zenon DEF typeIn
    <2>2. /\ desk'.form = desk.form /\ desk'.ids = desk.ids /\ desk'.intent = desk.intent
          /\ desk'.call = desk.call /\ desk'.open = desk.open /\ desk'.typed = t
          /\ desk'.reference = desk.reference /\ desk' \in DeskRecord
          /\ gateway' = gateway /\ late' = late /\ meant' = meant
      BY <1>1, <1>t, <2>1, Zenon DEF typeIn, DeskRecord
    <2>3. /\ desk.form = "order" => desk'.typed \in Typings \cup {Nothing}
                                     /\ desk'.reference \in References
          /\ desk.form # "order" => desk'.typed \in Amounts \cup {Nothing}
      BY <1>0, <2>1, <2>2, Zenon DEF EntryTypeOK
    <2> QED
      BY <1>t, <2>2, <2>3, EntryQuiet, Zenon
  <1>2. CASE referenceMoves
    <2>1. PICK r \in References : desk' = [desk EXCEPT !.reference = r]
      BY <1>2, Zenon DEF referenceMoves
    <2>2. /\ desk'.form = desk.form /\ desk'.ids = desk.ids /\ desk'.intent = desk.intent
          /\ desk'.call = desk.call /\ desk'.open = desk.open /\ desk'.typed = desk.typed
          /\ desk'.reference = r /\ desk' \in DeskRecord
          /\ gateway' = gateway /\ late' = late /\ meant' = meant
      BY <1>2, <1>t, <2>1, Zenon DEF referenceMoves, DeskRecord
    <2>3. /\ desk.form = "order" => desk'.typed \in Typings \cup {Nothing}
                                     /\ desk'.reference \in References
          /\ desk.form # "order" => desk'.typed \in Amounts \cup {Nothing}
      BY <1>0, <2>1, <2>2, Zenon DEF EntryTypeOK
    <2> QED
      BY <1>t, <2>2, <2>3, EntryQuiet, Zenon
  <1>3. CASE openDialog
    <2> DEFINE intent == [fingerprint |-> Nothing, id |-> desk.ids + 1]
    <2>1. desk.ids \in Nat /\ desk.ids + 1 \in Nat /\ desk.ids + 1 >= desk.ids
          /\ 1 <= desk.ids + 1 /\ desk.ids + 1 <= desk.ids + 1
      BY <1>t, SMT DEF DeskRecord
    <2>2. intent \in [fingerprint : DraftBodies, id : Nat] /\ intent.id = desk.ids + 1
      BY <2>1, Zenon
    <2>3. /\ desk.form = "amend"
          /\ desk' = [desk EXCEPT !.open = TRUE, !.typed = Nothing, !.call = NoCall,
                                  !.intent = intent, !.ids = desk.ids + 1]
          /\ meant' = [meant EXCEPT !.failed = FALSE]
          /\ gateway' = gateway /\ late' = late
      BY <1>3, <1>t, Zenon DEF openDialog, DeskRecord
    <2> HIDE DEF intent
    <2>4. /\ desk'.form = desk.form /\ desk'.ids = desk.ids + 1 /\ desk'.intent = intent
          /\ desk'.call = NoCall /\ desk'.open = TRUE /\ desk'.typed = Nothing
          /\ desk' \in DeskRecord
      BY <1>t, <2>1, <2>2, <2>3, Zenon DEF DeskRecord
    <2>5. /\ meant'.presses = meant.presses /\ meant'.wish = meant.wish
          /\ meant'.body = meant.body /\ meant'.failed = FALSE /\ meant'.told = meant.told
          /\ meant' \in MeantRecord
      BY <1>t, <2>3, Zenon DEF MeantRecord
    <2>6. "amend" # "order"
      BY SMT
    <2>7. EntryTypeOK'
      BY <1>t, <2>3, <2>4, <2>5, <2>6, Zenon DEF EntryTypeOK, DeskRecord, MeantRecord, GatewayRecord
    <2>8. Sent' \subseteq Sent
      BY <2>3, <2>4, Zenon DEF Sent, Pending
    <2>9. SentNumbered' /\ OneIdPerIntent' /\ OneBodyPerId' /\ WishHoldsId'
      BY <2>1, <2>3, <2>4, <2>5, <2>6, <2>7, <2>8, EntryKeeps, Zenon
    <2>10. IntentIssued'
      BY <2>1, <2>2, <2>3, <2>4, Zenon DEF IntentIssued
    <2>11. RowsById' /\ PlacedAsAsked'
      BY <2>3, <2>4, <2>5, EntryRowsKept, Zenon
    <2> QED
      BY <2>7, <2>9, <2>10, <2>11, Zenon DEF EntryInv
  <1>4. CASE closeDialog
    <2>1. /\ desk.form = "amend"
          /\ desk' = [desk EXCEPT !.open = FALSE, !.call = NoCall]
          /\ late' = late \cup (IF desk.call = NoCall THEN {} ELSE {desk.call})
          /\ gateway' = gateway /\ meant' = meant
      BY <1>4, Zenon DEF closeDialog
    <2>2. /\ desk'.form = desk.form /\ desk'.ids = desk.ids /\ desk'.intent = desk.intent
          /\ desk'.call = NoCall /\ desk'.open = FALSE /\ desk'.typed = desk.typed
          /\ desk'.reference = desk.reference /\ desk' \in DeskRecord
      BY <1>t, <2>1, Zenon DEF DeskRecord
    <2>3. "amend" # "order" /\ desk.ids >= desk.ids
      BY <1>t, SMT DEF DeskRecord
    <2>4. late' \in SUBSET CallRecord
      BY <1>t, <2>1, Zenon DEF DeskRecord
    <2>5. EntryTypeOK'
      BY <1>0, <1>t, <2>1, <2>2, <2>4, Zenon DEF EntryTypeOK, DeskRecord
    <2>6. Sent' \subseteq Sent
      BY <2>1, <2>2, Zenon DEF Sent, Pending
    <2>7. SentNumbered' /\ OneIdPerIntent' /\ OneBodyPerId' /\ WishHoldsId'
      <3>1. CASE meant.failed \/ desk.call # NoCall
        BY <2>1, <2>2, <2>3, <2>5, <2>6, <3>1, EntryKeeps, Zenon
      <3>2. CASE ~(meant.failed \/ desk.call # NoCall)
        BY <2>1, <2>2, <2>3, <2>5, <2>6, <3>2, EntryKeeps, Zenon
      <3> QED
        BY <3>1, <3>2
    <2>8. IntentIssued'
      BY <1>0, <2>2, Zenon DEF IntentIssued
    <2>9. RowsById' /\ PlacedAsAsked'
      BY <2>1, <2>2, EntryRowsKept, Zenon
    <2> QED
      BY <2>5, <2>7, <2>8, <2>9, Zenon DEF EntryInv
  <1>5. CASE submitOrder
    <2>1. /\ desk.form = "order" /\ drafted.ok
          /\ press(drafted.body, orderIntent(drafted.body))
      BY <1>5, Zenon DEF submitOrder
    <2>2. drafted.body \in DraftBodies
      BY <1>0, <2>1, DraftedBody, Zenon
    <2>3. desk.ids + 1 \in Nat /\ "order" \notin SteppedUp /\ "order" # "amend"
      BY <1>t, SMT DEF DeskRecord, SteppedUp
    <2>4. orderIntent(drafted.body) \in [fingerprint : DraftBodies, id : Nat]
      <3>1. desk.intent \in [fingerprint : DraftBodies, id : Nat]
        BY <1>t, Zenon DEF DeskRecord
      <3>2. [fingerprint |-> drafted.body, id |-> desk.ids + 1]
              \in [fingerprint : DraftBodies, id : Nat]
        BY <2>2, <2>3, Zenon
      <3> QED
        BY <3>1, <3>2, Zenon DEF orderIntent
    <2> QED
      BY <2>1, <2>2, <2>3, <2>4, EntryPress, Zenon
  <1>6. CASE submitAmend
    <2>1. desk.form = "amend" /\ desk.open /\ drafted.ok /\ press(drafted.body, desk.intent)
      BY <1>6, Zenon DEF submitAmend
    <2>2. drafted.body \in DraftBodies
      BY <1>0, <2>1, DraftedBody, Zenon
    <2>3. "amend" \notin SteppedUp /\ "order" # "amend"
      BY SMT DEF SteppedUp
    <2>4. desk.intent \in [fingerprint : DraftBodies, id : Nat]
      BY <1>t, Zenon DEF DeskRecord
    <2> QED
      BY <2>1, <2>2, <2>3, <2>4, EntryPress, Zenon
  <1>7. CASE submitWithdrawal \/ submitTransfer
    <2>1. /\ desk.form \in SteppedUp /\ drafted.ok
          /\ press(drafted.body, newIdempotencyKey(drafted.body))
      BY <1>7, Zenon DEF submitWithdrawal, submitTransfer, SteppedUp
    <2>2. drafted.body \in DraftBodies
      BY <1>0, <2>1, DraftedBody, Zenon
    <2>3. desk.ids + 1 \in Nat /\ desk.form # "order" /\ desk.form # "amend"
      BY <1>t, <2>1, SMT DEF DeskRecord, SteppedUp
    <2>4. /\ newIdempotencyKey(drafted.body) \in [fingerprint : DraftBodies, id : Nat]
          /\ newIdempotencyKey(drafted.body).id = desk.ids + 1
      BY <2>2, <2>3, Zenon DEF newIdempotencyKey
    <2> QED
      BY <2>1, <2>2, <2>3, <2>4, EntryPress, Zenon
  <1>8. CASE request
    <2>1. desk.call # NoCall /\ late' = late
      BY <1>8, Zenon DEF request
    <2>2. desk.call \in Pending
      BY <2>1, Zenon DEF Pending
    <2>3. PICK o \in outcomes(desk.call) :
            /\ gateway' = o.gateway
            /\ CASE o.answer = "ok" -> succeeded
                 [] o.answer = "STEP_UP_REQUIRED" /\ desk.call.attempt = 1 ->
                      desk' = [desk EXCEPT !.call.attempt = 2] /\ UNCHANGED meant
                 [] OTHER -> failed
      BY <1>8, Zenon DEF request
    <2>4. /\ gateway' \in GatewayRecord
          /\ gateway.rows \subseteq gateway'.rows
          /\ gateway'.rows \subseteq gateway.rows \cup {rowOf(desk.call)}
          /\ \A r, s \in gateway'.rows : r.id = s.id => r = s
          /\ o.answer = "ok" => \E row \in gateway'.rows : row.id = desk.call.id
      BY <2>2, <2>3, EntryAnswers, Zenon
    <2>5. \/ o.answer = "ok" /\ succeeded
          \/ /\ o.answer = "STEP_UP_REQUIRED"
             /\ desk' = [desk EXCEPT !.call.attempt = 2] /\ meant' = meant
          \/ failed
      <3>1. "ok" # "STEP_UP_REQUIRED"
        BY SMT
      <3> QED
        BY <2>3, <3>1, Zenon
    <2>6. CASE o.answer = "ok" /\ succeeded
      BY <2>1, <2>4, <2>6, EntrySucceeds, Zenon
    <2>7. CASE /\ o.answer = "STEP_UP_REQUIRED"
               /\ desk' = [desk EXCEPT !.call.attempt = 2] /\ meant' = meant
      <3>1. gateway'.rows = gateway.rows
        BY <2>2, <2>3, <2>7, EntryAsked, Zenon
      <3> QED
        BY <2>1, <2>4, <2>7, <3>1, EntryRetries, Zenon
    <2>8. CASE failed
      <3>1. /\ desk' = [desk EXCEPT !.call = NoCall]
            /\ meant' = [meant EXCEPT !.failed = TRUE]
        BY <2>8, Zenon DEF failed
      <3>2. /\ meant'.presses = meant.presses /\ meant'.wish = meant.wish
            /\ meant'.body = meant.body /\ meant'.failed = TRUE /\ meant'.told = meant.told
            /\ meant' \in MeantRecord
        BY <1>t, <3>1, Zenon DEF MeantRecord
      <3> QED
        BY <2>1, <2>4, <3>1, <3>2, EntryFails, Zenon
    <2> QED
      BY <2>5, <2>6, <2>7, <2>8
  <1>9. CASE stepUp
    <2>1. desk.call # NoCall
      <3>1. desk.call.attempt # NoCall.attempt
        BY <1>9, SMT DEF stepUp, NoCall
      <3> QED
        BY <3>1, Zenon
    <2>2. CASE /\ desk' = [desk EXCEPT !.call.attempt = 3]
               /\ gateway' = [gateway EXCEPT !.fresh = TRUE]
               /\ UNCHANGED meant
      <3>1. gateway' \in GatewayRecord /\ gateway'.rows = gateway.rows /\ late' = late
        BY <1>9, <1>t, <2>2, Zenon DEF GatewayRecord, stepUp
      <3> QED
        BY <2>1, <2>2, <3>1, EntryRetries, Zenon
    <2>3. CASE failed /\ UNCHANGED gateway
      <3>1. /\ desk' = [desk EXCEPT !.call = NoCall]
            /\ meant' = [meant EXCEPT !.failed = TRUE] /\ gateway' = gateway /\ late' = late
        BY <1>9, <2>3, Zenon DEF failed, stepUp
      <3>2. /\ meant'.presses = meant.presses /\ meant'.wish = meant.wish
            /\ meant'.body = meant.body /\ meant'.failed = TRUE /\ meant'.told = meant.told
            /\ meant' \in MeantRecord
        BY <1>t, <3>1, Zenon DEF MeantRecord
      <3>3. /\ gateway' \in GatewayRecord /\ gateway.rows \subseteq gateway'.rows
            /\ gateway'.rows \subseteq gateway.rows \cup {rowOf(desk.call)}
            /\ \A r, s \in gateway'.rows : r.id = s.id => r = s
        BY <1>0, <1>t, <3>1, Zenon DEF RowsById
      <3> QED
        BY <2>1, <3>1, <3>2, <3>3, EntryFails, Zenon
    <2> QED
      BY <1>9, <2>2, <2>3, Zenon DEF stepUp
  <1>10. CASE assertionAges
    <2>1. /\ gateway' \in GatewayRecord /\ gateway'.rows = gateway.rows
          /\ desk' = desk /\ late' = late /\ meant' = meant
      BY <1>10, <1>t, Zenon DEF assertionAges, GatewayRecord
    <2>2. /\ desk.form = "order" => desk'.typed \in Typings \cup {Nothing}
                                     /\ desk'.reference \in References
          /\ desk.form # "order" => desk'.typed \in Amounts \cup {Nothing}
      BY <1>0, <2>1, Zenon DEF EntryTypeOK
    <2> QED
      BY <1>t, <2>1, <2>2, EntryQuiet, Zenon
  <1>11. CASE transportFails \/ gatewayDies
    <2>1. /\ desk.call.attempt \in {1, 3}
          /\ desk' = [desk EXCEPT !.call = NoCall]
          /\ meant' = [meant EXCEPT !.failed = TRUE, !.lost = meant.lost + 1]
          /\ late' = late \/ late' = late \cup {desk.call}
      BY <1>11, <1>t, Zenon DEF transportFails, gatewayDies, MeantRecord
    <2>2. desk.call # NoCall
      <3>1. desk.call.attempt # NoCall.attempt
        BY <2>1, SMT DEF NoCall
      <3> QED
        BY <3>1, Zenon
    <2>3. desk.call \in Pending
      BY <2>2, Zenon DEF Pending
    <2>4. meant.lost + 1 \in Nat
      BY <1>t, SMT DEF MeantRecord
    <2>5. /\ meant'.presses = meant.presses /\ meant'.wish = meant.wish
          /\ meant'.body = meant.body /\ meant'.failed = TRUE /\ meant'.told = meant.told
          /\ meant' \in MeantRecord
      BY <1>t, <2>1, <2>4, Zenon DEF MeantRecord
    <2>6. /\ gateway' \in GatewayRecord /\ gateway.rows \subseteq gateway'.rows
          /\ gateway'.rows \subseteq gateway.rows \cup {rowOf(desk.call)}
          /\ \A r, s \in gateway'.rows : r.id = s.id => r = s
      <3>1. CASE gatewayDies
        BY <2>3, <3>1, EntryCreated, Zenon DEF gatewayDies
      <3>2. CASE transportFails
        <4>1. CASE gateway' = gateway
          BY <1>0, <1>t, <4>1, Zenon DEF RowsById
        <4>2. CASE \E o \in outcomes(desk.call) : gateway' = o.gateway
          <5>1. PICK o \in outcomes(desk.call) : gateway' = o.gateway
            BY <4>2
          <5> QED
            BY <2>3, <5>1, EntryAnswers, Zenon
        <4> QED
          BY <3>2, <4>1, <4>2, Zenon DEF transportFails
      <3> QED
        BY <1>11, <3>1, <3>2
    <2> QED
      BY <2>1, <2>2, <2>5, <2>6, EntryFails, Zenon
  <1>12. CASE lateArrives
    <2>1. PICK c \in late : /\ late' = late \ {c}
                            /\ \E o \in outcomes(c) : gateway' = o.gateway
                            /\ desk' = desk /\ meant' = meant
      BY <1>12, Zenon DEF lateArrives
    <2>2. c \in Pending
      BY <2>1, Zenon DEF Pending
    <2>3. /\ gateway' \in GatewayRecord
          /\ gateway.rows \subseteq gateway'.rows
          /\ gateway'.rows \subseteq gateway.rows \cup {rowOf(c)}
          /\ \A r, s \in gateway'.rows : r.id = s.id => r = s
      <3>1. PICK o \in outcomes(c) : gateway' = o.gateway
        BY <2>1
      <3> QED
        BY <2>2, <3>1, EntryAnswers, Zenon
    <2>4. EntryTypeOK'
      BY <1>0, <1>t, <2>1, <2>3, Zenon DEF EntryTypeOK, GatewayRecord
    <2>5. Pending' \subseteq Pending
      BY <2>1, Zenon DEF Pending
    <2>6. Sent' \subseteq Sent
      BY <2>2, <2>3, <2>5, Zenon DEF Sent
    <2>7. desk.ids >= desk.ids
      BY <1>t, SMT DEF DeskRecord
    <2>8. SentNumbered' /\ OneIdPerIntent' /\ OneBodyPerId' /\ WishHoldsId'
      <3>1. CASE meant.failed \/ desk.call # NoCall
        BY <2>1, <2>4, <2>6, <2>7, <3>1, EntryKeeps, Zenon
      <3>2. CASE ~(meant.failed \/ desk.call # NoCall)
        BY <2>1, <2>4, <2>6, <2>7, <3>2, EntryKeeps, Zenon
      <3> QED
        BY <3>1, <3>2
    <2>9. IntentIssued'
      BY <1>0, <2>1, Zenon DEF IntentIssued
    <2>10. RowsById' /\ PlacedAsAsked'
      BY <2>1, <2>2, <2>3, EntryRowsGrow, Zenon
    <2> QED
      BY <2>4, <2>8, <2>9, <2>10, Zenon DEF EntryInv
  <1>13. CASE UNCHANGED entryVars
    <2>1. desk' = desk /\ gateway' = gateway /\ late' = late /\ meant' = meant
      BY <1>13, Zenon DEF entryVars
    <2>2. /\ desk.form = "order" => desk'.typed \in Typings \cup {Nothing}
                                     /\ desk'.reference \in References
          /\ desk.form # "order" => desk'.typed \in Amounts \cup {Nothing}
      BY <1>0, <2>1, Zenon DEF EntryTypeOK
    <2> QED
      BY <1>t, <2>1, <2>2, EntryQuiet, Zenon
  <1> QED
    BY <1>1, <1>2, <1>3, <1>4, <1>5, <1>6, <1>7, <1>8, <1>9, <1>10, <1>11, <1>12, <1>13,
       Zenon DEF EntryNext

\* However answers are lost, however often the person presses again and
\* whenever an earlier request arrives, the four forms of the web interface
\* make one row per intent at the gateway, and an order reported as placed is
\* there with the terms that were on screen.
THEOREM FormsMeanWhatTheySendAlways == EntrySpec => []FormsMeanWhatTheySend
  <1>1. EntrySpec => []EntryInv
    BY EntryInitInv, EntryStep, PTL DEF EntrySpec
  <1> QED
    BY <1>1, EntryInvMeans, PTL

=============================================================================
