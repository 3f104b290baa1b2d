--------------------------- MODULE Reconciliation ---------------------------
(***************************************************************************)
(* The scheduled comparison of the books with the chain: the vault tier in  *)
(* total and per user, the clearing tier's reserve and equation, the book   *)
(* against the orders' holds, and the worker's streaks and alerts.  A run   *)
(* reads each source at a different moment while deposits, withdrawals,     *)
(* allocations, deallocations and fills go on, and a chain read may fail.   *)
(*                                                                          *)
(* The environment is what the other modules model, reduced to its effect   *)
(* on the two things compared: an arrival is on the chain before it is in   *)
(* the books, a departure leaves the chain before its settlement is posted. *)
(* One native asset; the treasury pays the network fees and nothing books   *)
(* its funding, as in the code.                                             *)
(***************************************************************************)
EXTENDS Ledger

CONSTANTS Sol, Cluster,
          Treasury, Pool,     \* the platform address and the clearing address
          Opening,            \* per user [vault, trading]: settled at the start
          TreasuryFunds, Fee,
          Reserve,            \* native units the house parks at the pool
          Moves,              \* withdrawals, allocations and deallocations
          Arrivals,           \* how many one-unit deposits may still arrive
          BookChanges,        \* what each engine event adds to the one level
          AlertAfter,         \* consecutiveCyclesBeforeAlert
          MaxUnreadable       \* bound on failed chain reads

VARIABLES onchain,     \* balance per address
          books, pending, moves, arrived,
          engineSeq, settledSeq,
          lost,        \* the address something left without an entry, or NONE
          rc,          \* the run in progress and what it has read so far
          report,      \* the last complete report
          streaks, alerts, unreadable,
          readings     \* history: quiet reserve readings in a row since the pool's loss

env == <<onchain, books, pending, moves, arrived, engineSeq, settledSeq, lost>>
vars == <<env, rc, report, streaks, alerts, unreadable, readings>>

NONE == "none"
Unread == -1
Addresses == SetToSeq(Owners) \o <<Treasury>>
LevelAt(seq) == FoldLeft(LAMBDA n, d : n + d, 0, SubSeq(BookChanges, 1, seq))

-----------------------------------------------------------------------------
(* The environment.                                                          *)

Arrive(u) ==
  /\ arrived < Arrivals
  /\ arrived' = arrived + 1
  /\ onchain' = [onchain EXCEPT ![u] = @ + 1]
  /\ pending' = [pending EXCEPT ![u] = @ + 1]
  /\ UNCHANGED <<books, moves, engineSeq, settledSeq, lost>>

CreditDeposit(u) ==
  /\ pending[u] > 0
  /\ pending' = [pending EXCEPT ![u] = @ - 1]
  /\ books' = postTransaction(books, postDeposit(u, Sol, 1, 0))
  /\ UNCHANGED <<onchain, moves, arrived, engineSeq, settledSeq, lost>>

Lock(w) ==
  LET r == moves[w]
      trading == r.purpose = "deallocation"
      source == IF trading THEN userTradingAvailable(r.user, Sol) ELSE userCustodyAvailable(r.user, Sol)
  IN /\ r.status = "APPROVED" /\ held(books, source) >= 1
     /\ books' = postTransaction(books, IF trading THEN postTradingLock(r.user, Sol, 1)
                                        ELSE postWithdrawalLock(r.user, Sol, 1))
     /\ moves' = [moves EXCEPT ![w].status = "FUNDS_LOCKED"]
     /\ UNCHANGED <<onchain, pending, arrived, engineSeq, settledSeq, lost>>

From(r) == IF r.purpose = "deallocation" THEN Pool ELSE r.user
To(r) == CASE r.purpose = "allocation" -> {Pool}
           [] r.purpose = "deallocation" -> {r.user}
           [] OTHER -> {}

\* Nothing is broadcast from an address that no longer holds it.  What a
\* deallocation pays to a user's address is an arrival to the indexer too.
Broadcast(w) ==
  LET r == moves[w]
  IN /\ r.status = "FUNDS_LOCKED" /\ onchain[From(r)] >= 1 /\ onchain[Treasury] >= Fee
     /\ onchain' = [x \in DOMAIN onchain |->
                      onchain[x] + (IF x \in To(r) THEN 1 ELSE 0) - (IF x = From(r) THEN 1 ELSE 0)
                                 - (IF x = Treasury THEN Fee ELSE 0)]
     /\ moves' = [moves EXCEPT ![w].status = "BROADCAST"]
     /\ pending' = [u \in Owners |-> pending[u] + (IF u \in To(r) THEN 1 ELSE 0)]
     /\ UNCHANGED <<books, arrived, engineSeq, settledSeq, lost>>

\* Mutation: an allocation moves what is owed and not what is held.
SettledEntriesOwedOnly(r) ==
  IF r.purpose = "allocation"
  THEN buildTransaction(<<debit(userCustodyLocked(r.user, Sol), 1),
                          credit(userTradingAvailable(r.user, Sol), 1)>>)
  ELSE postWithdrawalSettlement(r.user, Sol, 1, Sol, Fee)

SettledEntries(r) ==
  CASE r.purpose = "allocation" -> postAllocation(r.user, Sol, 1, Sol, Fee)
    [] r.purpose = "deallocation" -> postDeallocation(r.user, Sol, 1, Sol, Fee)
    [] OTHER -> postWithdrawalSettlement(r.user, Sol, 1, Sol, Fee)

Settle(w) ==
  /\ moves[w].status = "BROADCAST"
  /\ books' = postTransaction(books, SettledEntries(moves[w]))
  /\ moves' = [moves EXCEPT ![w].status = "SETTLED"]
  /\ UNCHANGED <<onchain, pending, arrived, engineSeq, settledSeq, lost>>

EngineStep ==
  /\ engineSeq < Len(BookChanges)
  /\ engineSeq' = engineSeq + 1
  /\ UNCHANGED <<onchain, books, pending, moves, arrived, settledSeq, lost>>

SettlementStep ==
  /\ settledSeq < engineSeq
  /\ settledSeq' = settledSeq + 1
  /\ UNCHANGED <<onchain, books, pending, moves, arrived, engineSeq, lost>>

\* One unit leaves an address with no entry.
Lose(x) ==
  /\ lost = NONE /\ onchain[x] > 0
  /\ onchain' = [onchain EXCEPT ![x] = @ - 1]
  /\ lost' = x
  /\ UNCHANGED <<books, pending, moves, arrived, engineSeq, settledSeq>>

Environment ==
  \/ \E u \in Owners : Arrive(u)
  \/ \E u \in Owners : CreditDeposit(u)
  \/ \E w \in DOMAIN moves : Lock(w)
  \/ \E w \in DOMAIN moves : Broadcast(w)
  \/ \E w \in DOMAIN moves : Settle(w)
  \/ EngineStep
  \/ SettlementStep
  \/ \E x \in Owners \cup {Pool} : Lose(x)

\* Nothing is on its way between the chain and the books.
Settled ==
  /\ \A u \in Owners : pending[u] = 0
  /\ \A w \in DOMAIN moves : moves[w].status # "BROADCAST"
  /\ settledSeq = engineSeq

-----------------------------------------------------------------------------
(* One run.  "next" is the next step; quiet is history: nothing was on its   *)
(* way when the run began and nothing has moved since.                       *)

NoReport == [healthy |-> TRUE, shortfall |-> FALSE, diverged |-> {}, unread |-> {}, drifting |-> FALSE,
             clearing |-> [c \in {"reserve", "equation", "book"} |-> "inconclusive"], quiet |-> FALSE, lost |-> NONE]

Resting == [next |-> "start", ledger |-> 0, inFlight |-> 0, observed |-> 0, checked |-> 0,
            todo |-> <<>>, positions |-> {}, seen |-> [x \in {} |-> 0],
            depth |-> 0, offset |-> 0, found |-> NoReport, quiet |-> FALSE]

\* A chain read returns the balance now, or fails and is skipped.
getBalance(x) == {onchain[x]} \cup (IF unreadable < MaxUnreadable THEN {Unread} ELSE {})

Reads(value) == unreadable' = IF value = Unread THEN unreadable + 1 ELSE unreadable

RunStep(now) == rc.next = now /\ UNCHANGED <<env, report, streaks, alerts, readings>>

Start ==
  /\ RunStep("start")
  /\ LET totals == getAssetTotals(books, Cluster)
         row == CHOOSE t \in totals : t.asset = Sol
     IN rc' = [Resting EXCEPT !.next = "count", !.ledger = row.chainAssets, !.quiet = Settled]
  /\ UNCHANGED unreadable

IN_FLIGHT_WITHDRAWAL_STATUSES == {"BROADCAST", "BROADCAST_FAILED", "EXPIRED"}

Count ==
  /\ RunStep("count")
  /\ rc' = [rc EXCEPT !.next = "observe", !.todo = Addresses,
       !.inFlight = Cardinality({w \in DOMAIN moves :
                                   moves[w].status \in IN_FLIGHT_WITHDRAWAL_STATUSES})]
  /\ UNCHANGED unreadable

Observe ==
  /\ RunStep("observe") /\ rc.todo # <<>>
  /\ \E value \in getBalance(Head(rc.todo)) :
       /\ Reads(value)
       /\ rc' = [rc EXCEPT !.todo = Tail(@),
            !.observed = IF value = Unread THEN @ ELSE @ + value,
            !.checked = IF value = Unread THEN @ ELSE @ + 1]

Positions ==
  /\ RunStep("observe") /\ rc.todo = <<>>
  /\ LET positions == getSegregatedPositions(books, Cluster)
         residual == rc.observed - rc.ledger
     IN rc' = [rc EXCEPT !.next = "users", !.positions = positions,
          !.todo = SetToSeq({p.ownerId : p \in positions}),
          !.observed = 0, !.checked = 0, !.ledger = 0, !.inFlight = 0,
          !.found.drifting = residual # 0,
          !.found.shortfall = residual < 0 /\ rc.inFlight = 0,
          !.found.healthy = residual = 0 /\ rc.checked = Len(Addresses)]
  /\ UNCHANGED unreadable

ReadUser ==
  /\ RunStep("users") /\ rc.todo # <<>>
  /\ \E value \in getBalance(Head(rc.todo)) :
       /\ Reads(value)
       /\ rc' = [rc EXCEPT !.todo = Tail(@), !.seen = @ @@ (Head(rc.todo) :> value)]

\* Mutation: only a surplus makes a position diverge.
divergedSurplus(p) == rc.seen[p.ownerId] # Unread /\ rc.seen[p.ownerId] > p.chainAssets

\* A position diverges only when its owner's address could be read.
diverged(p) == rc.seen[p.ownerId] # Unread /\ rc.seen[p.ownerId] # p.chainAssets

Users ==
  /\ RunStep("users") /\ rc.todo = <<>>
  /\ LET users == {p.ownerId : p \in {x \in rc.positions : diverged(x)}}
     IN rc' = [rc EXCEPT !.next = "clearing", !.found.diverged = users,
                         !.found.unread = {x \in DOMAIN rc.seen : rc.seen[x] = Unread},
                         !.positions = {}, !.seen = [x \in {} |-> 0],
                         !.found.healthy = @ /\ users = {}]
  /\ UNCHANGED unreadable

clearingRow ==
  LET rows == {t \in getClearingTotals(books, Cluster) : t.asset = Sol}
  IN CHOOSE t \in rows : TRUE

\* reserveAndEquation reads the clearing totals once, then the pool.
Clearing ==
  /\ RunStep("clearing")
  /\ rc' = [rc EXCEPT !.next = "reserve", !.ledger = clearingRow.clearingAssets,
       !.found.clearing["equation"] =
          IF clearingRow.clearingAssets - clearingRow.tradingLiabilities
               = clearingRow.houseTradingFees THEN "clean" ELSE "drift"]
  /\ UNCHANGED unreadable

reserveStatus(value, ledger) ==
  IF value = Unread THEN "inconclusive" ELSE IF value - ledger = Reserve THEN "clean" ELSE "drift"

ReadPool ==
  /\ RunStep("reserve")
  /\ \E value \in getBalance(Pool) :
       /\ Reads(value)
       /\ rc' = [rc EXCEPT !.next = "depth", !.ledger = 0,
                           !.found.clearing["reserve"] = reserveStatus(value, rc.ledger)]

\* book: the engine's depth, then settlement's offset, then the held levels.
Depth ==
  /\ RunStep("depth")
  /\ rc' = [rc EXCEPT !.next = "offset", !.depth = engineSeq]
  /\ UNCHANGED unreadable

Offset ==
  /\ RunStep("offset")
  /\ rc' = [rc EXCEPT !.next = "levels", !.offset = settledSeq]
  /\ UNCHANGED unreadable

heldLevels == LevelAt(settledSeq)

Levels ==
  /\ RunStep("levels")
  /\ rc' = [rc EXCEPT !.next = "report",
       !.found.clearing["book"] = IF rc.offset # rc.depth THEN "inconclusive"
                                  ELSE IF heldLevels = LevelAt(rc.depth) THEN "clean" ELSE "drift",
       !.depth = 0, !.offset = 0]
  /\ UNCHANGED unreadable

-----------------------------------------------------------------------------
(* The worker: a streak per key, an alert exactly at the threshold, and an   *)
(* inconclusive reading that neither extends nor resets.                     *)

\* Mutation: an inconclusive reading counts as a clean one.
afterInconclusive(key, status) ==
  IF status = "drift" THEN Min({streaks[key] + 1, AlertAfter + 1}) ELSE 0

\* The counter is capped just above the threshold: nothing tells larger ones
\* apart.
after(key, status) ==
  IF status = "inconclusive" THEN streaks[key]
  ELSE IF status = "drift" THEN Min({streaks[key] + 1, AlertAfter + 1}) ELSE 0

Report ==
  /\ rc.next = "report"
  /\ LET status == rc.found.clearing @@ ("asset" :> (IF rc.found.drifting THEN "drift" ELSE "clean"))
         streak == [key \in DOMAIN streaks |-> after(key, status[key])]
     IN /\ streaks' = streak
        /\ alerts' = {key \in DOMAIN streaks :
                        \/ status[key] # "inconclusive" /\ streak[key] = AlertAfter
                        \/ key \in alerts /\ streak[key] >= AlertAfter}
  /\ report' = [rc.found EXCEPT !.quiet = rc.quiet, !.lost = lost]
  /\ readings' = IF rc.found.clearing["reserve"] = "inconclusive" THEN readings
                 ELSE IF rc.quiet /\ lost = Pool THEN Min({readings + 1, AlertAfter}) ELSE 0
  /\ rc' = Resting
  /\ UNCHANGED <<env, unreadable>>

Run ==
  Start \/ Count \/ Observe \/ Positions \/ ReadUser \/ Users \/ Clearing \/ ReadPool
  \/ Depth \/ Offset \/ Levels \/ Report

-----------------------------------------------------------------------------
OpeningBooks ==
  LET opened(u, bk) ==
        LET o == Opening[u]
            in == postTransaction(bk, postDeposit(u, Sol, o.vault + o.trading, 0))
        IN IF o.trading = 0 THEN in
           ELSE postTransaction(postTransaction(in, postWithdrawalLock(u, Sol, o.trading)),
                                postAllocation(u, Sol, o.trading, Sol, 0))
  IN FoldSet(opened, [acct \in {} |-> 0], Owners)

Init ==
  /\ books = OpeningBooks
  /\ onchain = [u \in Owners |-> Opening[u].vault] @@ (Treasury :> TreasuryFunds)
               @@ (Pool :> (Reserve + MapThenSumSet(LAMBDA u : Opening[u].trading, Owners)))
  /\ pending = [u \in Owners |-> 0] /\ arrived = 0
  /\ moves = [w \in DOMAIN Moves |-> Moves[w] @@ [status |-> "APPROVED"]]
  /\ engineSeq = 0 /\ settledSeq = 0
  /\ lost = NONE
  /\ rc = Resting /\ report = NoReport
  /\ streaks = [key \in {"asset", "reserve", "equation", "book"} |-> 0]
  /\ alerts = {} /\ unreadable = 0 /\ readings = 0

\* An environment step ends a run's quiet.
Next ==
  \/ Run
  \/ /\ Environment
     /\ rc' = [rc EXCEPT !.quiet = FALSE]
     /\ UNCHANGED <<report, streaks, alerts, unreadable, readings>>

Spec == Init /\ [][Next]_vars

-----------------------------------------------------------------------------
(* Properties.                                                               *)

\* A run during which nothing was on its way tells the truth: exactly the user
\* whose address something left without an entry diverges, the reserve drifts
\* exactly when the pool lost something, and the book agrees.  What settled
\* before, how the reads fell and which of them failed make no difference,
\* except that an address that could not be read accuses nobody.
ReportIsRight ==
  report.quiet =>
    /\ report.diverged = ({report.lost} \cap Owners) \ report.unread
    /\ report.clearing["reserve"] = "drift" => report.lost = Pool
    /\ report.clearing["reserve"] = "clean" => report.lost # Pool
    /\ report.clearing["book"] # "drift"

\* The clearing equation is never off in any report, quiet or not: it is
\* computed from one read of the books, and no posting moves one side alone.
EquationHolds == report.clearing["equation"] # "drift"

\* A report accuses whom it should and the equation nobody.
ReportsAreRight == ReportIsRight /\ EquationHolds

\* A reserve drift that persists is alerted and stays so until a clean reading:
\* while the pool lacks something and the last AlertAfter conclusive readings
\* were quiet, the alert stands, whatever inconclusive ones lie between.
LossIsAlerted == lost = Pool /\ readings >= AlertAfter => "reserve" \in alerts

=============================================================================
