---------------------------- MODULE DeadLetters ------------------------------
(***************************************************************************)
(* What becomes of work that runs out of attempts: the sweeper's count of   *)
(* an order (apps/api/src/workers/pending-engine-sweeper.ts), a withdrawal  *)
(* the workers give up, the dead-letter queue both are put in               *)
(* (apps/api/src/observability/dead-letter.ts) and the operators who press  *)
(* retry (apps/api/src/routes/operations.routes.ts).  The queue, the        *)
(* sweeper's set and the operators' calls die with the process; the rows    *)
(* stay.  What the engine answers the sweeper is module OrderLifecycle's.   *)
(***************************************************************************)
EXTENDS Integers, Sequences

CONSTANTS StuckOrders,      \* orders in PENDING_ENGINE
          StuckWithdrawals, \* withdrawals out of budget
          Presses,          \* operators
          SweepBudget,      \* TRADING_SWEEPER_MAX_ATTEMPTS
          Capacity,         \* capacity of the queue
          MaxRestarts       \* bound: restarts of the process

(* createPendingEngineSweeper refuses a budget that is used up before the    *)
(* engine's answer is conclusive, so it is positive; the queue has room.     *)
ASSUME JobsAssumption == SweepBudget \in Nat \ {0} /\ Capacity \in Nat \ {0}

VARIABLES pending,       \* orders still PENDING_ENGINE
          sweepAttempts, \* order -> attempts counted
          sweeping,      \* the order the sweeper is at
          deadLettered,  \* orders this process has parked
          failedRows,    \* withdrawals in FAILED
          givingUp,      \* withdrawals between that row and the queue
          jobs,          \* the queue, oldest first
          retrying,      \* operator -> id of the job whose handler runs
          handlerRuns,   \* id -> handlers started for it
          restarts,
          missed         \* ghost: orders a crash, a failed read or the
                         \* capacity took from the operators' view

jobVars == <<pending, sweepAttempts, sweeping, deadLettered, failedRows, givingUp, jobs,
             retrying, handlerRuns, restarts, missed>>

NoStuck == [order |-> "none", at |-> "idle"]
NoJob == 0

JobsInit ==
  /\ pending = StuckOrders /\ sweepAttempts = [o \in StuckOrders |-> 0]
  /\ sweeping = NoStuck /\ deadLettered = {}
  /\ failedRows = {} /\ givingUp = {}
  /\ jobs = <<>> /\ retrying = [p \in Presses |-> NoJob] /\ handlerRuns = <<>>
  /\ restarts = 0 /\ missed = {}

-----------------------------------------------------------------------------
(* The queue.                                                                *)

parked == {jobs[i].reference : i \in DOMAIN jobs}

\* Beyond the capacity the oldest job is dropped.
recordJob(queue, reference) ==
  LET job == [id |-> Len(handlerRuns) + 1, queue |-> queue, reference |-> reference,
              retried |-> FALSE]
      full == Len(jobs) = Capacity
  IN  /\ jobs' = Append(IF full THEN Tail(jobs) ELSE jobs, job)
      /\ handlerRuns' = Append(handlerRuns, 0)
      /\ missed' = missed \cup (IF full THEN {Head(jobs).reference} ELSE {})

-----------------------------------------------------------------------------
(* The sweeper.                                                              *)

\* The attempt is counted by the claim, in its transaction.
claim(o) ==
  /\ sweeping = NoStuck
  /\ o \in pending /\ sweepAttempts[o] < SweepBudget
  /\ sweepAttempts' = [sweepAttempts EXCEPT ![o] = @ + 1]
  /\ sweeping' = [order |-> o, at |-> "resolve"]
  /\ UNCHANGED <<pending, deadLettered, failedRows, givingUp, jobs, retrying, handlerRuns,
                 restarts, missed>>

\* Mutation: an order whose resolution throws skips the look at its budget.
resolvedUnlessThrown ==
  /\ sweeping.at = "resolve"
  /\ \E threw \in BOOLEAN :
       /\ sweeping' = IF threw THEN NoStuck ELSE [sweeping EXCEPT !.at = "budget"]
       /\ pending' \in {pending} \cup (IF threw THEN {} ELSE {pending \ {sweeping.order}})
  /\ UNCHANGED <<sweepAttempts, deadLettered, failedRows, givingUp, jobs, retrying,
                 handlerRuns, restarts, missed>>

\* Resolved, failed, deferred, or thrown and logged.
resolveOrder ==
  /\ sweeping.at = "resolve"
  /\ sweeping' = [sweeping EXCEPT !.at = "budget"]
  /\ pending' \in {pending, pending \ {sweeping.order}}
  /\ UNCHANGED <<sweepAttempts, deadLettered, failedRows, givingUp, jobs, retrying,
                 handlerRuns, restarts, missed>>

\* The claimed record already has the attempt counted, and one is added.
outOfBudget(o) == sweepAttempts[o] + 1 >= SweepBudget /\ o \notin deadLettered

park ==
  /\ sweeping.at = "budget"
  /\ sweeping' = NoStuck
  /\ LET o == sweeping.order
     IN  IF outOfBudget(o) /\ o \in pending
         THEN /\ deadLettered' = deadLettered \cup {o}
              /\ recordJob("order_pending_engine", o)
         ELSE UNCHANGED <<deadLettered, jobs, handlerRuns, missed>>
  /\ UNCHANGED <<pending, sweepAttempts, failedRows, givingUp, retrying, restarts>>

\* The row cannot be read: the cycle ends, and the next one starts anew.
cycleFails ==
  /\ sweeping.at = "budget" /\ outOfBudget(sweeping.order)
  /\ sweeping' = NoStuck
  /\ missed' = missed \cup {sweeping.order}
  /\ UNCHANGED <<pending, sweepAttempts, deadLettered, failedRows, givingUp, jobs, retrying,
                 handlerRuns, restarts>>

\* Settlement finishes an order on its own.
settled(o) ==
  /\ o \in pending
  /\ pending' = pending \ {o}
  /\ UNCHANGED <<sweepAttempts, sweeping, deadLettered, failedRows, givingUp, jobs, retrying,
                 handlerRuns, restarts, missed>>

-----------------------------------------------------------------------------
(* The workers.                                                              *)

giveUp(w) ==
  /\ w \in StuckWithdrawals \ failedRows
  /\ failedRows' = failedRows \cup {w}
  /\ givingUp' = givingUp \cup {w}
  /\ UNCHANGED <<pending, sweepAttempts, sweeping, deadLettered, jobs, retrying, handlerRuns,
                 restarts, missed>>

givenUp(w) ==
  /\ w \in givingUp
  /\ givingUp' = givingUp \ {w}
  /\ recordJob("withdrawal_sign", w)
  /\ UNCHANGED <<pending, sweepAttempts, sweeping, deadLettered, failedRows, retrying,
                 restarts>>

-----------------------------------------------------------------------------
(* The operators.                                                            *)

\* Mutation: the job is not marked.
retryUnmarked(p, id) ==
  /\ retrying[p] = NoJob
  /\ \E i \in DOMAIN jobs : jobs[i].id = id /\ ~jobs[i].retried
  /\ retrying' = [retrying EXCEPT ![p] = id]
  /\ handlerRuns' = [handlerRuns EXCEPT ![id] = @ + 1]
  /\ UNCHANGED <<pending, sweepAttempts, sweeping, deadLettered, failedRows, givingUp, jobs,
                 restarts, missed>>

\* A job that is gone or was retried starts nothing.
retry(p, id) ==
  /\ retrying[p] = NoJob
  /\ \E i \in DOMAIN jobs :
       /\ jobs[i].id = id /\ ~jobs[i].retried
       /\ jobs' = [jobs EXCEPT ![i].retried = TRUE]
  /\ retrying' = [retrying EXCEPT ![p] = id]
  /\ handlerRuns' = [handlerRuns EXCEPT ![id] = @ + 1]
  /\ UNCHANGED <<pending, sweepAttempts, sweeping, deadLettered, failedRows, givingUp,
                 restarts, missed>>

\* The workers know no withdrawal of an order's id and refuse a terminal one:
\* the handler throws, and the job stays marked.
retryHandler(p) ==
  /\ retrying[p] # NoJob
  /\ retrying' = [retrying EXCEPT ![p] = NoJob]
  /\ UNCHANGED <<pending, sweepAttempts, sweeping, deadLettered, failedRows, givingUp, jobs,
                 handlerRuns, restarts, missed>>

-----------------------------------------------------------------------------
restart ==
  /\ restarts < MaxRestarts
  /\ restarts' = restarts + 1
  /\ sweeping' = NoStuck /\ deadLettered' = {} /\ givingUp' = {}
  /\ jobs' = <<>> /\ retrying' = [p \in Presses |-> NoJob]
  /\ missed' = missed \cup parked
                 \cup (IF sweeping = NoStuck THEN {} ELSE {sweeping.order})
  /\ UNCHANGED <<pending, sweepAttempts, failedRows, handlerRuns>>

JobsNext ==
  \/ resolveOrder \/ park \/ cycleFails \/ restart
  \/ \E o \in StuckOrders : claim(o) \/ settled(o)
  \/ \E w \in StuckWithdrawals : giveUp(w) \/ givenUp(w)
  \/ \E p \in Presses : retryHandler(p) \/ \E id \in DOMAIN handlerRuns : retry(p, id)

JobsSpec == JobsInit /\ [][JobsNext]_jobVars

-----------------------------------------------------------------------------
(* Two operators who press retry on one job start its handler once           *)
(* (dead-letter.ts, retry: marked before the handler runs), however the      *)
(* presses, the handlers and the queue's turnover interleave.                *)
RetriedOnce == \A id \in DOMAIN handlerRuns : handlerRuns[id] <= 1

(* An order whose attempts are used up and that no cycle holds is never      *)
(* claimed again, so the queue is the only place it can be seen: it is       *)
(* there, unless the process died, the row could not be read or the          *)
(* capacity dropped it (pending-engine-sweeper.ts, runOnce).                 *)
StuckIsParked ==
  \A o \in pending :
    sweepAttempts[o] = SweepBudget /\ sweeping.order # o => o \in parked \cup missed

(* Work that ran out of attempts neither vanishes nor is started twice.      *)
StuckIsHandled == RetriedOnce /\ StuckIsParked

=============================================================================
