--------------------------- MODULE MCWithdrawals ---------------------------
(***************************************************************************)
(* Withdrawals in two settings; `part` says which one a behaviour has.      *)
(* Steady: one worker, a withdrawal out of custody while another amount     *)
(* returns from trading; signing fails, transactions are dropped or revert. *)
(* Racing: two workers on one allocation; they and the handlers die, reads  *)
(* and broadcasts fail, the chain moves between two reads.                  *)
(***************************************************************************)
EXTENDS Withdrawals, FiniteSetsExt, TLC

CONSTANTS p1, p2

VARIABLE part

Unit == [w \in W |-> 1]
OutAndBack == [w \in W |-> IF w = 1 THEN "external" ELSE "deallocation"]
Allocation == [w \in W |-> "allocation"]
External == [w \in W |-> "external"]

Racing == INSTANCE Withdrawals WITH
    Purpose <- Allocation, Faults <- {"crash", "timeout", "race", "reject", "rpc"},
    CustodyFunds <- 2, TradingFunds <- 0, SignBudget <- 1, MaxNonce <- 2

SteadyPart == part = "steady" /\ Next /\ wk'[p2] = wk[p2] /\ UNCHANGED part
RacingPart == part = "racing" /\ Racing!Next /\ row'[2] = row[2] /\ UNCHANGED part

WithdrawalsSpec ==
    /\ \/ part = "steady" /\ Init
       \/ part = "racing" /\ Racing!Init
    /\ [][SteadyPart \/ RacingPart]_<<part, vars>>
    /\ part = "steady" => Fairness({p1})

\* One worker, one withdrawal and whatever Faults allows.
AloneSpec ==
    /\ part = "alone" /\ Init
    /\ [][Next /\ UNCHANGED part]_<<part, vars>>

-----------------------------------------------------------------------------
HoldsLock(w) == row[w].status \in LOCKED /\ released[w] = 0

(* The locked balance of each tier is the sum of the withdrawals the state   *)
(* machine says are locked, and a lock was released only for a withdrawal    *)
(* that failed or is being given up (LOCKED_WITHDRAWAL_STATUSES, giveUp).    *)
LocksAgree ==
    /\ \A x \in {"custody_locked", "trading_locked"} :
         bal[x] = MapThenSumSet(LAMBDA w : Amount[w],
                                {w \in W : HoldsLock(w) /\ LockedIn(w) = x})
    /\ \A w \in W : released[w] > 0 =>
         \/ row[w].status = "FAILED"
         \/ \E p \in Workers : wk[p].w = w /\ wk[p].at \in {"unlease", "fail"}

(* While no process dies and every answer is true, nothing is paid twice and *)
(* nothing is promised twice: each withdrawal pays at most once, what a user *)
(* can spend is on the chain, and the locks are those of the rows, each      *)
(* given back at most once (resolveAmbiguity, settle, giveUp).               *)
SteadyPaysOnce ==
    part = "steady" =>
        PaidAtMostOnce /\ AvailableIsBacked /\ LocksAgree /\ ReleasedAtMostOnce

(* A nonce account serves one withdrawal whose bytes may still be sent, and  *)
(* none that ended (lease, release).                                         *)
SteadyLeases == part = "steady" => LeaseCoversBytes /\ TerminalHoldsNoLease

(* Every withdrawal that was requested ends, or waits for an operator, while *)
(* signing rounds fail and transactions are dropped or revert.               *)
SteadyResolves == part = "steady" => Resolved

=============================================================================
