---------------------------- MODULE Withdrawals ----------------------------
(***************************************************************************)
(* One user's withdrawals in one asset: the request and approval handlers   *)
(* of withdrawal.service.ts, the sign / broadcast / confirm / retry worker  *)
(* of withdrawal-workers.ts, the pool of durable nonce accounts and the     *)
(* ledger accounts the movements post to.  Solana is the environment.       *)
(*                                                                          *)
(* Every database write is a step of its own, and so is every read of the   *)
(* chain: a worker keeps what it listed (wk[p]) across its awaits, and      *)
(* another worker, the chain or a crash may come in between.                *)
(*                                                                          *)
(* A transaction's bytes are determined by the withdrawal and the durable   *)
(* nonce it is built on, so [w, a, n] stands for the bytes and for their    *)
(* signature.                                                               *)
(***************************************************************************)
EXTENDS Integers, FiniteSets

CONSTANTS
    W,               \* withdrawal ids, in creation order
    Purpose,         \* purpose of each: external, allocation, deallocation
    Amount,          \* amount of each
    Accounts,        \* the pool of nonce accounts
    Workers,         \* concurrent runs of the worker's cycles
    CustodyFunds, TradingFunds,      \* the user's balances at the start
    SignBudget, BroadcastBudget, ExpiryBudget,
    Faults,          \* which faults of FaultKinds can happen
    MaxNonce,        \* bound: a nonce account advances at most this often
    MaxReleases      \* bound: releases posted per withdrawal

Purposes == {"external", "allocation", "deallocation"}

(***************************************************************************)
(* crash    a worker or a request handler dies between two writes           *)
(* rpc      a read of the chain throws                                      *)
(* reject   the RPC node refuses a broadcast and nothing was sent           *)
(* timeout  a broadcast is reported as rejected although it was sent        *)
(* drop     the network forgets a submitted transaction                     *)
(* revert   a transaction lands and fails, spending its nonce               *)
(* signer   the signing round fails                                         *)
(* race     the chain moves between confirmOne's two reads                  *)
(* lock     posting the lock fails for a reason other than the balance      *)
(***************************************************************************)
FaultKinds == {"crash", "rpc", "reject", "timeout", "drop", "revert",
               "signer", "race", "lock"}

ASSUME WAssumption == W \subseteq Nat \ {0} /\ IsFiniteSet(W)
ASSUME PurposeAssumption == Purpose \in [W -> Purposes]
ASSUME AmountAssumption == Amount \in [W -> Nat \ {0}]
ASSUME FundsAssumption == CustodyFunds \in Nat /\ TradingFunds \in Nat
ASSUME BudgetAssumption ==
    SignBudget \in Nat /\ BroadcastBudget \in Nat /\ ExpiryBudget \in Nat
ASSUME BoundAssumption == MaxNonce \in Nat /\ MaxReleases \in Nat
ASSUME FaultsAssumption == Faults \subseteq FaultKinds

VARIABLES
    row,        \* the withdrawals table
    handler,    \* is a request or approval handler still working on w?
    lease,      \* nonce_accounts.leased_by: a withdrawal, or 0
    bal,        \* the user's ledger balances
    settled,    \* settlement postings per withdrawal
    released,   \* lock releases posted per withdrawal
    wk,         \* what each worker is doing, and the record it holds
    nonce,      \* chain: the value of each nonce account
    finalNonce, \* chain: its finalized value
    mempool,    \* chain: transactions that may still land
    landed,     \* chain: transactions that landed and paid
    reverted,   \* chain: transactions that landed and failed
    held        \* chain: what the user's address and the clearing pool hold

dbVars    == <<row, handler, lease, bal, settled, released>>
chainVars == <<nonce, finalNonce, mempool, landed, reverted, held>>
vars      == <<dbVars, wk, chainVars>>

-----------------------------------------------------------------------------
(* The withdrawal state machine *)

Statuses == {"ABSENT", "REQUESTED", "RISK_EVALUATING", "MANUAL_REVIEW",
             "APPROVED", "FUNDS_LOCKED", "SIGNING", "SIGNED", "BROADCAST",
             "CONFIRMED", "SETTLED", "SIGN_FAILED", "BROADCAST_FAILED",
             "EXPIRED", "REJECTED", "FAILED"}

TERMINAL == {"SETTLED", "REJECTED", "FAILED"}

LOCKED == {"FUNDS_LOCKED", "SIGNING", "SIGNED", "BROADCAST", "CONFIRMED",
           "SIGN_FAILED", "BROADCAST_FAILED", "EXPIRED"}

RetryEdges == {"SIGN_FAILED", "BROADCAST_FAILED", "EXPIRED"}

Tx   == [w : W, a : Accounts, n : Nat]
NoTx == [w |-> 0, a |-> 0, n |-> 0]

Row == [status : Statuses, bytes : Tx \cup {NoTx}, sig : Tx \cup {NoTx},
        sign : Nat, broadcast : Nat, expiry : Nat]

Absent == [status |-> "ABSENT", bytes |-> NoTx, sig |-> NoTx,
           sign |-> 0, broadcast |-> 0, expiry |-> 0]

Budget(edge) == CASE edge = "SIGN_FAILED"      -> SignBudget
                  [] edge = "BROADCAST_FAILED" -> BroadcastBudget
                  [] OTHER                     -> ExpiryBudget

Used(r) == CASE r.status = "SIGN_FAILED"      -> r.sign
             [] r.status = "BROADCAST_FAILED" -> r.broadcast
             [] OTHER                         -> r.expiry

\* transition(): compare-and-set on the status; a lost race writes nothing.
Transition(w, from, new) ==
    row' = IF row[w].status = from THEN [row EXCEPT ![w] = new] ELSE row

To(w, status) == [row[w] EXCEPT !.status = status]

\* claimNext takes the oldest row of a status.
Oldest(w, status) ==
    /\ row[w].status = status
    /\ \A v \in W : row[v].status = status => w <= v

-----------------------------------------------------------------------------
(* The ledger *)

LedgerAccounts == {"custody_available", "custody_locked",
                   "trading_available", "trading_locked"}

Available(w) == IF Purpose[w] = "deallocation"
                THEN "trading_available" ELSE "custody_available"
LockedIn(w)  == IF Purpose[w] = "deallocation"
                THEN "trading_locked" ELSE "custody_locked"

Move(from, to, amount) ==
    [bal EXCEPT ![from] = @ - amount, ![to] = @ + amount]

\* The database refuses a negative trading balance and no other.
MayDebit(account, amount) ==
    account \in {"trading_available", "trading_locked"} => bal[account] >= amount

\* Mutation: settlement posts the lock back to where it came from.
SettledBalancesReturned(w) == Move(LockedIn(w), Available(w), Amount[w])

\* What settlement posts: the lock is spent; an internal movement arrives in
\* the other tier, a withdrawal leaves the platform.
SettledBalances(w) ==
    CASE Purpose[w] = "allocation" ->
           Move("custody_locked", "trading_available", Amount[w])
      [] Purpose[w] = "deallocation" ->
           Move("trading_locked", "custody_available", Amount[w])
      [] OTHER -> [bal EXCEPT !["custody_locked"] = @ - Amount[w]]

-----------------------------------------------------------------------------
(* Initial state *)

IdleWorker == [at |-> "idle", w |-> 0, from |-> "ABSENT",
               bytes |-> NoTx, sig |-> NoTx]

Holders == {"user", "clearing"}

Init ==
    /\ row = [w \in W |-> Absent]
    /\ handler = [w \in W |-> FALSE]
    /\ lease = [a \in Accounts |-> 0]
    /\ bal = [x \in LedgerAccounts |->
                CASE x = "custody_available" -> CustodyFunds
                  [] x = "trading_available" -> TradingFunds
                  [] OTHER -> 0]
    /\ settled = [w \in W |-> 0]
    /\ released = [w \in W |-> 0]
    /\ wk = [p \in Workers |-> IdleWorker]
    /\ nonce = [a \in Accounts |-> 0]
    /\ finalNonce = [a \in Accounts |-> 0]
    /\ mempool = {} /\ landed = {} /\ reverted = {}
    /\ held = [h \in Holders |->
                 IF h = "user" THEN CustodyFunds ELSE TradingFunds]

-----------------------------------------------------------------------------
(* Requests and approvals (withdrawal.service.ts) *)

Create(w) ==
    /\ row[w].status = "ABSENT"
    /\ \A v \in W : v < w => row[v].status # "ABSENT"
    /\ row' = [row EXCEPT ![w] = To(w, "REQUESTED")]
    /\ handler' = [handler EXCEPT ![w] = TRUE]
    /\ UNCHANGED <<lease, bal, settled, released, wk, chainVars>>

Evaluate(w) ==
    /\ handler[w] /\ row[w].status = "REQUESTED"
    /\ row' = [row EXCEPT ![w] = To(w, "RISK_EVALUATING")]
    /\ UNCHANGED <<handler, lease, bal, settled, released, wk, chainVars>>

\* The risk verdict.  An internal movement is approved without the rules.
Decide(w) ==
    /\ handler[w] /\ row[w].status = "RISK_EVALUATING"
    /\ \E verdict \in IF Purpose[w] = "external"
                      THEN {"REJECTED", "MANUAL_REVIEW", "APPROVED"}
                      ELSE {"APPROVED"} :
         /\ row' = [row EXCEPT ![w] = To(w, verdict)]
         /\ handler' = [handler EXCEPT ![w] = verdict = "APPROVED"]
    /\ UNCHANGED <<lease, bal, settled, released, wk, chainVars>>

Approve(w) ==
    /\ row[w].status = "MANUAL_REVIEW"
    /\ row' = [row EXCEPT ![w] = To(w, "APPROVED")]
    /\ handler' = [handler EXCEPT ![w] = TRUE]
    /\ UNCHANGED <<lease, bal, settled, released, wk, chainVars>>

Reject(w) ==
    /\ row[w].status = "MANUAL_REVIEW"
    /\ row' = [row EXCEPT ![w] = To(w, "REJECTED")]
    /\ UNCHANGED <<handler, lease, bal, settled, released, wk, chainVars>>

\* Balance check, lock posting and FUNDS_LOCKED are one serializable
\* transaction; any failure of it rejects the withdrawal.
LockFunds(w) ==
    /\ handler[w] /\ row[w].status = "APPROVED"
    /\ \/ /\ bal[Available(w)] >= Amount[w]
          /\ bal' = Move(Available(w), LockedIn(w), Amount[w])
          /\ row' = [row EXCEPT ![w] = To(w, "FUNDS_LOCKED")]
       \/ /\ bal[Available(w)] < Amount[w] \/ "lock" \in Faults
          /\ row' = [row EXCEPT ![w] = To(w, "REJECTED")]
          /\ UNCHANGED bal
    /\ handler' = [handler EXCEPT ![w] = FALSE]
    /\ UNCHANGED <<lease, settled, released, wk, chainVars>>

HandlerDies(w) ==
    /\ "crash" \in Faults /\ handler[w]
    /\ handler' = [handler EXCEPT ![w] = FALSE]
    /\ UNCHANGED <<row, lease, bal, settled, released, wk, chainVars>>

-----------------------------------------------------------------------------
(* The signing worker *)

At(p, at) == wk[p].at = at
Goto(p, at) == wk' = [wk EXCEPT ![p].at = at]
Done(p) == wk' = [wk EXCEPT ![p] = IdleWorker]

\* Mutation: the attempts count down.
FailedCountsDown(w, status, edge) ==
    CASE edge = "sign"      -> [To(w, status) EXCEPT !.sign = @ - 1]
      [] edge = "broadcast" -> [To(w, status) EXCEPT !.broadcast = @ - 1]
      [] OTHER              -> [To(w, status) EXCEPT !.expiry = @ - 1]

Failed(w, status, edge) ==
    CASE edge = "sign"      -> [To(w, status) EXCEPT !.sign = @ + 1]
      [] edge = "broadcast" -> [To(w, status) EXCEPT !.broadcast = @ + 1]
      [] OTHER              -> [To(w, status) EXCEPT !.expiry = @ + 1]

ClaimSigning(p, w) ==
    /\ At(p, "idle") /\ Oldest(w, "FUNDS_LOCKED")
    /\ row' = [row EXCEPT ![w] = To(w, "SIGNING")]
    /\ wk' = [wk EXCEPT ![p] = [IdleWorker EXCEPT !.at = "lease", !.w = w]]
    /\ UNCHANGED <<handler, lease, bal, settled, released, chainVars>>

HeldBy(w) == {a \in Accounts : lease[a] = w}

\* Mutation: an account that is leased to another withdrawal is handed out.
LeaseAny(p) ==
    /\ At(p, "lease")
    /\ \E a \in Accounts :
         /\ lease' = [lease EXCEPT ![a] = wk[p].w]
         /\ wk' = [wk EXCEPT ![p].at = "read",
                             ![p].bytes = [w |-> wk[p].w, a |-> a, n |-> 0]]
    /\ UNCHANGED <<row, handler, bal, settled, released, chainVars>>

\* A held lease is returned again; a dry pool costs no attempt.
Lease(p) ==
    /\ At(p, "lease")
    /\ LET w == wk[p].w
           free == HeldBy(0) IN
       \/ /\ \E a \in IF HeldBy(w) # {} THEN HeldBy(w) ELSE free :
               /\ lease' = [lease EXCEPT ![a] = w]
               /\ wk' = [wk EXCEPT ![p].at = "read",
                                   ![p].bytes = [w |-> w, a |-> a, n |-> 0]]
          /\ UNCHANGED row
       \/ /\ HeldBy(w) = {} /\ free = {}
          /\ Transition(w, "SIGNING", To(w, "SIGN_FAILED"))
          /\ Done(p)
          /\ UNCHANGED lease
    /\ UNCHANGED <<handler, bal, settled, released, chainVars>>

\* The nonce is read at finalized commitment and the message built on it.
ReadNonce(p) ==
    /\ At(p, "read")
    /\ wk' = [wk EXCEPT ![p].at = "sign",
                        ![p].bytes.n = finalNonce[wk[p].bytes.a]]
    /\ UNCHANGED <<dbVars, chainVars>>

\* The bytes and their nonce are stored with the SIGNED status.  An earlier
\* attempt's txSignature stays in the row.
StoreSigned(p) ==
    /\ At(p, "sign")
    /\ LET w == wk[p].w IN
       Transition(w, "SIGNING",
                  [To(w, "SIGNED") EXCEPT !.bytes = wk[p].bytes])
    /\ Done(p)
    /\ UNCHANGED <<handler, lease, bal, settled, released, chainVars>>

\* The catch of signOne: the lease is kept.
SigningFails(p) ==
    /\ "signer" \in Faults
    /\ wk[p].at \in {"lease", "read", "sign"}
    /\ LET w == wk[p].w IN
       Transition(w, "SIGNING", Failed(w, "SIGN_FAILED", "sign"))
    /\ Done(p)
    /\ UNCHANGED <<handler, lease, bal, settled, released, chainVars>>

-----------------------------------------------------------------------------
(* The broadcast worker *)

\* The network keeps bytes whose nonce is unspent and discards the others.
Submitted(t) == IF nonce[t.a] = t.n THEN mempool \cup {t} ELSE mempool

ClaimBroadcast(p, w) ==
    /\ At(p, "idle") /\ Oldest(w, "SIGNED")
    /\ row' = [row EXCEPT ![w] = To(w, "BROADCAST")]
    /\ wk' = [wk EXCEPT ![p] = [IdleWorker EXCEPT
                !.at = "send", !.w = w, !.bytes = row[w].bytes]]
    /\ UNCHANGED <<handler, lease, bal, settled, released, chainVars>>

Broadcast(p) ==
    /\ At(p, "send")
    /\ LET t == wk[p].bytes IN
       \/ mempool' = Submitted(t) /\ Goto(p, "note")
       \/ /\ "timeout" \in Faults
          /\ mempool' = Submitted(t) /\ Goto(p, "refused")
       \/ /\ "reject" \in Faults
          /\ UNCHANGED mempool /\ Goto(p, "refused")
       \/ /\ nonce[t.a] > t.n
          /\ UNCHANGED mempool /\ Goto(p, "spent")
    /\ UNCHANGED <<dbVars, nonce, finalNonce, landed, reverted, held>>

\* A plain update by id: the status is not looked at.
NoteSignature(p) ==
    /\ At(p, "note")
    /\ row' = [row EXCEPT ![wk[p].w].sig = wk[p].bytes]
    /\ Done(p)
    /\ UNCHANGED <<handler, lease, bal, settled, released, chainVars>>

BroadcastRefused(p) ==
    /\ At(p, "refused")
    /\ LET w == wk[p].w IN
       Transition(w, "BROADCAST", Failed(w, "BROADCAST_FAILED", "broadcast"))
    /\ Done(p)
    /\ UNCHANGED <<handler, lease, bal, settled, released, chainVars>>

BroadcastSpent(p) ==
    /\ At(p, "spent")
    /\ LET w == wk[p].w IN
       Transition(w, "BROADCAST", Failed(w, "EXPIRED", "expiry"))
    /\ Done(p)
    /\ UNCHANGED <<handler, lease, bal, settled, released, chainVars>>

-----------------------------------------------------------------------------
(* The confirmation worker *)

\* Mutation: a processed transaction counts as final.
FinalStatusProcessed(t) ==
    CASE t \in reverted -> "failed"
      [] t \in landed   -> "final"
      [] OTHER          -> "pending"

FinalStatus(t) ==
    CASE t \in reverted                            -> "failed"
      [] t \in landed /\ finalNonce[t.a] > t.n     -> "final"
      [] OTHER                                     -> "pending"

\* The row is listed; without a signature only the nonce can be asked.
ListBroadcast(p, w) ==
    /\ At(p, "idle") /\ row[w].status = "BROADCAST"
    /\ wk' = [wk EXCEPT ![p] =
                [at    |-> IF row[w].sig = NoTx THEN "nonce" ELSE "status",
                 w     |-> w, from |-> "BROADCAST",
                 bytes |-> row[w].bytes, sig |-> row[w].sig]]
    /\ UNCHANGED <<dbVars, chainVars>>

ReadStatus(p) ==
    /\ At(p, "status")
    /\ Goto(p, CASE FinalStatus(wk[p].sig) = "final"  -> "confirm"
                 [] FinalStatus(wk[p].sig) = "failed" -> "reverted"
                 [] OTHER                             -> "nonce")
    /\ UNCHANGED <<dbVars, chainVars>>

Reverted(p) ==
    /\ At(p, "reverted")
    /\ LET w == wk[p].w IN
       Transition(w, "BROADCAST", Failed(w, "BROADCAST_FAILED", "broadcast"))
    /\ Done(p)
    /\ UNCHANGED <<handler, lease, bal, settled, released, chainVars>>

\* Mutation: the loser of the compare-and-set goes on to settle.
ConfirmIgnoresRace(p) ==
    /\ At(p, "confirm")
    /\ Transition(wk[p].w, "BROADCAST", To(wk[p].w, "CONFIRMED"))
    /\ Goto(p, "settle")
    /\ UNCHANGED <<handler, lease, bal, settled, released, chainVars>>

Confirm(p) ==
    /\ At(p, "confirm")
    /\ LET w == wk[p].w IN
       /\ Transition(w, "BROADCAST", To(w, "CONFIRMED"))
       /\ IF row[w].status = "BROADCAST" THEN Goto(p, "settle") ELSE Done(p)
    /\ UNCHANGED <<handler, lease, bal, settled, released, chainVars>>

Unleased(w) == [a \in Accounts |-> IF lease[a] = w THEN 0 ELSE lease[a]]

\* Mutation: settling keeps the nonce account.
SettleKeepsLease(p) ==
    /\ At(p, "settle")
    /\ LET w == wk[p].w IN
       /\ bal' = SettledBalances(w)
       /\ settled' = [settled EXCEPT ![w] = @ + 1]
       /\ Transition(w, "CONFIRMED", To(w, "SETTLED"))
    /\ Done(p)
    /\ UNCHANGED <<handler, lease, released, chainVars>>

\* After the fee is read: posting, SETTLED and the lease's release commit as
\* one, or the database refuses the posting.  The result of the transition is
\* not looked at.
Settle(p) ==
    /\ At(p, "settle")
    /\ LET w == wk[p].w IN
       IF MayDebit(LockedIn(w), Amount[w])
       THEN /\ bal' = SettledBalances(w)
            /\ settled' = [settled EXCEPT ![w] = @ + 1]
            /\ Transition(w, "CONFIRMED", To(w, "SETTLED"))
            /\ lease' = Unleased(w)
       ELSE UNCHANGED <<bal, settled, row, lease>>
    /\ Done(p)
    /\ UNCHANGED <<handler, released, chainVars>>

\* Mutation: a transaction that is not final yet is assumed dead.
ReadAdvancedAssumesDead(p) ==
    /\ At(p, "nonce")
    /\ Goto(p, "expire")
    /\ UNCHANGED <<dbVars, chainVars>>

\* resolveAmbiguity: has the nonce moved on from the one the bytes use?
ReadAdvanced(p) ==
    /\ At(p, "nonce")
    /\ Goto(p, IF finalNonce[wk[p].bytes.a] = wk[p].bytes.n
               THEN "resend" ELSE "expire")
    /\ UNCHANGED <<dbVars, chainVars>>

\* The same bytes again; the outcome is not looked at.
Rebroadcast(p) ==
    /\ At(p, "resend")
    /\ \/ mempool' = Submitted(wk[p].bytes)
       \/ "reject" \in Faults /\ UNCHANGED mempool
    /\ Done(p)
    /\ UNCHANGED <<dbVars, nonce, finalNonce, landed, reverted, held>>

Expire(p) ==
    /\ At(p, "expire")
    /\ LET w == wk[p].w IN
       Transition(w, "BROADCAST", Failed(w, "EXPIRED", "expiry"))
    /\ Done(p)
    /\ UNCHANGED <<handler, lease, bal, settled, released, chainVars>>

\* A read of the chain throws and the cycle ends: the row stays as it is.
ReadFails(p) ==
    /\ "rpc" \in Faults
    /\ wk[p].at \in {"status", "nonce", "settle"}
    /\ Done(p)
    /\ UNCHANGED <<dbVars, chainVars>>

-----------------------------------------------------------------------------
(* The retry worker and giving up *)

ListRetry(p, w) ==
    /\ At(p, "idle") /\ row[w].status \in RetryEdges
    /\ wk' = [wk EXCEPT ![p] =
                [at |-> IF Used(row[w]) >= Budget(row[w].status) THEN "unlock"
                        ELSE IF row[w].status = "EXPIRED" THEN "drop"
                        ELSE "requeue",
                 w |-> w, from |-> row[w].status,
                 bytes |-> row[w].bytes, sig |-> row[w].sig]]
    /\ UNCHANGED <<dbVars, chainVars>>

DropLease(p) ==
    /\ At(p, "drop")
    /\ lease' = Unleased(wk[p].w)
    /\ Goto(p, "requeue")
    /\ UNCHANGED <<row, handler, bal, settled, released, chainVars>>

Requeue(p) ==
    /\ At(p, "requeue")
    /\ LET w == wk[p].w IN
       Transition(w, wk[p].from, To(w, "FUNDS_LOCKED"))
    /\ Done(p)
    /\ UNCHANGED <<handler, lease, bal, settled, released, chainVars>>

\* Mutation: giving up leaves the lock in place.
ReleaseLockSkipped(p) ==
    /\ At(p, "unlock")
    /\ Goto(p, "unlease")
    /\ UNCHANGED <<dbVars, chainVars>>

\* Mutation: the release is always posted to the custody tier.
ReleaseLockCustody(p) ==
    /\ At(p, "unlock")
    /\ LET w == wk[p].w IN
       /\ released[w] < MaxReleases
       /\ bal' = Move("custody_locked", "custody_available", Amount[w])
       /\ released' = [released EXCEPT ![w] = @ + 1]
    /\ Goto(p, "unlease")
    /\ UNCHANGED <<row, handler, lease, settled, chainVars>>

\* giveUp, first write: the release is posted whatever was posted before.  A
\* release the database refuses ends the cycle.
ReleaseLock(p) ==
    /\ At(p, "unlock")
    /\ LET w == wk[p].w IN
       IF MayDebit(LockedIn(w), Amount[w])
       THEN /\ released[w] < MaxReleases
            /\ bal' = Move(LockedIn(w), Available(w), Amount[w])
            /\ released' = [released EXCEPT ![w] = @ + 1]
            /\ Goto(p, "unlease")
       ELSE Done(p) /\ UNCHANGED <<bal, released>>
    /\ UNCHANGED <<row, handler, lease, settled, chainVars>>

\* giveUp, second write.
ReleaseLease(p) ==
    /\ At(p, "unlease")
    /\ lease' = Unleased(wk[p].w)
    /\ Goto(p, "fail")
    /\ UNCHANGED <<row, handler, bal, settled, released, chainVars>>

\* Mutation: giveUp ends without the terminal transition.
FailSkipsTransition(p) ==
    /\ At(p, "fail")
    /\ Done(p)
    /\ UNCHANGED <<row, handler, lease, bal, settled, released, chainVars>>

\* giveUp, third write.
Fail(p) ==
    /\ At(p, "fail")
    /\ LET w == wk[p].w IN
       Transition(w, wk[p].from, To(w, "FAILED"))
    /\ Done(p)
    /\ UNCHANGED <<handler, lease, bal, settled, released, chainVars>>

WorkerDies(p) ==
    /\ "crash" \in Faults /\ ~At(p, "idle")
    /\ Done(p)
    /\ UNCHANGED <<dbVars, chainVars>>

-----------------------------------------------------------------------------
(* Solana *)

\* Without "race", the chain stands still between the two reads of confirmOne.
ChainMoves == "race" \in Faults \/ \A p \in Workers : ~At(p, "nonce")

Payer(w) == IF Purpose[w] = "deallocation" THEN "clearing" ELSE "user"

Paid(w) ==
    LET out == [held EXCEPT ![Payer(w)] = @ - Amount[w]] IN
    CASE Purpose[w] = "allocation"   -> [out EXCEPT !["clearing"] = @ + Amount[w]]
      [] Purpose[w] = "deallocation" -> [out EXCEPT !["user"] = @ + Amount[w]]
      [] OTHER                       -> out

\* A transaction lands: its nonce is spent, and it pays or fails.
Land(t) ==
    /\ ChainMoves
    /\ t \in mempool /\ nonce[t.a] = t.n /\ t.n < MaxNonce
    /\ nonce' = [nonce EXCEPT ![t.a] = @ + 1]
    /\ mempool' = {u \in mempool : u.a # t.a}
    /\ \/ /\ held[Payer(t.w)] >= Amount[t.w]
          /\ landed' = landed \cup {t}
          /\ held' = Paid(t.w)
          /\ UNCHANGED reverted
       \/ /\ held[Payer(t.w)] < Amount[t.w] \/ "revert" \in Faults
          /\ reverted' = reverted \cup {t}
          /\ UNCHANGED <<landed, held>>
    /\ UNCHANGED <<dbVars, wk, finalNonce>>

Finalize(a) ==
    /\ ChainMoves
    /\ finalNonce[a] < nonce[a]
    /\ finalNonce' = [finalNonce EXCEPT ![a] = @ + 1]
    /\ UNCHANGED <<dbVars, wk, nonce, mempool, landed, reverted, held>>

Drop(t) ==
    /\ "drop" \in Faults /\ t \in mempool
    /\ mempool' = mempool \ {t}
    /\ UNCHANGED <<dbVars, wk, nonce, finalNonce, landed, reverted, held>>

-----------------------------------------------------------------------------
(* The specification *)

Handler(w) == Evaluate(w) \/ Decide(w) \/ LockFunds(w)

Operator(w) == Approve(w) \/ Reject(w)

Pick(p, w) == \/ ClaimSigning(p, w) \/ ClaimBroadcast(p, w)
              \/ ListBroadcast(p, w) \/ ListRetry(p, w)

Continue(p) ==
    \/ Lease(p) \/ ReadNonce(p) \/ StoreSigned(p)
    \/ Broadcast(p) \/ NoteSignature(p) \/ BroadcastRefused(p)
    \/ BroadcastSpent(p)
    \/ ReadStatus(p) \/ Reverted(p) \/ Confirm(p) \/ Settle(p)
    \/ ReadAdvanced(p) \/ Rebroadcast(p) \/ Expire(p)
    \/ DropLease(p) \/ Requeue(p)
    \/ ReleaseLock(p) \/ ReleaseLease(p) \/ Fail(p)

WorkerFault(p) == SigningFails(p) \/ ReadFails(p) \/ WorkerDies(p)

Chain == \/ \E t \in mempool : Land(t) \/ Drop(t)
         \/ \E a \in Accounts : Finalize(a)

Next ==
    \/ \E w \in W : Create(w) \/ Handler(w) \/ Operator(w) \/ HandlerDies(w)
    \/ \E p \in Workers : \/ Continue(p) \/ WorkerFault(p)
                          \/ \E w \in W : Pick(p, w)
    \/ Chain

Spec == Init /\ [][Next]_vars

\* Handlers and workers keep running, a worker's cycles visit every row they
\* list, submitted transactions that stay valid land, and the chain finalizes.
Fairness(running) ==
    /\ \A w \in W : /\ WF_vars(Handler(w))
                    /\ SF_vars(\E t \in mempool : t.w = w /\ Land(t))
    /\ \A p \in running : /\ WF_vars(Continue(p))
                          /\ \A w \in W : SF_vars(Pick(p, w))
    /\ \A a \in Accounts : SF_vars(Finalize(a))

FairSpec == Spec /\ Fairness(Workers)

-----------------------------------------------------------------------------
(* Properties *)

Stages == {"idle", "lease", "read", "sign", "send", "note", "refused", "spent",
           "status", "nonce", "reverted", "confirm", "settle", "resend",
           "expire", "drop", "requeue", "unlock", "unlease", "fail"}

WorkerState == [at : Stages, w : W \cup {0}, from : Statuses,
                bytes : Tx \cup {NoTx}, sig : Tx \cup {NoTx}]

(* Every variable keeps its type: rows, leases, balances, what the workers   *)
(* hold across their awaits, and the chain.                                  *)
TypeOK ==
    /\ row \in [W -> Row]
    /\ handler \in [W -> BOOLEAN]
    /\ lease \in [Accounts -> W \cup {0}]
    /\ bal \in [LedgerAccounts -> Int]
    /\ settled \in [W -> Nat] /\ released \in [W -> Nat]
    /\ wk \in [Workers -> WorkerState]
    /\ nonce \in [Accounts -> Nat] /\ finalNonce \in [Accounts -> Nat]
    /\ mempool \subseteq Tx /\ landed \subseteq Tx /\ reverted \subseteq Tx
    /\ held \in [Holders -> Int]

(* A withdrawal is confirmed or settled only when one of its transactions    *)
(* paid and is final on the chain, whatever order the workers, the chain and *)
(* crashes take (confirmOne, settle).                                        *)
SettledWasFinal ==
    \A w \in W : row[w].status \in {"CONFIRMED", "SETTLED"} =>
        \E t \in landed : t.w = w /\ finalNonce[t.a] > t.n

(* The settlement is posted to the ledger once for a settled withdrawal and  *)
(* never for another, although settle() ignores the result of its            *)
(* compare-and-set.                                                          *)
SettledOnce ==
    \A w \in W : settled[w] = IF row[w].status = "SETTLED" THEN 1 ELSE 0

(* A withdrawal is settled once, and only for a payment that is final,       *)
(* however many workers race on it (confirmOne, settle).                     *)
SettlementIsRight == SettledWasFinal /\ SettledOnce

(* The double-spend resolveAmbiguity and ADR-0012 are written against: no    *)
(* withdrawal has two transactions that landed and paid.                     *)
PaidAtMostOnce == \A t, u \in landed : t.w = u.w => t = u

(* What a user can spend is on the chain: a released lock whose transaction  *)
(* still lands, a release posted twice and a second payment all break it.    *)
AvailableIsBacked ==
    /\ bal["custody_available"] <= held["user"]
    /\ bal["trading_available"] <= held["clearing"]

(* A nonce account serves one in-flight withdrawal: while signed bytes may   *)
(* be sent, the account they use is leased to their withdrawal (ADR-0009).   *)
LeaseCoversBytes ==
    \A w \in W : row[w].status \in {"SIGNED", "BROADCAST"} =>
        lease[row[w].bytes.a] = w

(* A withdrawal that ended holds no nonce account, so the pool cannot run    *)
(* dry for good (settle, giveUp).                                            *)
TerminalHoldsNoLease ==
    \A w \in W : row[w].status \in TERMINAL => HeldBy(w) = {}

(* giveUp's release is "idempotent in effect": a withdrawal's lock is given  *)
(* back to the user at most once.                                            *)
ReleasedAtMostOnce == \A w \in W : released[w] <= 1

(* Every withdrawal that was requested ends, or waits for an operator.       *)
Resolved ==
    \A w \in W : row[w].status # "ABSENT" ~>
                 row[w].status \in TERMINAL \cup {"MANUAL_REVIEW"}

=============================================================================
