------------------------------- MODULE Books --------------------------------
(***************************************************************************)
(* The books under concurrent requests.  Withdrawals, allocations to the    *)
(* trading tier and back, and orders with their holds are asked for by      *)
(* handlers that read, decide and write in separate steps; each write is    *)
(* one serializable transaction that re-reads the balance it spends.        *)
(*                                                                          *)
(* The on-chain life of a withdrawal (Withdrawals) is folded into its two   *)
(* ends, settled or released; the talk with the engine (OrderLifecycle,     *)
(* MatchingEngine) into the fills it may produce: any taker may meet any    *)
(* resting order it crosses, at the resting order's price.                  *)
(***************************************************************************)
EXTENDS Ledger, RiskRules, OrderRules

CONSTANTS Cluster, Native, Market, WithdrawalPolicy, OrderPolicy,
          Opening,        \* per owner and asset: [custody, trading] at the start
          Rent,           \* what each owner's first native deposit reserved
          Requests,       \* withdrawals that may be asked for
          OrderRequests,  \* orders that may be asked for
          PastVolume,     \* quote volume of each owner before today
          Fees,           \* network fees a transaction may cost
          MaxRows,        \* bound: withdrawals and orders together
          MaxNow          \* bound: clock

VARIABLES ledger,  \* account -> amount
          wds,     \* withdrawal rows, in order of creation
          ords,    \* order rows; "ADMITTED" is a handler's own, not yet stored
          last,    \* price of the last trade
          halted,  \* settlement met a hold it cannot account for
          now

booksVars == <<ledger, wds, ords, last, halted, now>>

Assets == {Market.baseAsset, Market.quoteAsset}

Rows == Len(wds) + Len(ords)

-----------------------------------------------------------------------------
(* Withdrawal requests.                                                      *)

RELEASED == {"REJECTED", "FAILED"}
LOCKED == {"FUNDS_LOCKED"}

\* create, and the move to RISK_EVALUATING.
Request(r) ==
  /\ Rows < MaxRows
  /\ wds' = Append(wds, [request |-> r, status |-> "RISK_EVALUATING", createdAt |-> now,
                         verdict |-> "none"])
  /\ UNCHANGED <<ledger, ords, last, halted, now>>

\* Mutation: only withdrawals that have settled count against a limit.
listRecentSettled(u, from) ==
  {[id |-> i, amount |-> wds[i].request.amount, asset |-> wds[i].request.asset,
    createdAt |-> wds[i].createdAt] :
      i \in {j \in DOMAIN wds : /\ wds[j].request.user = u /\ wds[j].createdAt >= from
                                /\ wds[j].status = "SETTLED"}}

\* Everything that was not rejected counts, the request itself included.
listRecentForUser(u, from) ==
  {[id |-> i, amount |-> wds[i].request.amount, asset |-> wds[i].request.asset,
    createdAt |-> wds[i].createdAt] :
      i \in {j \in DOMAIN wds : /\ wds[j].request.user = u /\ wds[j].createdAt >= from
                                /\ wds[j].status # "REJECTED"}}

listPriorDestinations(u, from) ==
  {[address |-> wds[i].request.destination, lastUsedAt |-> wds[i].createdAt] :
      i \in {j \in DOMAIN wds : /\ wds[j].request.user = u /\ wds[j].createdAt >= from
                                /\ wds[j].status = "SETTLED"}}

buildRiskInput(r) ==
  [accountStatus |-> "active", asset |-> r.asset, amount |-> r.amount,
   destination |-> r.destination, destinationCheck |-> r.check, valueUsd |-> r.valueUsd,
   priorDestinations |->
     listPriorDestinations(r.user, now - WithdrawalPolicy.knownDestinationWindow),
   recentWithdrawals |-> listRecentForUser(r.user, now - WithdrawalPolicy.day),
   now |-> now]

\* buildRiskInput and evaluate: the verdict is reached on what was read, and
\* applied in a later step.
Evaluate(i) ==
  /\ wds[i].status = "RISK_EVALUATING" /\ wds[i].request.purpose = "external"
  /\ wds[i].verdict = "none"
  /\ wds' = [wds EXCEPT ![i].verdict =
               evaluate(buildRiskInput(wds[i].request), WithdrawalPolicy).verdict]
  /\ UNCHANGED <<ledger, ords, last, halted, now>>

\* The verdict moves the row.
Decide(i) ==
  /\ wds[i].status = "RISK_EVALUATING" /\ wds[i].verdict # "none"
  /\ wds' = [wds EXCEPT ![i].status =
               CASE wds[i].verdict = "deny" -> "REJECTED"
                 [] wds[i].verdict = "review" -> "MANUAL_REVIEW"
                 [] wds[i].verdict = "approve" -> "APPROVED"]
  /\ UNCHANGED <<ledger, ords, last, halted, now>>

\* requestInternal: an allocation or deallocation is approved without rules,
\* its destination comes from configuration.
ApproveInternal(i) ==
  /\ wds[i].status = "RISK_EVALUATING" /\ wds[i].request.purpose # "external"
  /\ wds' = [wds EXCEPT ![i].status = "APPROVED"]
  /\ UNCHANGED <<ledger, ords, last, halted, now>>

\* approve and reject: an operator's decision on a queued withdrawal.
Approve(i) ==
  /\ wds[i].status = "MANUAL_REVIEW"
  /\ wds' = [wds EXCEPT ![i].status = "APPROVED"]
  /\ UNCHANGED <<ledger, ords, last, halted, now>>

Reject(i) ==
  /\ wds[i].status = "MANUAL_REVIEW"
  /\ wds' = [wds EXCEPT ![i].status = "REJECTED"]
  /\ UNCHANGED <<ledger, ords, last, halted, now>>

\* Mutation: the balance is not read again under the lock.
LockFundsUnread(i) ==
  LET r == wds[i].request
      posting == IF r.purpose = "deallocation" THEN postTradingLock(r.user, r.asset, r.amount)
                 ELSE postWithdrawalLock(r.user, r.asset, r.amount)
  IN  /\ wds[i].status = "APPROVED"
      /\ ledger' = postTransaction(ledger, posting)
      /\ wds' = [wds EXCEPT ![i].status = "FUNDS_LOCKED"]
      /\ UNCHANGED <<ords, last, halted, now>>

\* lockFunds: read the balance, post the lock and move the row in one
\* transaction; a request the balance does not cover is rejected.
LockFunds(i) ==
  LET r == wds[i].request
      fromTrading == r.purpose = "deallocation"
      available == held(ledger, IF fromTrading THEN userTradingAvailable(r.user, r.asset)
                               ELSE userCustodyAvailable(r.user, r.asset))
      posting == IF fromTrading THEN postTradingLock(r.user, r.asset, r.amount)
                 ELSE postWithdrawalLock(r.user, r.asset, r.amount)
  IN  /\ wds[i].status = "APPROVED"
      /\ IF available < r.amount
         THEN /\ wds' = [wds EXCEPT ![i].status = "REJECTED"]
              /\ UNCHANGED ledger
         ELSE /\ ledger' = postTransaction(ledger, posting)
              /\ wds' = [wds EXCEPT ![i].status = "FUNDS_LOCKED"]
      /\ UNCHANGED <<ords, last, halted, now>>

\* Mutation: a lock is always returned to custody.
releaseLockToCustody(r) == postWithdrawalRelease(r.user, r.asset, r.amount)

releaseLock(r) ==
  IF r.purpose = "deallocation" THEN postTradingRelease(r.user, r.asset, r.amount)
  ELSE postWithdrawalRelease(r.user, r.asset, r.amount)

\* The withdrawal failed for good: its lock is released.
Fail(i) ==
  /\ wds[i].status \in LOCKED
  /\ ledger' = postTransaction(ledger, releaseLock(wds[i].request))
  /\ wds' = [wds EXCEPT ![i].status = "FAILED"]
  /\ UNCHANGED <<ords, last, halted, now>>

\* Mutation: every movement settles as one that left the platform.
SettlementAsExternal(r, fee) == postWithdrawalSettlement(r.user, r.asset, r.amount, Native, fee)

\* What the movement was decides how it posts.
Settlement(r, fee) ==
  CASE r.purpose = "allocation" -> postAllocation(r.user, r.asset, r.amount, Native, fee)
    [] r.purpose = "deallocation" -> postDeallocation(r.user, r.asset, r.amount, Native, fee)
    [] r.purpose = "external" ->
         postWithdrawalSettlement(r.user, r.asset, r.amount, Native, fee)

\* settle: the transaction is final and the movement is posted with its fee.
Settle(i) ==
  /\ wds[i].status \in LOCKED
  /\ \E fee \in Fees : ledger' = postTransaction(ledger, Settlement(wds[i].request, fee))
  /\ wds' = [wds EXCEPT ![i].status = "SETTLED"]
  /\ UNCHANGED <<ords, last, halted, now>>

-----------------------------------------------------------------------------
(* Orders.                                                                   *)

OPEN_STATUSES == {"PENDING_ENGINE", "OPEN", "PARTIALLY_FILLED", "PENDING_CANCEL"}

OpenFor(u) == {i \in DOMAIN ords : ords[i].request.user = u /\ ords[i].status \in OPEN_STATUSES}
Stored(u) == {i \in DOMAIN ords : ords[i].request.user = u /\ ords[i].status # "ADMITTED"}
Remaining(i) == ords[i].request.qty - ords[i].filled

\* The engine's book, as far as the reference price needs it.
OnBook(side) == {i \in DOMAIN ords : ords[i].resting /\ ords[i].request.side = side}
Reference ==
  LET bids == {ords[i].price : i \in OnBook("buy")}
      asks == {ords[i].price : i \in OnBook("sell")}
  IN  referencePrice(last, IF bids = {} THEN NONE ELSE Max(bids),
                           IF asks = {} THEN NONE ELSE Min(asks))

openNotionalFor(u, reference) ==
  LET priceOf(i) == IF ords[i].request.price = NONE THEN reference ELSE ords[i].request.price
  IN  MapThenSumSet(LAMBDA i : notional(priceOf(i), Remaining(i)), OpenFor(u))

orderRiskInput(r, reference) ==
  [accountStatus |-> "active", qty |-> r.qty,
   notional |-> notional(IF r.price # NONE THEN r.price ELSE reference, r.qty),
   openOrderCount |-> Cardinality(OpenFor(r.user)),
   openNotional |-> openNotionalFor(r.user, reference),
   recentPlacements |-> Cardinality(Stored(r.user))]

\* admit: the market's rules, then risk, on the book and the rows as read.  A
\* request that passes goes on with the reference it was judged at; a refused
\* one leaves nothing but its recorded decision.
Admit(r) ==
  LET reference == Reference
      terms == engineTerms(r, Market, reference)
  IN  /\ Rows < MaxRows
      /\ validateOrder(r, Market, reference) = {}
      /\ evaluateOrder(orderRiskInput(r, reference), OrderPolicy).verdict = "approve"
      /\ ords' = Append(ords,
           [request |-> r, status |-> "ADMITTED",
            price |-> terms.price, timeInForce |-> terms.timeInForce,
            hold |-> computeHold(r, Market, reference).amount,
            filled |-> 0, consumed |-> 0, released |-> 0, resting |-> FALSE])
      /\ UNCHANGED <<ledger, wds, last, halted, now>>

holdAsset(r) == IF r.side = "sell" THEN Market.baseAsset ELSE Market.quoteAsset

\* createWithHold: the row and its hold in one transaction that reads the
\* balance; if it does not cover, neither is written.
CreateWithHold(i) ==
  LET r == ords[i].request
  IN  /\ ords[i].status = "ADMITTED"
      /\ IF held(ledger, userTradingAvailable(r.user, holdAsset(r))) < ords[i].hold
         THEN /\ ords' = [ords EXCEPT ![i].status = "REFUSED"]
              /\ UNCHANGED ledger
         ELSE /\ ords' = [ords EXCEPT ![i].status = "PENDING_ENGINE"]
              /\ ledger' = postTransaction(ledger,
                            postOrderHold(r.user, holdAsset(r), ords[i].hold))
      /\ UNCHANGED <<wds, last, halted, now>>

\* The engine accepts what is left of an order into its book.
Rest(i) ==
  /\ ords[i].status \in OPEN_STATUSES /\ ~ords[i].resting /\ ords[i].timeInForce = "GTC"
  /\ ords' = [ords EXCEPT ![i].resting = TRUE,
                          ![i].status = IF @ = "PENDING_ENGINE" THEN "OPEN" ELSE @]
  /\ UNCHANGED <<ledger, wds, last, halted, now>>

outstandingHold(o) == o.hold - o.consumed - o.released

\* finish, finalizeUnfilled: rejected, expired or cancelled, the order becomes
\* terminal and whatever it still holds is released.
Finish(i) ==
  LET o == ords[i]
      r == o.request
  IN  /\ o.status \in OPEN_STATUSES
      /\ ords' = [ords EXCEPT ![i].status = "CANCELLED", ![i].resting = FALSE,
                              ![i].released = @ + outstandingHold(o)]
      /\ ledger' = IF outstandingHold(o) = 0 THEN ledger
                  ELSE postTransaction(ledger,
                         postOrderRelease(r.user, holdAsset(r), outstandingHold(o)))
      /\ UNCHANGED <<wds, last, halted, now>>

feeRatesFor(u) == tierForVolume(PastVolume[u])

\* The row after a fill: complete or not, and what a completed order still
\* holds is released.
recordFill(o, qty, taken) ==
  LET filled == o.filled + qty
      after == [o EXCEPT !.filled = filled, !.consumed = @ + taken]
  IN  IF filled = o.request.qty
      THEN [after EXCEPT !.status = "FILLED", !.resting = FALSE,
                         !.released = @ + outstandingHold(after)]
      ELSE [after EXCEPT !.status = "PARTIALLY_FILLED"]

released(before, after) ==
  IF after.released = before.released THEN <<>>
  ELSE postOrderRelease(after.request.user, holdAsset(after.request),
                        after.released - before.released)

\* assertHoldAgrees, and the check before it that no hold is over-consumed.
holdAgrees(o) ==
  IF o.status \in OPEN_STATUSES THEN outstandingHold(o) > 0 ELSE outstandingHold(o) = 0

\* settleFill: the taker's and the maker's sides of one fill in one
\* transaction, or a halt and nothing.
SettleFill(t, m, qty) ==
  LET taker == ords[t]
      maker == ords[m]
      buyer == IF taker.request.side = "buy" THEN taker ELSE maker
      seller == IF taker.request.side = "buy" THEN maker ELSE taker
      amounts == fillAmounts(maker.price, qty, taker.request.side,
                             feeRatesFor(taker.request.user), feeRatesFor(maker.request.user))
      use == holdConsumption(amounts, qty)
      taken(o) == IF o.request.side = "buy" THEN use.buyerQuote ELSE use.sellerBase
      over(o) == outstandingHold(o) < taken(o)
      taker2 == recordFill(taker, qty, taken(taker))
      maker2 == recordFill(maker, qty, taken(maker))
      posting == postTradeSettlement(buyer.request.user, seller.request.user,
                   Market.baseAsset, Market.quoteAsset, qty,
                   amounts.notional, amounts.buyerFee, amounts.sellerFee)
      after == postTransaction(postTransaction(postTransaction(ledger, posting),
                 released(taker, taker2)), released(maker, maker2))
  IN  IF over(taker) \/ over(maker) \/ ~holdAgrees(taker2) \/ ~holdAgrees(maker2)
      THEN halted' = TRUE /\ UNCHANGED <<ledger, ords>>
      ELSE /\ ledger' = after
           /\ ords' = [ords EXCEPT ![t] = taker2, ![m] = maker2]
           /\ UNCHANGED halted

\* The engine matches an incoming order with a resting one it crosses, of
\* another account, and settlement applies the fill.
Trade(t, m) ==
  /\ ~halted
  /\ ords[t].status \in OPEN_STATUSES /\ ~ords[t].resting
  /\ ords[m].resting
  /\ ords[t].request.side # ords[m].request.side
  /\ ords[t].request.user # ords[m].request.user
  /\ IF ords[t].request.side = "buy" THEN ords[t].price >= ords[m].price
     ELSE ords[t].price <= ords[m].price
  /\ \E qty \in 1 .. Min({Remaining(t), Remaining(m)}) :
       /\ isMultipleOf(qty, Market.lotSize)
       /\ SettleFill(t, m, qty)
  /\ last' = ords[m].price
  /\ UNCHANGED <<wds, now>>

-----------------------------------------------------------------------------
\* Time passes; an evaluation takes less than the clock's unit.
Tick ==
  /\ now < MaxNow
  /\ \A i \in DOMAIN wds : wds[i].status # "RISK_EVALUATING"
  /\ now' = now + 1
  /\ UNCHANGED <<ledger, wds, ords, last, halted>>

\* Each owner has deposited, and allocated part of it to trading.
OpeningLedger ==
  LET funded(bk, u, a) ==
        LET o == Opening[u][a]
            rent == IF a = Native THEN Rent ELSE 0
            deposited == postTransaction(bk,
                           postDeposit(u, a, o.custody + o.trading + rent, rent))
            locked == postTransaction(deposited, postWithdrawalLock(u, a, o.trading))
        IN  IF o.trading = 0 THEN deposited
            ELSE postTransaction(locked, postAllocation(u, a, o.trading, Native, 0))
      pairs == {p \in Owners \X Assets : Opening[p[1]][p[2]].custody + Opening[p[1]][p[2]].trading > 0}
  IN  FoldSet(LAMBDA p, bk : funded(bk, p[1], p[2]), <<>>, pairs)

BooksInit ==
  /\ ledger = OpeningLedger
  /\ wds = <<>> /\ ords = <<>>
  /\ last = NONE /\ halted = FALSE /\ now = 0

BooksNext ==
  \/ \E r \in Requests : Request(r)
  \/ \E i \in DOMAIN wds :
       \/ Evaluate(i) \/ Decide(i) \/ ApproveInternal(i)
       \/ Approve(i) \/ Reject(i) \/ LockFunds(i) \/ Settle(i) \/ Fail(i)
  \/ \E r \in OrderRequests : Admit(r)
  \/ \E i \in DOMAIN ords : CreateWithHold(i) \/ Rest(i) \/ Finish(i)
  \/ \E t, m \in DOMAIN ords : Trade(t, m)
  \/ Tick

-----------------------------------------------------------------------------
(* Properties.                                                               *)

WithRows(S) == MapThenSumSet(LAMBDA i : wds[i].request.amount, S)

\* Custody stays segregated and the trading tier covered: what the ledger says
\* stands at a user's own addresses is what the platform owes that user in
\* custody plus the rent reserved from their own deposits, whatever other users
\* do; and the clearing pool is exactly what is owed in trading plus the fees
\* taken there.  Allocations and deallocations move both sides together.
TiersReconcile ==
  \A a \in Assets :
    /\ \A u \in Owners :
         held(ledger, chainAssets(u, a))
           = held(ledger, userCustodyAvailable(u, a)) + held(ledger, userCustodyLocked(u, a))
             + (IF chainAssets(u, a) \in DOMAIN ledger /\ a = Native THEN Rent ELSE 0)
    /\ held(ledger, clearingAssets(a))
         = total(ledger, TRADING_ACCOUNT_TYPES, a) + held(ledger, houseTradingFees(a))

\* Nothing is created or lost: what users are owed in an asset, in both tiers,
\* plus the trading fees the house has taken, is what they brought in less the
\* external withdrawals that settled.
NothingCreatedOrLost ==
  \A a \in Assets :
    total(ledger, USER_LIABILITY_ACCOUNT_TYPES, a) + held(ledger, houseTradingFees(a))
      = MapThenSumSet(LAMBDA u : Opening[u][a].custody + Opening[u][a].trading, Owners)
        - WithRows({i \in DOMAIN wds : /\ wds[i].status = "SETTLED"
                                       /\ wds[i].request.purpose = "external"
                                       /\ wds[i].request.asset = a})

\* Every locked unit belongs to a row that accounts for it: the custody and
\* trading locks are the withdrawals whose funds are locked, and the order lock
\* is the sum of the open orders' outstanding holds (orderLockMismatches = 0).
LocksMatchRows ==
  \A u \in Owners, a \in Assets :
    LET lockedFor(purposes) ==
          WithRows({i \in DOMAIN wds : /\ wds[i].status \in LOCKED
                                       /\ wds[i].request.user = u /\ wds[i].request.asset = a
                                       /\ wds[i].request.purpose \in purposes})
    IN  /\ held(ledger, userCustodyLocked(u, a)) = lockedFor({"external", "allocation"})
        /\ held(ledger, userTradingLocked(u, a)) = lockedFor({"deallocation"})
        /\ held(ledger, userOrderLocked(u, a))
             = MapThenSumSet(LAMBDA i : outstandingHold(ords[i]),
                 {i \in OpenFor(u) : holdAsset(ords[i].request) = a})

\* No interleaving of withdrawals, allocations, orders and fills takes a user's
\* account below zero.
NoNegativeUserBalance == checkNoNegativeUserBalances(ledger) = {}

\* After every step of every handler the tiers cover what they owe, nothing has
\* appeared or vanished, each lock has its row and no user is below zero.
BooksBalance ==
  TiersReconcile /\ NothingCreatedOrLost /\ LocksMatchRows /\ NoNegativeUserBalance

\* The daily limit holds over every rolling day, however requests interleave:
\* evaluation reads outside any transaction, but each request's row is stored
\* before it is judged.
DailyLimitHolds ==
  \A u \in Owners, a \in DOMAIN WithdrawalPolicy.assetLimits, t \in 0 .. MaxNow :
    WithRows({i \in DOMAIN wds :
                /\ wds[i].request.user = u /\ wds[i].request.asset = a
                /\ wds[i].request.purpose = "external"
                /\ wds[i].status \in {"APPROVED", "FUNDS_LOCKED", "SETTLED"}
                /\ wds[i].createdAt \in t .. t + WithdrawalPolicy.day})
      <= WithdrawalPolicy.assetLimits[a].dailyLimit

\* Settlement never halts on a hold: whatever the reference did between
\* admission and matching, and however notionals and fees round, a hold covers
\* every fill of its order and is not used up before the order is filled.
HoldsCoverFills == ~halted

\* "Live orders one user may hold in one market" (OrderRiskPolicy): a user's
\* open orders never exceed the cap.
OpenOrdersWithinCap ==
  \A u \in Owners : Cardinality(OpenFor(u)) <= OrderPolicy.maxOpenOrdersPerMarket

=============================================================================
