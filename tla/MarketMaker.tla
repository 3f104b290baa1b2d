---------------------------- MODULE MarketMaker -----------------------------
(***************************************************************************)
(* apps/api/src/services/market-maker for one market: the ladder of quotes  *)
(* around a reference price, and the cycle that keeps the book's quotes     *)
(* equal to the ladder.  One step per await of quoteMarket; the order       *)
(* gateway, the engine and settlement move between them.  The maker's       *)
(* orders are its rows in the orders table, keyed by the client order id    *)
(* <<generation, side, level>>, under which the gateway places an order     *)
(* once.  A cancel the engine has taken but settlement has not applied      *)
(* leaves the row open: "CANCELLING".                                       *)
(***************************************************************************)
EXTENDS OrderRules, SequencesExt

CONSTANTS QuotedMarket,    \* [tickSize, lotSize, minNotional, collarBps]
          QuoteConfigs,    \* [levels, halfSpreadBps, levelStepBps, levelQty, funds]:
                           \* the quoting to check, each with opening balances
          Walk,            \* [start, band, unit]: the random walk's options
          WalkOffsets,     \* offsets the walk may take, within -unit..unit
          TradePrices,     \* scaled prices the exchange may report
          Stops,           \* the states of settlement that stop quoting
          MaxGeneration,   \* bound: reference readings with a new generation
          MaxSwitches,     \* bound: settlement or market changes
          MaxMakerFaults   \* bound: crashes, stops and failed cancels

VARIABLES config,          \* the quoting configured
          settlementState, \* running | halted | delayed
          routableOpen,    \* what markets.routable answers: open or not
          feed,            \* the source's reading: price (0 = none), generation
          anchors,         \* the anchored reading, price 0 when there is none
          quotes,          \* orders: client order id -> row
          budget,          \* available base and quote
          ready, cycle, makerFaults, switches

makerVars == <<config, settlementState, routableOpen, feed, anchors, quotes, budget,
               ready, cycle, makerFaults, switches>>

-----------------------------------------------------------------------------
(* strategy.ts                                                               *)

floorTo(value, step) == (value \div step) * step
ceilTo(value, step) == ((value + step - 1) \div step) * step

\* Every level is strictly outside the one before it, an ask strictly above
\* its bid; a price outside the collar or below the minimum is not quoted.
ladder(reference, market, collarReference, quoting) ==
  LET tick == market.tickSize
      qty == floorTo(quoting.levelQty, market.lotSize)
      quotable(price) ==
        /\ collarReference # NONE
             => withinCollar(price, collarBand(collarReference, market))
        /\ notional(price, qty) >= market.minNotional
      quote(side, level, price) ==
        <<[side |-> side, level |-> level, price |-> price, qty |-> qty]>>
      rung(done, level) ==
        LET away == quoting.halfSpreadBps + level * quoting.levelStepBps
            nearBid == floorTo((reference * (BPS_DENOMINATOR - away))
                                 \div BPS_DENOMINATOR, tick)
            nearAsk == ceilTo((reference * (BPS_DENOMINATOR + away))
                                \div BPS_DENOMINATOR, tick)
            bid == IF level > 0 /\ nearBid >= done.bid THEN done.bid - tick ELSE nearBid
            farAsk == IF level > 0 /\ nearAsk <= done.ask THEN done.ask + tick ELSE nearAsk
            ask == IF farAsk <= bid THEN bid + tick ELSE farAsk
        IN  [bid |-> bid, ask |-> ask,
             quotes |-> done.quotes
               \o (IF bid > 0 /\ quotable(bid) THEN quote("buy", level, bid) ELSE <<>>)
               \o (IF quotable(ask) THEN quote("sell", level, ask) ELSE <<>>)]
  IN  IF reference <= 0 \/ quoting.levels <= 0 \/ qty <= 0 THEN <<>>
      ELSE FoldLeft(rung, [bid |-> 0, ask |-> 0, quotes |-> <<>>],
                    [i \in 1..quoting.levels |-> i - 1]).quotes

\* What the gateway will hold for a quote.
holdFor(quote) ==
  LET value == notional(quote.price, quote.qty)
  IN  IF quote.side = "sell" THEN quote.qty
      ELSE value + feeAmount(value, WORST_CASE_TAKER_BPS)

\* Nearest levels first; a quote that does not fit is skipped and leaves the
\* rest to the next.
affordable(wanted, funds) ==
  LET take(left, quote) ==
        LET cost == holdFor(quote)
        IN  IF quote.side = "buy"
            THEN IF cost > left.quote THEN left
                 ELSE [left EXCEPT !.quote = @ - cost, !.out = Append(@, quote)]
            ELSE IF cost > left.base THEN left
                 ELSE [left EXCEPT !.base = @ - cost, !.out = Append(@, quote)]
      byLevel == SortSeq(wanted, LAMBDA a, b : a.level < b.level)
  IN  FoldLeft(take, [base |-> funds.base, quote |-> funds.quote, out |-> <<>>], byLevel).out

distance(a, b) == IF a > b THEN a - b ELSE b - a

shouldReanchor(anchor, reference, thresholdBps) ==
  \/ anchor = NONE
  \/ distance(anchor, reference) * BPS_DENOMINATOR >= anchor * thresholdBps

-----------------------------------------------------------------------------
(* reference-price.ts                                                        *)

\* bigint division truncates towards zero.
truncated(a, b) == IF a < 0 THEN -((-a) \div b) ELSE a \div b

walkPrice(start, band, offset, unit, tick) ==
  LET raw == start + truncated(start * band * offset, BPS_DENOMINATOR * unit)
      ticks == raw \div tick
  IN  (IF ticks < 1 THEN 1 ELSE ticks) * tick

\* The last trade on the exchange; no price when it is below one tick.
tradePrice(scaled, tick) ==
  IF scaled <= 0 \/ scaled \div tick < 1 THEN NONE ELSE (scaled \div tick) * tick

Readings == {walkPrice(Walk.start, Walk.band, offset, Walk.unit, QuotedMarket.tickSize) :
               offset \in WalkOffsets}
            \cup {tradePrice(scaled, QuotedMarket.tickSize) : scaled \in TradePrices}

-----------------------------------------------------------------------------
NoReading == [price |-> NONE, generation |-> 0]
Resting == [at |-> "idle", wanted |-> <<>>, todo |-> <<>>, kept |-> {}]

clientOrderId(generation, quote) == <<generation, quote.side, quote.level>>
remaining(order) == order.qty - order.filled
openRows == {id \in DOMAIN quotes : quotes[id].status \in {"PENDING_ENGINE", "OPEN", "CANCELLING"}}
atEngine == {id \in DOMAIN quotes : quotes[id].status \in {"PENDING_ENGINE", "OPEN"}}

matches(order, quote) ==
  /\ order.side = quote.side
  /\ order.price = quote.price
  /\ remaining(order) = quote.qty

MakerInit ==
  /\ config \in QuoteConfigs
  /\ settlementState = "running" /\ routableOpen = TRUE
  /\ feed \in {[price |-> price, generation |-> 1] : price \in Readings}
  /\ anchors = NoReading
  /\ quotes = <<>>
  /\ budget = config.funds
  /\ ready = FALSE /\ cycle = Resting
  /\ makerFaults = 0 /\ switches = 0

\* A new process finds the maker's account and its markets.
init ==
  /\ ~ready /\ cycle.at = "idle"
  /\ ready' = TRUE /\ anchors' = NoReading
  /\ UNCHANGED <<config, settlementState, routableOpen, feed, quotes, budget,
                 cycle, makerFaults, switches>>

\* Mutation: with nothing anchored there is nothing to pull.
pullAnchored ==
  /\ anchors' = NoReading
  /\ cycle' = IF anchors = NoReading THEN Resting ELSE [Resting EXCEPT !.at = "pull"]

\* The anchor is dropped and every open order is to be cancelled.
pull ==
  /\ anchors' = NoReading
  /\ cycle' = [Resting EXCEPT !.at = "pull"]

\* A pass starts only when the last one has ended.
runOnce ==
  /\ ready /\ cycle.at = "idle"
  /\ IF settlementState \in Stops THEN pull
     ELSE cycle' = [Resting EXCEPT !.at = "route"] /\ UNCHANGED anchors
  /\ UNCHANGED <<config, settlementState, routableOpen, feed, quotes, budget, ready,
                 makerFaults, switches>>

routable ==
  /\ cycle.at = "route"
  /\ IF routableOpen THEN cycle' = [cycle EXCEPT !.at = "price"] /\ UNCHANGED anchors
     ELSE pull
  /\ UNCHANGED <<config, settlementState, routableOpen, feed, quotes, budget, ready,
                 makerFaults, switches>>

\* A missing reading, and one older than staleMs, pulls the quotes.
reference ==
  /\ cycle.at = "price"
  /\ \/ pull
     \/ /\ feed.price # NONE
        /\ anchors' = IF shouldReanchor(anchors.price, feed.price, config.levelStepBps)
                      THEN feed ELSE anchors
        /\ cycle' = [cycle EXCEPT !.at = "book"]
  /\ UNCHANGED <<config, settlementState, routableOpen, feed, quotes, budget, ready,
                 makerFaults, switches>>

\* The collar is the engine's, when the engine answers and has one.
book ==
  /\ cycle.at = "book"
  /\ \E collarReference \in {NONE, feed.price} :
       cycle' = [cycle EXCEPT !.at = "list",
                   !.wanted = ladder(anchors.price, QuotedMarket, collarReference, config)]
  /\ UNCHANGED <<config, settlementState, routableOpen, feed, anchors, quotes, budget, ready,
                 makerFaults, switches>>

wantedBy(order) == \E i \in DOMAIN cycle.wanted : matches(order, cycle.wanted[i])

\* A loop that has run out of orders falls through to what follows it.
onward(pass) ==
  IF pass.todo # <<>> THEN pass
  ELSE IF pass.at = "cancel" THEN [pass EXCEPT !.at = "fund"] ELSE Resting

\* Mutation: only orders the engine has confirmed count as kept.
openOrdersConfirmed ==
  /\ cycle.at \in {"list", "pull"}
  /\ LET keep == IF cycle.at = "pull" THEN {}
                 ELSE {id \in openRows : quotes[id].status = "OPEN" /\ wantedBy(quotes[id])}
         drop == {id \in openRows \ keep : quotes[id].status # "PENDING_ENGINE"}
     IN  cycle' = onward([cycle EXCEPT
                     !.at = IF cycle.at = "pull" THEN "unquote" ELSE "cancel",
                     !.kept = keep, !.todo = SetToSeq(drop)])
  /\ UNCHANGED <<config, settlementState, routableOpen, feed, anchors, quotes, budget, ready,
                 makerFaults, switches>>

\* The open rows are listed; those that match no wanted quote (all of them,
\* when pulling) are to be cancelled, unless the engine has not answered yet.
openOrders ==
  /\ cycle.at \in {"list", "pull"}
  /\ LET keep == IF cycle.at = "pull" THEN {} ELSE {id \in openRows : wantedBy(quotes[id])}
         drop == {id \in openRows \ keep : quotes[id].status # "PENDING_ENGINE"}
     IN  cycle' = onward([cycle EXCEPT
                     !.at = IF cycle.at = "pull" THEN "unquote" ELSE "cancel",
                     !.kept = keep, !.todo = SetToSeq(drop)])
  /\ UNCHANGED <<config, settlementState, routableOpen, feed, anchors, quotes, budget, ready,
                 makerFaults, switches>>

\* One order of the list: the engine takes the cancel, or the call fails and
\* is left to the next cycle.
cancel ==
  /\ cycle.at \in {"cancel", "unquote"} /\ cycle.todo # <<>>
  /\ LET id == Head(cycle.todo)
     IN  quotes' = IF quotes[id].status = "OPEN"
                   THEN [quotes EXCEPT ![id].status = "CANCELLING"] ELSE quotes
  /\ cycle' = onward([cycle EXCEPT !.todo = Tail(@)])
  /\ UNCHANGED <<config, settlementState, routableOpen, feed, anchors, budget, ready,
                 makerFaults, switches>>

cancelSkipped ==
  /\ cycle.at \in {"cancel", "unquote"} /\ cycle.todo # <<>>
  /\ makerFaults < MaxMakerFaults
  /\ makerFaults' = makerFaults + 1
  /\ cycle' = onward([cycle EXCEPT !.todo = Tail(@)])
  /\ UNCHANGED <<config, settlementState, routableOpen, feed, anchors, quotes, budget,
                 ready, switches>>

\* A read fails: the market is left as it is until the next cycle.
passFails ==
  /\ cycle.at # "idle" /\ makerFaults < MaxMakerFaults
  /\ makerFaults' = makerFaults + 1
  /\ cycle' = Resting
  /\ UNCHANGED <<config, settlementState, routableOpen, feed, anchors, quotes, budget,
                 ready, switches>>

keptFor(quote) == \E id \in cycle.kept : matches(quotes[id], quote)

\* What the kept orders hold is added to what is available.
fund ==
  /\ cycle.at = "fund"
  /\ LET kept(side) == SelectSeq(cycle.wanted, LAMBDA q : q.side = side /\ keptFor(q))
         held(side) == FoldLeft(LAMBDA sum, q : sum + holdFor(q), 0, kept(side))
         funded == affordable(cycle.wanted, [base |-> budget.base + held("sell"),
                                             quote |-> budget.quote + held("buy")])
     IN  cycle' = onward([cycle EXCEPT !.at = "place",
                            !.todo = SelectSeq(funded, LAMBDA q : ~keptFor(q))])
  /\ UNCHANGED <<config, settlementState, routableOpen, feed, anchors, quotes, budget, ready,
                 makerFaults, switches>>

spend(quote) ==
  IF quote.side = "buy" THEN [budget EXCEPT !.quote = @ - holdFor(quote)]
  ELSE [budget EXCEPT !.base = @ - holdFor(quote)]

\* The gateway answers a known client order id with the order it has; a new
\* one is held for and sent, with the engine's answer or without; a refusal
\* is skipped.
place ==
  /\ cycle.at = "place" /\ cycle.todo # <<>>
  /\ LET quote == Head(cycle.todo)
         id == clientOrderId(anchors.generation, quote)
     IN  \/ /\ id \notin DOMAIN quotes
            /\ spend(quote).base >= 0 /\ spend(quote).quote >= 0
            /\ \E status \in {"PENDING_ENGINE", "OPEN"} :
                 quotes' = [k \in DOMAIN quotes \cup {id} |->
                              IF k = id
                              THEN [side |-> quote.side, price |-> quote.price,
                                    qty |-> quote.qty, filled |-> 0, status |-> status]
                              ELSE quotes[k]]
            /\ budget' = spend(quote)
         \/ UNCHANGED <<quotes, budget>>
  /\ cycle' = onward([cycle EXCEPT !.todo = Tail(@)])
  /\ UNCHANGED <<config, settlementState, routableOpen, feed, anchors, ready, makerFaults, switches>>

\* Between two passes: the timer is cleared and every order cancelled once.
stop ==
  /\ ready /\ cycle.at = "idle" /\ makerFaults < MaxMakerFaults
  /\ makerFaults' = makerFaults + 1
  /\ ready' = FALSE
  /\ cycle' = [Resting EXCEPT !.at = "pull"]
  /\ UNCHANGED <<config, settlementState, routableOpen, feed, anchors, quotes, budget, switches>>

\* The process dies: anchors and the pass are lost, the rows stay.
MakerCrash ==
  /\ ready /\ makerFaults < MaxMakerFaults
  /\ makerFaults' = makerFaults + 1
  /\ ready' = FALSE /\ cycle' = Resting /\ anchors' = NoReading
  /\ UNCHANGED <<config, settlementState, routableOpen, feed, quotes, budget, switches>>

-----------------------------------------------------------------------------
(* The rest of the exchange.                                                 *)

refund(order) ==
  LET rest == [side |-> order.side, price |-> order.price, qty |-> remaining(order)]
  IN  IF order.side = "buy" THEN [budget EXCEPT !.quote = @ + holdFor(rest)]
      ELSE [budget EXCEPT !.base = @ + holdFor(rest)]

\* A taker meets a quote for one lot, and settlement applies the fill.
Taken ==
  /\ \E id \in atEngine :
       /\ quotes[id].status = "OPEN" /\ settlementState = "running"
       /\ LET order == quotes[id]
              lot == QuotedMarket.lotSize
              filled == order.filled + lot
          IN  /\ quotes' = [quotes EXCEPT ![id].filled = filled,
                              ![id].status = IF filled = order.qty THEN "FILLED" ELSE "OPEN"]
              /\ budget' = IF order.side = "buy" THEN [budget EXCEPT !.base = @ + lot]
                           ELSE [budget EXCEPT !.quote = @ + notional(order.price, lot)]
  /\ UNCHANGED <<config, settlementState, routableOpen, feed, anchors, ready, cycle,
                 makerFaults, switches>>

\* The engine's answer to an order it left pending.
Answered ==
  /\ \E id \in DOMAIN quotes :
       /\ quotes[id].status = "PENDING_ENGINE"
       /\ \/ quotes' = [quotes EXCEPT ![id].status = "OPEN"] /\ UNCHANGED budget
          \/ /\ quotes' = [quotes EXCEPT ![id].status = "REJECTED"]
             /\ budget' = refund(quotes[id])
  /\ UNCHANGED <<config, settlementState, routableOpen, feed, anchors, ready, cycle,
                 makerFaults, switches>>

\* Settlement applies a cancel and releases the hold.
CancelSettled ==
  /\ settlementState = "running"
  /\ \E id \in DOMAIN quotes :
       /\ quotes[id].status = "CANCELLING"
       /\ quotes' = [quotes EXCEPT ![id].status = "CANCELLED"]
       /\ budget' = refund(quotes[id])
  /\ UNCHANGED <<config, settlementState, routableOpen, feed, anchors, ready, cycle,
                 makerFaults, switches>>

Reprice ==
  /\ feed.generation < MaxGeneration
  /\ \E price \in Readings : feed' = [price |-> price, generation |-> feed.generation + 1]
  /\ UNCHANGED <<config, settlementState, routableOpen, anchors, quotes, budget, ready, cycle,
                 makerFaults, switches>>

Switch ==
  /\ switches < MaxSwitches
  /\ switches' = switches + 1
  /\ \/ \E state \in ({"running"} \cup Stops) \ {settlementState} :
          settlementState' = state /\ UNCHANGED routableOpen
     \/ routableOpen' = ~routableOpen /\ UNCHANGED settlementState
  /\ UNCHANGED <<config, feed, anchors, quotes, budget, ready, cycle, makerFaults>>

Pass == \/ runOnce \/ routable \/ reference \/ book \/ openOrders
        \/ cancel \/ cancelSkipped \/ fund \/ place

MakerNext == \/ init \/ Pass \/ passFails \/ stop \/ MakerCrash
             \/ Taken \/ Answered \/ CancelSettled \/ Reprice \/ Switch

-----------------------------------------------------------------------------
\* A quote is on the book once: whatever restarts, unanswered placements,
\* failed cancels and re-anchorings came before, no two open rows are untouched
\* orders for one side and price (market-maker.ts quoteMarket).
OneOrderPerQuote ==
  \A a, b \in openRows :
    (/\ quotes[a].side = quotes[b].side
     /\ quotes[a].price = quotes[b].price
     /\ quotes[a].filled = 0 /\ quotes[b].filled = 0) => a = b

\* A maker that is up while settlement stays stopped ends with nothing
\* resting at the engine, failed cancels notwithstanding (market-maker.ts pull).
PulledQuotesGo ==
  <>[](ready /\ settlementState \in Stops) => <>[](atEngine = {})

=============================================================================
