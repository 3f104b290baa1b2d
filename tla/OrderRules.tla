----------------------------- MODULE OrderRules -----------------------------
(***************************************************************************)
(* packages/orders and the price arithmetic of packages/types as pure       *)
(* operators: notional and fees, the collar, validation of a request, the   *)
(* hold a request needs, the terms sent to the engine and what one fill     *)
(* takes from and gives to both sides.  A price of 0 stands for none.       *)
(***************************************************************************)
EXTENDS Integers, Sequences, FiniteSets, FiniteSetsExt

CONSTANTS PRICE_SCALE,      \* price units per quote unit for one base unit
          BPS_DENOMINATOR,  \* basis points in one
          MAX_U64,          \* largest amount the engine can carry
          FEE_TIERS         \* sequence of [minVolume, makerBps, takerBps]

NONE == 0

notional(price, qty) == (price * qty) \div PRICE_SCALE
feeAmount(value, bps) == (value * bps) \div BPS_DENOMINATOR
isMultipleOf(value, step) == value % step = 0
overflows(value) == value > MAX_U64

WORST_CASE_TAKER_BPS == Max({FEE_TIERS[i].takerBps : i \in DOMAIN FEE_TIERS})

\* The last tier whose threshold the volume has reached.
tierForVolume(volume) ==
  FEE_TIERS[Max({1} \cup {i \in DOMAIN FEE_TIERS : volume >= FEE_TIERS[i].minVolume})]

-----------------------------------------------------------------------------
(* The collar.                                                               *)

referencePrice(lastTrade, bestBid, bestAsk) ==
  IF lastTrade # NONE THEN lastTrade
  ELSE IF bestBid # NONE /\ bestAsk # NONE THEN (bestBid + bestAsk) \div 2
  ELSE NONE

collarBand(reference, market) ==
  LET deviation == (reference * market.collarBps) \div BPS_DENOMINATOR
  IN  [lower |-> Max({0, reference - deviation}), upper |-> reference + deviation]

withinCollar(price, band) == band.lower <= price /\ price <= band.upper

-----------------------------------------------------------------------------
(* Validation: the set of reasons a request is refused for, empty if none.   *)

PLACEABLE_STATUSES == {"open", "post_only"}

validateOrder(request, market, reference) ==
  LET limit == request.type = "limit"
      limitPrice == IF limit THEN request.price ELSE NONE
      judgedAt == IF limitPrice # NONE THEN limitPrice ELSE reference
      band == collarBand(reference, market)
      value == notional(judgedAt, request.qty)
      reservePrice == IF limitPrice # NONE THEN limitPrice
                      ELSE IF reference # NONE THEN band.upper ELSE NONE
      reserve == notional(reservePrice, request.qty)
      judged == judgedAt # NONE /\ request.qty > 0
      tooLarge == \/ judged /\ overflows(value)
                  \/ /\ request.side = "buy" /\ request.qty > 0 /\ reservePrice # NONE
                     /\ overflows(reserve + feeAmount(reserve, WORST_CASE_TAKER_BPS))
      when(condition, reason) == IF condition THEN {reason} ELSE {}
  IN  when(\/ market.status \notin PLACEABLE_STATUSES
           \/ market.status = "post_only" /\ ~request.postOnly, "MARKET_NOT_OPEN")
      \cup when(request.qty <= 0, "QUANTITY_NOT_POSITIVE")
      \cup when(limit /\ request.price = NONE, "PRICE_REQUIRED")
      \cup when(~limit /\ request.price # NONE, "PRICE_NOT_ALLOWED")
      \cup when(request.postOnly /\ ~limit, "POST_ONLY_REQUIRES_LIMIT")
      \cup when(limitPrice # NONE /\ ~isMultipleOf(limitPrice, market.tickSize),
                "TICK_VIOLATION")
      \cup when(request.qty > 0 /\ ~isMultipleOf(request.qty, market.lotSize),
                "LOT_VIOLATION")
      \cup when(~limit /\ reference = NONE, "NO_REFERENCE_PRICE")
      \cup when(reference # NONE /\ limitPrice # NONE /\ ~withinCollar(limitPrice, band),
                "OUTSIDE_COLLAR")
      \cup when(judged /\ ~overflows(value) /\ value < market.minNotional,
                "BELOW_MIN_NOTIONAL")
      \cup when(tooLarge, "NOTIONAL_OVERFLOW")

-----------------------------------------------------------------------------
(* Holds, the terms the engine is sent, and fills.                           *)

\* A buy reserves quote at its limit, or at the collar's upper edge, with
\* headroom for the worst fee any tier charges; a sell reserves its quantity.
computeHold(request, market, reference) ==
  LET price == IF request.type = "limit" THEN request.price
               ELSE collarBand(reference, market).upper
      value == notional(price, request.qty)
  IN  IF request.side = "sell"
      THEN [asset |-> market.baseAsset, amount |-> request.qty]
      ELSE [asset |-> market.quoteAsset,
            amount |-> value + feeAmount(value, WORST_CASE_TAKER_BPS)]

floorToTick(price, tick) == (price \div tick) * tick
ceilToTick(price, tick) == ((price + tick - 1) \div tick) * tick

\* Mutation: the protection price is rounded out of the collar.
engineTermsRoundedOut(request, market, reference) ==
  IF request.type = "limit"
  THEN [timeInForce |-> request.timeInForce, price |-> request.price]
  ELSE LET band == collarBand(reference, market)
       IN  [timeInForce |-> "IOC",
            price |-> IF request.side = "buy" THEN ceilToTick(band.upper, market.tickSize)
                      ELSE floorToTick(band.lower, market.tickSize)]

\* A market order is sent as an IOC limit at the collar's edge, rounded to a
\* tick so that it stays inside.
engineTerms(request, market, reference) ==
  IF request.type = "limit"
  THEN [timeInForce |-> request.timeInForce, price |-> request.price]
  ELSE LET band == collarBand(reference, market)
       IN  [timeInForce |-> "IOC",
            price |-> IF request.side = "buy" THEN floorToTick(band.upper, market.tickSize)
                      ELSE ceilToTick(band.lower, market.tickSize)]

fillAmounts(price, qty, takerSide, takerTier, makerTier) ==
  LET value == notional(price, qty)
      takerFee == feeAmount(value, takerTier.takerBps)
      makerFee == feeAmount(value, makerTier.makerBps)
  IN  [notional |-> value,
       buyerFee |-> IF takerSide = "buy" THEN takerFee ELSE makerFee,
       sellerFee |-> IF takerSide = "buy" THEN makerFee ELSE takerFee]

\* What a fill takes from each side's hold.
holdConsumption(amounts, qty) ==
  [buyerQuote |-> amounts.notional + amounts.buyerFee, sellerBase |-> qty]

=============================================================================
