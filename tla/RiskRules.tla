----------------------------- MODULE RiskRules ------------------------------
(***************************************************************************)
(* packages/risk as pure operators: the rules over a withdrawal request     *)
(* and over an order, and how their outcomes combine into one verdict.      *)
(* Rules are evaluated over an explicit input record and policy record; all *)
(* of them run, so a decision carries every reason.  Times are integers in  *)
(* the unit of the windows the policy gives.                                *)
(***************************************************************************)
EXTENDS Integers, FiniteSets, FiniteSetsExt

outcome(verdict, codes) == [verdict |-> verdict, codes |-> codes]
pass == outcome("approve", {})
deny(code) == outcome("deny", {code})
review(code) == outcome("review", {code})

INFORMATIONAL_CODES == {"KNOWN_DESTINATION", "WITHIN_ALL_LIMITS", "WITHIN_ORDER_LIMITS"}

\* deny wins over review wins over approve; approval says so when no rule
\* gave another reason.
decide(outcomes, allClear) ==
  LET verdicts == {o.verdict : o \in outcomes}
      codes == UNION {o.codes : o \in outcomes}
      verdict == IF "deny" \in verdicts THEN "deny"
                 ELSE IF "review" \in verdicts THEN "review" ELSE "approve"
  IN  [verdict |-> verdict,
       codes |-> IF verdict = "approve" /\ codes \subseteq INFORMATIONAL_CODES
                 THEN codes \cup {allClear} ELSE codes]

-----------------------------------------------------------------------------
(* Withdrawals.                                                              *)

accountStateRule(input, policy) ==
  IF input.accountStatus # "active" THEN deny("ACCOUNT_NOT_ACTIVE") ELSE pass

amountRule(input, policy) ==
  LET codes == (IF input.amount <= 0 THEN {"AMOUNT_NOT_POSITIVE"} ELSE {})
               \cup (IF input.asset \notin policy.supportedAssets
                     THEN {"ASSET_NOT_SUPPORTED"} ELSE {})
  IN  IF codes # {} THEN outcome("deny", codes) ELSE pass

destinationRule(input, policy) ==
  LET known == \E prior \in input.priorDestinations :
                 /\ prior.address = input.destination
                 /\ prior.lastUsedAt >= input.now - policy.knownDestinationWindow
  IN  CASE input.destinationCheck = "not_signable" -> deny("DESTINATION_NOT_SIGNABLE")
        [] input.destinationCheck = "invalid" -> deny("DESTINATION_INVALID")
        [] input.destinationCheck = "platform" -> deny("DESTINATION_INTERNAL")
        [] input.destinationCheck = "ok" ->
             IF known THEN outcome("approve", {"KNOWN_DESTINATION"})
             ELSE IF policy.reviewNewDestinations THEN review("NEW_DESTINATION") ELSE pass

configured(input, policy) == input.asset \in DOMAIN policy.assetLimits

assetLimitsConfiguredRule(input, policy) ==
  IF ~configured(input, policy) THEN deny("ASSET_LIMITS_NOT_CONFIGURED") ELSE pass

perTransactionLimitRule(input, policy) ==
  IF configured(input, policy)
     /\ input.amount > policy.assetLimits[input.asset].perTransactionLimit
  THEN deny("PER_TRANSACTION_LIMIT") ELSE pass

since(input, window) == {w \in input.recentWithdrawals : w.createdAt >= input.now - window}

sumSince(input, window) ==
  MapThenSumSet(LAMBDA w : w.amount, {w \in since(input, window) : w.asset = input.asset})

dailyLimitRule(input, policy) ==
  IF configured(input, policy)
     /\ sumSince(input, policy.day) + input.amount > policy.assetLimits[input.asset].dailyLimit
  THEN deny("DAILY_LIMIT") ELSE pass

velocityRule(input, policy) ==
  IF Cardinality(since(input, policy.velocityWindow)) >= policy.velocityMaxCount
  THEN deny("VELOCITY_LIMIT") ELSE pass

\* A policy without a USD threshold has the field at -1.
usdReviewEnabled(policy) == policy.manualReviewAboveUsd >= 0

manualReviewThresholdRule(input, policy) ==
  IF /\ configured(input, policy) /\ ~usdReviewEnabled(policy)
     /\ input.amount >= policy.assetLimits[input.asset].manualReviewAbove
  THEN review("MANUAL_REVIEW_THRESHOLD") ELSE pass

\* An asset that cannot be priced (-1) is reviewed, not approved.
usdReviewThresholdRule(input, policy) ==
  IF ~usdReviewEnabled(policy) THEN pass
  ELSE IF input.valueUsd < 0 THEN review("VALUE_UNPRICED")
  ELSE IF input.valueUsd > policy.manualReviewAboveUsd THEN review("USD_REVIEW_THRESHOLD")
  ELSE pass

evaluate(input, policy) ==
  decide({accountStateRule(input, policy), amountRule(input, policy),
          destinationRule(input, policy), assetLimitsConfiguredRule(input, policy),
          perTransactionLimitRule(input, policy), dailyLimitRule(input, policy),
          velocityRule(input, policy), manualReviewThresholdRule(input, policy),
          usdReviewThresholdRule(input, policy)}, "WITHIN_ALL_LIMITS")

-----------------------------------------------------------------------------
(* Orders.  A cap that is not configured for the market (-1) denies.         *)

orderAccountRule(input, policy) ==
  IF input.accountStatus = "active" THEN pass ELSE deny("ACCOUNT_NOT_ACTIVE")

orderSizeRule(input, policy) ==
  IF policy.maxOrderQty < 0 \/ input.qty > policy.maxOrderQty
  THEN deny("ORDER_SIZE_LIMIT") ELSE pass

openOrdersRule(input, policy) ==
  IF input.openOrderCount >= policy.maxOpenOrdersPerMarket
  THEN deny("OPEN_ORDER_LIMIT") ELSE pass

orderRateRule(input, policy) ==
  IF input.recentPlacements >= policy.orderRateMaxCount
  THEN deny("ORDER_RATE_LIMIT") ELSE pass

exposureRule(input, policy) ==
  IF policy.maxOpenNotional < 0 \/ input.openNotional + input.notional > policy.maxOpenNotional
  THEN deny("EXPOSURE_LIMIT") ELSE pass

evaluateOrder(input, policy) ==
  decide({orderAccountRule(input, policy), orderSizeRule(input, policy),
          openOrdersRule(input, policy), orderRateRule(input, policy),
          exposureRule(input, policy)}, "WITHIN_ORDER_LIMITS")

=============================================================================
