------------------------------ MODULE MCFunds -------------------------------
(***************************************************************************)
(* The users' funds: how value on the chain becomes a balance, and how     *)
(* balances move under concurrent requests, each alone.  `part` says which *)
(* of the two a behaviour is about; the other rests in its initial state.  *)
(*                                                                         *)
(* Two users with custody and trading balances in a base asset, which is   *)
(* the native one, and a quote asset.  Prices, scale and fees are chosen   *)
(* so that notionals and fees round, and the collar so that its edge is    *)
(* not a tick.                                                             *)
(*                                                                         *)
(* One user asks for an address twice at once.  Senders pay SOL to one     *)
(* user or to both in one transaction, a listed token, and SOL together    *)
(* with an unlisted token; one transaction fails on the chain.             *)
(***************************************************************************)
EXTENDS Books, Deposits

CONSTANTS u, v, q1, q2, q3

VARIABLE part

SolKey == <<"mainnet", "sol">>
UsdcKey == <<"mainnet", "usdc">>
OtherKey == <<"mainnet", "other">>

Users == {u, v}
Callers == {q1, q2, q3}
Caller == q1 :> u @@ q2 :> u @@ q3 :> v

Pay(to, a, n) == [to |-> to, asset |-> a, amount |-> n]
Tx(pays, opens, ok) == [pays |-> pays, opens |-> opens, spends |-> <<>>, ok |-> ok]

Both == Tx(<<Pay(u, SolKey, 2), Pay(v, SolKey, 1)>>, FALSE, TRUE)
Token == Tx(<<Pay(u, UsdcKey, 1)>>, FALSE, TRUE)
Gift == Tx(<<Pay(u, SolKey, 1), Pay(u, OtherKey, 1)>>, TRUE, TRUE)
Failed == Tx(<<Pay(v, SolKey, 1)>>, FALSE, FALSE)
FirstToken == Tx(<<Pay(u, UsdcKey, 1)>>, TRUE, TRUE)

Sent == {Both, Token, Gift, Failed}
SentFirstToken == {FirstToken}

NoTrading == [x \in Owners |-> 0]
SomeTrading == [x \in Owners |-> IF x = u THEN 2 ELSE 0]

OneWithdrawal == <<[user |-> u, purpose |-> "external", amount |-> 1]>>
OneDeallocation == <<[user |-> u, purpose |-> "deallocation", amount |-> 1]>>

-----------------------------------------------------------------------------
Tiers == <<[minVolume |-> 0, makerBps |-> 1500, takerBps |-> 2500],
           [minVolume |-> 10, makerBps |-> 0, takerBps |-> 1000]>>

SolUsdc ==
  [baseAsset |-> SolKey, quoteAsset |-> UsdcKey, status |-> "open",
   tickSize |-> 3, lotSize |-> 1, minNotional |-> 1, collarBps |-> 4000]

Policy ==
  [supportedAssets |-> {SolKey}, knownDestinationWindow |-> 2, reviewNewDestinations |-> FALSE,
   assetLimits |-> SolKey :> [perTransactionLimit |-> 2, dailyLimit |-> 4, manualReviewAbove |-> 2],
   day |-> 1, velocityWindow |-> 1, velocityMaxCount |-> 3, manualReviewAboveUsd |-> -1]

Caps == [maxOrderQty |-> 3, maxOpenOrdersPerMarket |-> 2, orderRateMaxCount |-> 4,
         maxOpenNotional |-> 12]

Balances ==
  u :> (SolKey :> [custody |-> 3, trading |-> 1] @@ UsdcKey :> [custody |-> 0, trading |-> 9])
  @@ v :> (SolKey :> [custody |-> 0, trading |-> 3] @@ UsdcKey :> [custody |-> 0, trading |-> 0])

Movement(user, purpose, a, n) ==
  [user |-> user, purpose |-> purpose, asset |-> a, amount |-> n,
   destination |-> "d", check |-> "ok", valueUsd |-> 0]

Movements ==
  {Movement(u, "external", SolKey, 1), Movement(u, "external", SolKey, 2),
   Movement(u, "allocation", SolKey, 2), Movement(v, "deallocation", SolKey, 2)}

Order(user, side, type, price, qty) ==
  [user |-> user, side |-> side, type |-> type, price |-> price, qty |-> qty,
   timeInForce |-> "GTC", postOnly |-> FALSE]

Orders ==
  {Order(u, "buy", "limit", 3, 2), Order(v, "sell", "limit", 3, 1), Order(u, "buy", "market", NONE, 2),
   Order(v, "sell", "limit", 6, 3), Order(v, "sell", "market", NONE, 1)}

Volumes == u :> 0 @@ v :> 20

-----------------------------------------------------------------------------
BooksPart == part = "books" /\ BooksNext /\ UNCHANGED <<part, vars>>
DepositsPart == part = "deposits" /\ Next /\ UNCHANGED <<part, booksVars>>

FundsInit == part \in {"books", "deposits"} /\ BooksInit /\ Init

FundsSpec ==
  /\ FundsInit
  /\ [][BooksPart \/ DepositsPart]_<<part, booksVars, vars>>
  /\ part = "deposits" => Fairness

=============================================================================
