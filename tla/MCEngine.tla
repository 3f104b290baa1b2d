------------------------------ MODULE MCEngine -------------------------------
(***************************************************************************)
(* The engine process: how it journals, publishes and recovers, and what    *)
(* its commands do to the book, each alone; `part` says which of the two a  *)
(* behaviour is about and the other rests in its initial state.             *)
(*                                                                          *)
(* Four commands of up to two events, three failures, a ring of three.  A   *)
(* market of three prices and two accounts; the collar is half the          *)
(* reference price, so it binds; a notional below two is refused.           *)
(***************************************************************************)
EXTENDS EngineService, MatchingEngine

CONSTANTS x, y

VARIABLE part

TwoAccounts == {x, y}

Limit(side, tif, price, qty, post, stp, acc) ==
  [side |-> side, type |-> "limit", tif |-> tif, price |-> price, qty |-> qty,
   post_only |-> post, stp |-> stp, account |-> acc]

Market(side, qty, stp, acc) ==
  [side |-> side, type |-> "market", tif |-> "IOC", price |-> 0, qty |-> qty,
   post_only |-> FALSE, stp |-> stp, account |-> acc]

\* Makers of both accounts; takers of account x of every kind.
SomeRequests ==
  {Limit("sell", "GTC", 3, 2, FALSE, "cancel_maker", a) : a \in {x, y}}
    \cup {Limit("sell", "GTC", 2, 1, FALSE, "cancel_both", y)}
    \cup {Limit("buy", "GTC", 3, 3, FALSE, stp, x) : stp \in StpMode}
    \cup {Limit("buy", "FOK", 3, 3, FALSE, stp, x) : stp \in {"cancel_taker", "cancel_maker"}}
    \cup {Limit("buy", "GTC", 2, 1, TRUE, "cancel_taker", y)}
    \cup {Market("sell", 3, "cancel_both", x)}

SomeAmendments == {[price |-> 2, qty |-> 1]}

-----------------------------------------------------------------------------
ServicePart == part = "service" /\ Next /\ UNCHANGED <<part, matchingVars>>
MatchingPart == part = "matching" /\ MatchingNext /\ UNCHANGED <<part, vars>>

ProcessInit == part \in {"service", "matching"} /\ Init /\ MatchingInit

ProcessSpec ==
  /\ ProcessInit
  /\ [][ServicePart \/ MatchingPart]_<<part, vars, matchingVars>>

=============================================================================
