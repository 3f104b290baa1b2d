------------------------------ MODULE MCOrders -------------------------------
(***************************************************************************)
(* A buy of two lots that its owner may cancel and may amend into a        *)
(* one-lot buy, and a one-lot sell that either may meet.  Liveness is      *)
(* checked without the sell.                                               *)
(***************************************************************************)
EXTENDS OrderLifecycle, TLC

CONSTANTS a, b, c

Book == {a, b, c}
Pair == {a, c}
BuyOrders == {a, c}
Quantities == [o \in Orders |-> IF o = a THEN 2 ELSE 1]
Amends == c :> a
Cancellable == {a}

=============================================================================
