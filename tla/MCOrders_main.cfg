CONSTANTS
  a = a
  b = b
  c = c
  Orders <- Book
  Buys <- BuyOrders
  Qty <- Quantities
  MaxPrice = 2
  Replaces <- Amends
  Cancels <- Cancellable
  Faults = {}
SPECIFICATION Spec
INVARIANTS HoldAgrees  SettlementAgrees
CHECK_DEADLOCK FALSE
