\* Three environments; the steady one is fair.
SPECIFICATION ConsumerSpec
CONSTANTS
  MaxSeq = 2
  MaxEvents = 2
  MaxAdds = 5
  MaxCrashes = 2
  BatchSize = 2
  PageSize = 1
  Poison <- SecondOfSecond
INVARIANTS NothingDropped
PROPERTIES OffsetMovesWithWork ImplementsDelivery EverythingApplied
CHECK_DEADLOCK FALSE
