\* Crashes, failed publishes and watermark writes, damaged snapshots.
SPECIFICATION ProcessSpec
CONSTANTS
  MaxSeq = 4
  MaxEvents = 2
  MaxFailures = 3
  SnapshotEvery = 2
  SyncEvery = 2
  RingCapacity = 3
  x = x
  y = y
  Accounts <- TwoAccounts
  Requests <- SomeRequests
  Amendments <- SomeAmendments
  NewStatuses = {"open", "post_only"}
  ConfigStatus = "open"
  MaxPrice = 3
  MaxQty = 3
  MaxCommands = 4
  TickSize = 1
  LotSize = 1
  MinNotional = 2
  PriceScale = 1
  CollarBps = 5000
  MaxAmount = 100
  SnapshotEveryN = 2
  Faults = {}
INVARIANTS   BookIsSound OrdersAccountedFor ReplayRepeats
PROPERTIES ImplementsStream TakesTheBest
CHECK_DEADLOCK FALSE
