CONSTANTS
  StuckOrders = {"a", "b"}
  StuckWithdrawals = {"w"}
  Presses = {"p", "q"}
  SweepBudget = 2
  Capacity = 2
  MaxRestarts = 1
  Tabs = {"t1", "t2"}
  Browser <- OneBrowser
  Emails = {0, 1}
  Scenarios <- Requests
  ChallengeTtl = 1
  IdleTtl = 2
  AbsoluteTtl = 3
  StepUpMaxAge = 1
  StrictMaxAge = 0
  MaxNow = 2
  Environments <- SomeEnvironments
  Followed <- FollowedOne
  Signals = {"SIGINT", "SIGTERM"}
  MaxRequests = 1
  Registries <- Allowlists
  Cluster = "devnet"
  FeedIds <- Feeds
  Bodies <- Answers
  Shapes <- Ranges
  Amounts = {1}
  MAX_ENTRIES = 1
  WriteLag = 1
  MaxEntries = 2
  MaxPriceFetches = 2
  MaxClock = 3
  Sockets = {"s1"}
  Rows = {"a"}
  Overlap = 1
  CommitLag = 1
  Batch = 2
  MaxSocketsPerUser = 1
  MaxSubscriptions = 1
  MaxTime = 2
  MaxVersion = 2
  MaxFaults = 1
  Clusters = {"devnet", "mainnet"}
  PageSize = 1
  MaxChanges = 2
  MaxFlight = 2
SPECIFICATION OperationsSpec
INVARIANTS StuckIsHandled SignInIsSound    
CHECK_DEADLOCK FALSE
