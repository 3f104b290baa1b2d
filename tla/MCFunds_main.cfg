CONSTANTS
  u = u
  v = v
  q1 = q1
  q2 = q2
  q3 = q3
  House = House
  Owners <- Users
  Sol <- SolKey
  Usdc <- UsdcKey
  Other <- OtherKey
  Asks <- Callers
  AskedBy <- Caller
  Transfers <- Sent
  Moves <- OneWithdrawal
  MaxTx = 2
  PageSize = 3
  MaxAddresses = 2
  RentMin = 1
  OpeningTrading <- NoTrading
  Faults = {"native"}
  MaxFailures = 1
  PRICE_SCALE = 2
  BPS_DENOMINATOR = 10000
  MAX_U64 = 100
  FEE_TIERS <- Tiers
  Cluster = "mainnet"
  Native <- SolKey
  Market <- SolUsdc
  WithdrawalPolicy <- Policy
  OrderPolicy <- Caps
  Opening <- Balances
  Rent = 1
  Requests <- Movements
  OrderRequests <- Orders
  PastVolume <- Volumes
  Fees = {0, 1}
  MaxRows = 3
  MaxNow = 1
SPECIFICATION FundsSpec
INVARIANTS BooksBalance DailyLimitHolds HoldsCoverFills 
 
CHECK_DEADLOCK FALSE
