CONSTANTS
  c1 = c1
  Clients = {c1}
  Prices = {1, 2}
  Scenarios <- Screens
  Moves <- Commands
  FillAt <- Fills
  Widths = {1, 2, 4}
  MaxSeq = 2
  MaxUnread = 3
  MaxLevels = 1
  MaxBuffered = 1
  PRICE_SCALE = 1
  BPS_DENOMINATOR = 10000
  MAX_U64 = 100000
  FEE_TIERS <- OneTier
  QuotedMarket <- Quoted
  QuoteConfigs <- Quoting
  Walk <- RandomWalk
  WalkOffsets = {0}
  TradePrices = {0}
  MaxGeneration = 2
  MaxSwitches = 1
  Stops = {"halted"}
  MaxMakerFaults = 1
  Typings <- TypedOrders
  Amounts <- TypedAmounts
  References = {0, 2}
  Listed <- OnScreen
  Purse <- Available
  MaxPresses = 2
  MaxLost = 2
SPECIFICATION MarketSpec
INVARIANTS ShownIsTrue OneOrderPerQuote 
PROPERTIES ScreenCatchesUp PulledQuotesGo
CHECK_DEADLOCK FALSE
