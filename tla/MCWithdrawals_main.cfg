SPECIFICATION WithdrawalsSpec
CONSTANTS
    W = {1, 2}
    Purpose <- OutAndBack
    Amount <- Unit
    Accounts = {a1}
    p1 = p1
    p2 = p2
    Workers = {p1, p2}
    Faults = {"drop", "revert", "signer", "lock"}
    CustodyFunds = 1
    TradingFunds = 1
    SignBudget = 2
    BroadcastBudget = 2
    ExpiryBudget = 2
    MaxNonce = 8
    MaxReleases = 2
INVARIANTS SettlementIsRight SteadyPaysOnce SteadyLeases
PROPERTY SteadyResolves
CHECK_DEADLOCK FALSE
