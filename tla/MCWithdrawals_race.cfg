SPECIFICATION AloneSpec
CONSTANTS
    W = {1}
    Purpose <- External
    Amount <- Unit
    Accounts = {a1, a2}
    p1 = p1
    p2 = p2
    Workers = {p1}
    Faults = {"race"}
    CustodyFunds = 2
    TradingFunds = 0
    SignBudget = 2
    BroadcastBudget = 2
    ExpiryBudget = 2
    MaxNonce = 3
    MaxReleases = 2
CHECK_DEADLOCK FALSE
INVARIANT PaidAtMostOnce
