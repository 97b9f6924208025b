\* One session at a time, two stocks, three days: users enter fills of any day.
CONSTANTS
    s1 = s1
    s2 = s2
    c1 = c1
    c2 = c2
    Client = {c1}
    Stock = {s1, s2}
    Order <- TwoStocks
    Fee <- FlatFee
    Amount = {7}
    Action = {1}
    ActionInfo <- OneSplit
    Opening = 20
    LastDay = 3
    Backdating = TRUE
    MaxTrades = 4
    MaxDeposits = 0
SPECIFICATION LedgerSpec
INVARIANTS
    TPlusOne
CHECK_DEADLOCK FALSE
