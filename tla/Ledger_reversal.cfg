\* One session that reverses a BUY: violates ReversalUndoes.
CONSTANTS
    s1 = s1
    s2 = s2
    c1 = c1
    c2 = c2
    Client = {c1}
    Stock = {s1}
    Order <- OneStock
    Fee <- FlatFee
    Amount = {7}
    Action = {}
    ActionInfo <- NoActions
    Opening = 0
    LastDay = 2
    Backdating = FALSE
    MaxTrades = 3
    MaxDeposits = 1
SPECIFICATION LedgerSpec
INVARIANTS
    ReversalUndoes
CHECK_DEADLOCK FALSE
