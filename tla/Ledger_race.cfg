\* Two sessions: entries, reversals, deposits and two corporate actions of a day.
CONSTANTS
    s1 = s1
    s2 = s2
    c1 = c1
    c2 = c2
    Client = {c1, c2}
    Stock = {s1}
    Order <- OneStock
    Fee <- FlatFee
    Amount = {7}
    Action = {1, 2}
    ActionInfo <- DividendAndSplit
    Opening = 0
    LastDay = 2
    Backdating = FALSE
    MaxTrades = 3
    MaxDeposits = 1
SPECIFICATION LedgerSpec
SYMMETRY Sessions
INVARIANTS
    AppliedOnce
    ReversedOnce
    TPlusOne
PROPERTIES
    SpentIsCovered
CHECK_DEADLOCK FALSE
