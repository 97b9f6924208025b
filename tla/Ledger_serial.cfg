\* One session: every kind of entry and of corporate action but a split, those that
\* fail too.
CONSTANTS
    s1 = s1
    s2 = s2
    c1 = c1
    c2 = c2
    Client = {c1}
    Stock = {s1, s2}
    Order <- AllSides
    Fee <- FlatFee
    Amount = {7}
    Action = {1, 2, 3, 4, 5}
    ActionInfo <- EveryOther
    Opening = 0
    LastDay = 2
    Backdating = FALSE
    MaxTrades = 3
    MaxDeposits = 1
SPECIFICATION LedgerSpec
INVARIANTS
    CashMatchesLedger
    AppliedWhole
CHECK_DEADLOCK FALSE
