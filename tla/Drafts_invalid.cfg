\* One session: the generator ignores a broken thesis, violates NoBuyOnInvalidThesis.
CONSTANTS
    s1 = s1
    c1 = c1
    c2 = c2
    Client = {c1}
    Stock = {s1}
    Order <- OneShare
    Fee <- FlatFee
    Amount = {}
    Action = {}
    ActionInfo <- NoActions
    Opening = 6
    LastDay = 2
    Backdating = FALSE
    MaxTrades = 2
    MaxDeposits = 0
    TTL = 0
    MaxDrafts = 2
SPECIFICATION Spec
PROPERTIES
    NoBuyOnInvalidThesis
CHECK_DEADLOCK FALSE
