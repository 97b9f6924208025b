\* Two threads and two keys, a circuit that opens on two failures, a cache of one entry.
CONSTANTS
    c1 = c1
    c2 = c2
    dividend = dividend
    kline = kline
    Caller = {c1, c2}
    Key = {dividend, kline}
    Threshold = 2
    Reset = 1
    Attempts = 2
    Ttl <- KeyTtl
    MaxSize = 1
SPECIFICATION FairSpec
INVARIANTS
    OpensOnStreak
    OutageAlerted
PROPERTIES
    Recovers
