\* Two threads ask for the same circuit after its reset window.
CONSTANTS
    c1 = c1
    c2 = c2
    dividend = dividend
    kline = kline
    Caller = {c1, c2}
    Key = {dividend, kline}
    Threshold = 2
    Reset = 1
    Attempts = 2
    Ttl <- KeyTtl
    MaxSize = 1
SPECIFICATION Spec
INVARIANT SingleProbe
