CONSTANTS
    Recovered = {r}
    Value = {r, o}
    r = r
    o = o
    MaxRev = 2
    Tapped = FALSE
    Faults = {"stop"}
SPECIFICATION WaitFairSpec
PROPERTIES
    StreamStops
CHECK_DEADLOCK FALSE
