CONSTANTS
    Recovered = {r}
    Value = {r, o}
    r = r
    o = o
    MaxRev = 3
    Tapped = FALSE
    Faults = {"watch", "prefix", "poll", "stop"}
SPECIFICATION WaitFairSpec
INVARIANTS
    WaitTypeOK
    NewerThanRejected
PROPERTIES
    RecoveryIsTold
    WaitEndsWithContext
CHECK_DEADLOCK FALSE
