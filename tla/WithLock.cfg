CONSTANTS
    Client = {w1, w2, w3}
    w1 = w1
    w2 = w2
    w3 = w3
    Faults = {"crash", "sessionLost", "signal", "unlockError"}
SPECIFICATION FairSpec
INVARIANTS
    TypeOK
    OneCommandAtATime
    StatusTellsWhatRan
PROPERTIES
    LockIsFreed
CHECK_DEADLOCK FALSE
