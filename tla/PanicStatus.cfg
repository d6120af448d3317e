CONSTANTS
    Client = {w1}
    w1 = w1
    Faults = {"signal"}
SPECIFICATION Spec
INVARIANTS
    NoLockMeansNotRun
CHECK_DEADLOCK FALSE
