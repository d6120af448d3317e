CONSTANTS
    Client = {c1, c2}
    c1 = c1
    c2 = c2
    Keeper = {k1, k2}
    k1 = k1
    k2 = k2
    Node = {n1, n2}
    n1 = n1
    n2 = n2
    NoKeeper = NoKeeper
    Configured = {"5s"}
    Faults = {"rpc", "degrade", "sessionLost"}
SPECIFICATION Spec
INVARIANTS
    OneFailoverAtATime
    IntervalRestored
    FlowsBeforeRelease
CHECK_DEADLOCK FALSE
SYMMETRY Symmetry
