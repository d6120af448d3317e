CONSTANTS
    Client = {c1, c2}
    c1 = c1
    c2 = c2
    Keeper = {k1, k2}
    k1 = k1
    k2 = k2
    Node = {n1}
    n1 = n1
    NoKeeper = NoKeeper
    Configured = {"5s"}
    Faults = {}
SPECIFICATION Spec
PROPERTIES
    FailsTolerantCluster
    RestoreKeepsMaster
CHECK_DEADLOCK FALSE
