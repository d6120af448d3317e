CONSTANTS
    Client = {c1, c2}
    c1 = c1
    c2 = c2
    Keeper = {k1, k2}
    k1 = k1
    k2 = k2
    Node = {n1}
    n1 = n1
    NoKeeper = NoKeeper
    Configured = {"unset"}
    Faults = {}
SPECIFICATION Spec
INVARIANTS
    NoEmptyInterval
CHECK_DEADLOCK FALSE
