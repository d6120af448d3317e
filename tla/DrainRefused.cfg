CONSTANTS
    c1 = c1
    c2 = c2
    d1 = d1
    d2 = d2
    Client = {c1, c2}
    Database = {d1, d2}
    Uses <- MCUses
    PoolModes = {"session", "transaction"}
    MaxStarts = 1
    Faults = {"stop", "refuse"}
SPECIFICATION Spec
PROPERTIES
    KillsNoWork
CHECK_DEADLOCK FALSE
