CONSTANTS
    Address = {a1, a2}
    a1 = a1
    a2 = a2
    Value = {a1, a2, NoMaster, Unreadable}
    NoMaster = NoMaster
    Unreadable = Unreadable
    None = None
    MaxRev = 2
    Tapped = TRUE
    Faults = {"watch", "prefix", "poll", "config", "write", "reload", "stop"}
SPECIFICATION FairSpec
INVARIANTS
    TypeOK
PROPERTIES
    NeverRollsBack
    SkipsOnlyWhenThere
    Converges
    WatchActorSpec
CHECK_DEADLOCK FALSE
