CONSTANTS
    Address = {a1, a2}
    a1 = a1
    a2 = a2
    Value = {a1, a2, NoMaster, Unreadable}
    NoMaster = NoMaster
    Unreadable = Unreadable
    None = None
    MaxRev = 3
    Tapped = TRUE
    Faults = {"lateReload"}
SPECIFICATION Spec
PROPERTIES
    SkipsOnlyWhenThere
CHECK_DEADLOCK FALSE
