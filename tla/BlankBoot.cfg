CONSTANTS
    Address = {a1, a2}
    a1 = a1
    a2 = a2
    Value = {a1, a2, NoMaster, Unreadable}
    NoMaster = NoMaster
    Unreadable = Unreadable
    None = None
    MaxRev = 2
    Tapped = TRUE
    Faults = {"reload"}
SPECIFICATION Spec
PROPERTIES
    BootsOnWholeFile
CHECK_DEADLOCK FALSE
