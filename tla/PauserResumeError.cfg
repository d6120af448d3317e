CONSTANTS
    Request = {r1}
    r1 = r1
    Timeout = 1
    Expiry <- LongExpiry
    MaxTime = 4
    Faults = {"resumeError"}
SPECIFICATION FairSpec
PROPERTIES
    PauseEventuallyRemoved
