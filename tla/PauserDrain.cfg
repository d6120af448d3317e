CONSTANTS
    Request = {r1, r2}
    r1 = r1
    r2 = r2
    Timeout = 1
    Expiry <- LongExpiry
    MaxTime = 4
    Faults = {}
SPECIFICATION Spec
PROPERTIES
    GrantMeansDrained
