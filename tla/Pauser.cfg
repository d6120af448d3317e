CONSTANTS
    Request = {r1, r2, r3}
    r1 = r1
    r2 = r2
    r3 = r3
    Timeout = 1
    Expiry <- MixedExpiry
    MaxTime = 4
    Faults = {"crash", "stop", "cancelLost", "resumeError", "clientGone"}
SPECIFICATION FairSpec
INVARIANTS
    TypeOK
    NoSilentLeak
PROPERTIES
    ServiceSpec
