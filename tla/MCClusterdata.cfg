CONSTANTS
    NoKeeper = NoKeeper
    Gone = gone
    Fake = fake
    Uid = {d1, d2, d3, d4}
    d1 = d1
    d2 = d2
    d3 = d3
    d4 = d4
    MaxSync = 2
    MaxMin = 2
    MaxTolerate = 2
SPECIFICATION CheckSpec
INVARIANTS
    HealthyMeansTolerant
    FailoverCanRecover
CHECK_DEADLOCK FALSE
