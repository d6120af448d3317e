CONSTANTS
    n1 = n1
    n2 = n2
    Node = {n1, n2}
    Options <- DefaultOptions
    RequestTime = 1
    Second = 1
    Never = 99
SPECIFICATION Spec
INVARIANTS
    CleanupAlwaysRuns

