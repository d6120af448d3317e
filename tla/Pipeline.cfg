CONSTANTS
    MaxSteps = 4
    MaxDefers = 2
    Run = {r1}
    r1 = r1
    Pipelines <- MCPipelines
SPECIFICATION MCSpec
INVARIANTS
    LastInFirstOut
    DeferredOfBegunSteps
CHECK_DEADLOCK FALSE
