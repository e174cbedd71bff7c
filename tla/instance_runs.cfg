SPECIFICATION Spec
CONSTANTS
    Requests = {q1, q2}
    MaxGeneration = 2
    MaxFaults = 2
    MaxCrashes = 1
INVARIANTS
    OneStarter
    OneLiveRun
    ActiveHasRun
CHECK_DEADLOCK FALSE
