SPECIFICATION Spec
CONSTANTS
    MaxAttempts = 2
    MaxSystemFailures = 1
    Discoverable = FALSE
    StaleReads = FALSE
    MaxFaults = 0
    MaxKills = 0
    MaxCrashes = 0
    MaxWaits = 0
INVARIANTS
    TimeoutIsPerAttempt
CHECK_DEADLOCK FALSE
