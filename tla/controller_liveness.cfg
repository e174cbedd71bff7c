SPECIFICATION FairSpec
CONSTANTS
    MaxAttempts = 1
    MaxSystemFailures = 1
    Discoverable = TRUE
    StaleReads = TRUE
    MaxFaults = 1
    MaxKills = 0
    MaxCrashes = 1
    MaxWaits = 0
INVARIANTS
    EventPrecedesStatus
    PodAbortedBeforeRemoval
    NeverForgotten
PROPERTIES
    DeletionCompletes
    ReachesOutcome
    TerminalIsCollected
CHECK_DEADLOCK FALSE
