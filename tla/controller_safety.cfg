SPECIFICATION Spec
CONSTANTS
    MaxAttempts = 2
    MaxSystemFailures = 1
    Discoverable = FALSE
    StaleReads = FALSE
    MaxFaults = 1
    MaxKills = 1
    MaxCrashes = 0
    MaxWaits = 0
INVARIANTS
    TypeOK
    OnlyCurrentAttemptLives
    LabelledIsTerminal
PROPERTIES
    TerminalIsFinal
    NoLaunchAfterTerminal
CHECK_DEADLOCK FALSE
