SPECIFICATION FairSpec
CONSTANTS
    Actions = {a, b}
    NoAction = none
    Serializable = TRUE
    RequeueDuration = 2
    MaxHeartbeat = 1
    GraceMultiplier = 7
    Downtime = 2
    Upsets = {"reserve", "plugin", "put", "release", "status", "lost", "retry", "timeout", "abort", "crash", "delete", "age"}
    MaxUpsets = 1
INVARIANTS
    TypeOK
    OnlyOwnerExecutes
PROPERTIES
    EntryIsKept
    EveryActionEnds
CHECK_DEADLOCK FALSE
