SPECIFICATION ResyncSpec
CONSTANTS
    Root = a0
    Children = {c}
    Conditions = {}
    Watched = {c}
    TaskPhases = {1, 4, 6}
    MaxAttempts = 1
    MaxFaults = 1
    MaxStoreFaults = 1
    MaxRestarts = 1
INVARIANTS
    TypeOK
    CoalescedUpdateIsNotLost
    RecordedIsStored
PROPERTIES
    OutcomeIsFinal
    TerminalReachesStore
    DeletionReachesStore
CHECK_DEADLOCK FALSE
