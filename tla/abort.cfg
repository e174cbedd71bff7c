SPECIFICATION FairSpec
CONSTANTS
    Actions = {a, b}
    Created = {a}
    Workers = {w1}
    Callers = {u}
    Timers = {t1, t2}
    QueueSize = 1
    MaxAttempts = 2
    MaxRequests = 1
    FaultyCalls = {"abort"}
    MaxFaults = 3
    MaxCancels = 1
    MaxRestarts = 1
INVARIANTS
    TypeOK
    OneTaskPerAction
    PendingIsScheduled
    ClearedIsStopped
PROPERTIES
    AbortSettles
CHECK_DEADLOCK FALSE
