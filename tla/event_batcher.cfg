SPECIFICATION FairSpec
CONSTANTS
    Callers = {a, b, x}
    Invalid = {x}
    Workers = {w1, w2}
    LastEvent = 2
    QueueDepth = 1
    BatchSize = 2
    MaxTrouble = 2
PROPERTIES
    IsDirectRecord
    EveryEventIsAcknowledged
CHECK_DEADLOCK FALSE
