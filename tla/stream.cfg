SPECIFICATION FairSpec
CONSTANTS
    Actions = {"a0", "a1", "a2"}
    Root = "a0"
    Parent <- MCChain
    Named = {"a1", "a2"}
    Phases = {1, 4, 5}
    Filters <- MCFilters
    PageSize = 1
    BufferSize = 1
    UpdatesSize = 1
    MaxWrites = 2
    MaxMoves = 1
    MaxLosses = 1
INVARIANTS
    TypeOK
    ViewIsTree
PROPERTIES
    StreamCatchesUp
CHECK_DEADLOCK FALSE
