SPECIFICATION FairSpec
CONSTANTS
    Actions = {"a0", "a1", "a2"}
    Root = "a0"
    Parent <- MCChain
    Named = {"a1", "a2"}
    Phases = {1, 4, 5}
    Filters <- MCFilters
    PageSize = 4
    BufferSize = 4
    UpdatesSize = 1
    MaxWrites = 1
    MaxMoves = 0
    MaxLosses = 0
PROPERTIES
    NothingIsMissed
CHECK_DEADLOCK FALSE
