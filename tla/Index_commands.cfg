SPECIFICATION FairSpec
CONSTANTS
    p1 = p1
    p2 = p2
    NoBlocks = NoBlocks
    NoLimit = NoLimit
    Procs <- MCProcs
    Commands <- MCCommands
    MaxU64 = 7
    OverflowChecks = FALSE
    Lag = 1
    MaxHead = 2
    MaxStarts = 2
INVARIANTS NoHoleBehind RangeIsAsAsked
PROPERTIES LiveFollows
CHECK_DEADLOCK FALSE
