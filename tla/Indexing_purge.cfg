SPECIFICATION FairSpec
CONSTANTS
    p1 = p1
    p2 = p2
    Procs = {p1}
    Workers = 2
    BatchSize = 1
    Ranges <- RangesPurge
    Keeps = {0, 2, 5}
    PurgeChunk = 1
    PurgeExcludes = {p1}
    MaxFaults = 1
INVARIANTS IndexInv GapAtBottom
PROPERTIES KeptWindowUntouched StoreRefined PurgeEnds
CHECK_DEADLOCK FALSE
