SPECIFICATION Spec
CONSTANTS
    p1 = p1
    p2 = p2
    Procs = {p1}
    Workers = 1
    BatchSize = 1
    Ranges <- RangesSingle
    Keeps = {1}
    PurgeChunk = 1
    PurgeExcludes = {}
    MaxFaults = 0
INVARIANTS FlaggedComplete
CHECK_DEADLOCK FALSE
