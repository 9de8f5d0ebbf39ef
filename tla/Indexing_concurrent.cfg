SPECIFICATION FairSpec
CONSTANTS
    p1 = p1
    p2 = p2
    Procs = {p1, p2}
    Workers = 1
    BatchSize = 2
    Ranges <- RangesNested
    Keeps = {}
    PurgeChunk = 1
    PurgeExcludes = {p1, p2}
    MaxFaults = 0
INVARIANTS FlaggedComplete RangeCovered
PROPERTIES RunEnds
CHECK_DEADLOCK FALSE
