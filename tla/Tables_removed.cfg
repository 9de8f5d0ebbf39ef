SPECIFICATION Spec
CONSTANTS
    p1 = p1
    p2 = p2
    t1 = t1
    t2 = t2
    d1 = d1
    d2 = d2
    NoDef = NoDef
    Procs = {p1}
    Tables = {t1}
    Removable = {t1}
    Defs = {d1, d2}
    Columns <- SomeColumns
    BatchSize = 1
    Ranges <- SomeRanges
    Keeps = {0, 1}
    PurgeChunk = 1
    Modes <- OfflineMode
    MaxFaults = 0
SYMMETRY Symmetry
INVARIANTS AllInStep
CHECK_DEADLOCK FALSE
