SPECIFICATION Spec
CONSTANTS
    p1 = p1
    p2 = p2
    t1 = t1
    t2 = t2
    d1 = d1
    d2 = d2
    NoDef = NoDef
    Procs = {p1, p2}
    Tables = {t1, t2}
    Removable = {t2}
    Defs = {d1, d2}
    Columns <- SomeColumns
    BatchSize = 1
    Ranges <- SomeRanges
    Keeps = {1, 4}
    PurgeChunk = 1
    Modes <- BothModes
    MaxFaults = 1
SYMMETRY Symmetry
INVARIANTS OnlyStaleIsAmiss InStepWithLogs RowsFitFingerprint RowsHaveLogs
PROPERTIES RebuildIsLossless
CHECK_DEADLOCK FALSE
