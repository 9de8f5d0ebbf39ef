SPECIFICATION FairSpec
CONSTANTS
    Keep = 2
    PurgeChunk = 1
    FirstHead = 0
    WebBlocks = {0, 1, 2, 3}
    Failing = {"live", "reindex", "purge", "connect"}
    Survivors = {"purge"}
    MaxHead = 3
    MaxTicks = 2
    MaxRestarts = 1
INVARIANTS OneWriter NoGapBehindLive
PROPERTIES ReindexHeals ReindexStaysInWindow JobsGetTheirTurn LiveCatchesUp
CHECK_DEADLOCK FALSE
