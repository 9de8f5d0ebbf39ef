SPECIFICATION PathSpec
CONSTANTS
    MaxBlock = 5
    Batches = {1, 2, 10}
    FileRanges <- AllRanges
    MaxFiles = 2
    WordSize = 4
    AddressSize = 2
    BadNames = {"B", "T"}
    Reserved = {"logs"}
    Implicit = {"address"}
    Configs <- MCConfigs
    Logs <- MCLogs
    ChainList <- MCChainList
    Exports <- MCExports
    NoFile = NoFile
    SeedBatch = 2
    MaxKills = 2
    MaxSeedings = 3
    Requests <- MCRequests
    BUILTIN_TABLES = {"transactions", "logs", "blocks"}
    Harmless = {"select", "function"}
    Names = {"n1", "N1", "n2"}
    to_lowercase <- MCLowercase
    Addresses = {"a1", "a2"}
    ZeroAddress = ZeroAddress
    None = None
    Window = 1
    MaxHeight = 1
    MaxCalls = 2
    MaxChanges = 2
    Parts = {"new", "old"}
    ChunkRange <- MCChunkRange
    Parquet <- MCParquet
    Hashes = {"selector", "0x098999be", "topic", ""}
    Editions <- MCEditions
    Unresolved = "unresolved"
    MaxEnds = 1
INVARIANTS ChunksAgree GapsAgree ColumnFits SeededIsJoin AnswerIsWhole RowsDecoded
CHECK_DEADLOCK FALSE
