SPECIFICATION FairSpec
CONSTANTS
    c1 = c1
    c2 = c2
    c3 = c3
    Chains = {c1, c2, c3}
    Heads = {2}
    MaxTxs = 2
    FailingKeys = {"Block", "Chains", "ChainInfo", "RefreshRpc"}
    Latest = latest
    NoTask = notask
    Starts <- AnyStart
    DefaultChains <- Defaults
    Matching <- Matches
    MaxBlock = 2
    MaxKeys = 4
    None = none
INVARIANTS LoadingIsPending LastAskedIsAnswered ScreenAgrees
PROPERTIES LoadingEnds
CHECK_DEADLOCK FALSE
