SPECIFICATION Spec
CONSTANTS
    c1 = c1
    c2 = c2
    c3 = c3
    Chains = {c1, c2, c3}
    Heads = {2}
    MaxTxs = 1
    FailingKeys = {"RefreshRpc"}
    Latest = latest
    NoTask = notask
    Starts <- ChainStarts
    DefaultChains <- Defaults
    Matching <- Matches
    MaxBlock = 2
    MaxKeys = 2
    None = none
INVARIANTS RefreshIsOffered
CHECK_DEADLOCK FALSE
