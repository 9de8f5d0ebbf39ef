SPECIFICATION WebSpec
CONSTANTS
    h1 = h1
    p1 = p1
    u1 = u1
    u2 = u2
    c1 = c1
    c2 = c2
    NoUrl = NoUrl
    NoChain = NoChain
    Nobody = Nobody
    Nothing = Nothing
    Latest = Latest
    Procs <- MCProcs
    Handlers <- MCHandlers
    Shells <- MCShells
    Urls <- MCUrls
    Chains <- MCChains
    ReportedBy <- MCReportedBy
    Configured <- MCConfigured
    Listed <- MCListed
    Usable <- MCUrls
    Invocations <- MCInvocations
    Served <- MCServed
    LatestOffset = 1
    MaxHead = 1
    MaxFaults = 1
INVARIANTS EndpointsAgree HalfMadeHasReason LogsFitTxs NoChildLeft
