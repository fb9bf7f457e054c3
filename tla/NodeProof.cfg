SPECIFICATION Spec
CONSTANTS
    MaxHeight = 3
    MaxFault = 0
    OnceSyncLimit = 2
    EpochLen = 10
    CacheDepth = 20
    Changes = {1, 2, 3}
    CallsMetadata = {}
    Appends = {}
    GenesisRestart = FALSE
INVARIANTS
    LatestProofIsOfLatestBlock
CHECK_DEADLOCK FALSE
