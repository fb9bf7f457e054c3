SPECIFICATION Spec
CONSTANTS
    MaxHeight = 3
    MaxFault = 0
    OnceSyncLimit = 2
    EpochLen = 4
    CacheDepth = 20
    Changes = {1, 2, 3}
    CallsMetadata = {1}
    Appends = {1}
    GenesisRestart = FALSE
INVARIANTS
    NextAuthorityFound
CHECK_DEADLOCK FALSE
