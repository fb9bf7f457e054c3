SPECIFICATION Spec
CONSTANTS
    MaxHeight = 6
    MaxFault = 1
    OnceSyncLimit = 3
    EpochLen = 3
    CacheDepth = 20
    Changes = {1, 4, 6}
    CallsMetadata = {1, 4, 6}
    Appends = {1, 4}
    GenesisRestart = TRUE
INVARIANTS
    StoredChainComplete
PROPERTIES
    StatusNeverRegresses
CHECK_DEADLOCK FALSE
