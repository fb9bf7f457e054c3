SPECIFICATION Spec
CONSTANTS
    MaxHeight = 3
    MaxFault = 1
    OnceSyncLimit = 2
    EpochLen = 10
    CacheDepth = 20
    Changes = {1, 2, 3}
    CallsMetadata = {}
    Appends = {}
    GenesisRestart = TRUE
INVARIANTS
    StatusRootIsLastRoot
CHECK_DEADLOCK FALSE
