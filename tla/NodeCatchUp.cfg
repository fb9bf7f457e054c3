SPECIFICATION FairSpec
CONSTANTS
    MaxHeight = 3
    MaxFault = 2
    OnceSyncLimit = 2
    EpochLen = 10
    CacheDepth = 20
    Changes = {1, 2, 3}
    CallsMetadata = {}
    Appends = {}
    GenesisRestart = FALSE
INVARIANTS
    TypeOK
    StoredChainComplete
    ProofAheadIsCommittable
    CommitFindsTxs
    OverlordFollowsChain
PROPERTIES
    EngineCatchesUp
    SyncCatchesUp
CHECK_DEADLOCK FALSE
