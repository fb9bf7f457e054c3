CONSTANTS
    MaxTime = 4
    MaxSaves = 4
    MaxFaults = 3
    MaxBacks = 1
SPECIFICATION Spec
INVARIANTS
    TypeOK
    LastSaveOnDisk
PROPERTIES
    LoadNeverStale
CHECK_DEADLOCK FALSE
