CONSTANTS
    MaxTime = 2
    MaxSaves = 2
    MaxFaults = 1
    MaxBacks = 0
SPECIFICATION LoadSpec
PROPERTIES
    LoadReturns
CHECK_DEADLOCK FALSE
