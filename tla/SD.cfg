SPECIFICATION Spec
CONSTANTS
    BlockSize = 2
    BlocksPerCluster = 1
    LastCluster = 5
    PerFat = 4
    HasClock = FALSE
    Stale <- MCStale
    Files <- MCFiles
    Dirs <- MCDirs
    Values <- MCValues
    Modes <- MCModes
    Counts = {1, 2}
    Positions = {0, 2}
    MaxCalls = 5
    MaxSize = 3
    MaxFaults = 1
    MaxTransfers = 5
INVARIANTS SyncedIsSafe MirrorFollows OneOwner ReadBack
CHECK_DEADLOCK FALSE
