SPECIFICATION Spec
CONSTANTS
    Nodes = {n1, n2, n3, n4}
    Files = {f1}
    Readers = {r1}
    Repairers = {}
    K = 2
    M = 1
    ChunkCount <- TwoChunks
    Allocated <- SameAllocation
    TransientAfter = 1
    DeadAfter = 2
    RepairTimeout = 1
    MaxTime = 0
    MaxCrashes = 1
    MaxLate = 1
    MaxPasses = 0
    MaxSweeps = 0
CHECK_DEADLOCK FALSE
SYMMETRY Symmetric
INVARIANTS
    DownloadComplete
    FailureNeedsManyMisses
PROPERTIES
    UploadsAreSpread
    ImplementsFileStore
