SPECIFICATION Spec
CONSTANTS
    Nodes = {n1, n2}
    Files = {f1}
    Readers = {}
    Repairers = {}
    K = 1
    M = 1
    ChunkCount <- OneChunk
    Allocated <- SameAllocation
    TransientAfter = 1
    DeadAfter = 2
    RepairTimeout = 1
    MaxTime = 1
    MaxCrashes = 1
    MaxLate = 1
    MaxPasses = 0
    MaxSweeps = 1
CHECK_DEADLOCK FALSE
SYMMETRY Symmetric
PROPERTY SeenRecentlyStaysHealthy
