SPECIFICATION FairSpec
CONSTANTS
    Nodes = {n1, n2}
    Files = {f1}
    Readers = {r1}
    Repairers = {p1}
    K = 1
    M = 1
    ChunkCount <- OneChunk
    Allocated <- SameAllocation
    TransientAfter = 1
    DeadAfter = 2
    RepairTimeout = 0
    MaxTime = 1
    MaxCrashes = 1
    MaxLate = 0
    MaxPasses = 1
    MaxSweeps = 0
CHECK_DEADLOCK FALSE
PROPERTIES
    PassesEnd
    CommandsEnd
