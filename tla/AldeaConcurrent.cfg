SPECIFICATION Spec
CONSTANTS
    Nodes = {n1, n2}
    Files = {f1}
    Readers = {}
    Repairers = {p1, p2}
    K = 1
    M = 1
    ChunkCount <- OneChunk
    Allocated <- SameAllocation
    TransientAfter = 1
    DeadAfter = 2
    RepairTimeout = 0
    MaxTime = 1
    MaxCrashes = 1
    MaxLate = 1
    MaxPasses = 2
    MaxSweeps = 1
CHECK_DEADLOCK FALSE
SYMMETRY Symmetric
INVARIANTS
    TypeOK
    PlacementBacked
    FullyPlaced
    UnhealthyWasSilent
PROPERTIES
    OnlyRegistrationHeals
    ImplementsFileStore
