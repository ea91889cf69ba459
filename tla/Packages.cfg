SPECIFICATION PackagesSpec
CONSTANTS
    Apps = {p1, p2}
    Calls = {q1, q2}
    Addrs = {x1, x2}
    Colons <- MCColons
    UseLimits = {0, 1}
    AppUses = 2
    TTL = 1
    MaxTokens = 3
    MaxAccepts = 2
    MaxTime = 2
    IDBits = 3
    BucketSize = 2
    ContactAddrs = {p1, p2}
    localID <- MCLocalID
    Manifests <- MCManifests
    Capabilities <- MCCapabilities
    MaxCandidates = 3
    WorkloadIDs <- MCWorkloadIDs
    MaxStarts = 4
    MaxSeconds = 1
    SnapCalls = {p1, p2}
    SnapWorkloads = {q1, q2}
    MaxVersion = 1
    TunnelCalls = {p1, p2}
    TunnelWorkloads = {q1, q2}
    TargetPorts = {0, 1, 65535, 65536}
    MaxTunnels = 3
    K = 2
    M = 2
    UploadSizes = {0, 1, 3}
    UploadChunk = 2
    DefaultSize = 1
    DefaultAllocation = 5
    Allocations = {0, 1}
    MaxUploads = 3
    CodingChunkSize = 3
    MaxLength = 7
SYMMETRY Symmetric
CHECK_DEADLOCK FALSE
INVARIANTS
    PackagesTypeOK
    UsesBounded
    AddressMatchesKey
    FindsClosest
    SelectsLeastLoaded
    StatefulStaysPinned
    AddressesUnique
    DeployedAsApproved
    SnapshotKept
    TunnelsClosable
    ListedFilesComplete
    RoundTrip
PROPERTIES
    ImplementsContactBook
