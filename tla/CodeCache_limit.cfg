CONSTANTS
    p1 = p1
    p2 = p2
    s1 = s1
    s2 = s2
    s3 = s3
    h1 = h1
    h2 = h2
    v1 = v1
    v2 = v2
    Procs = {p1, p2}
    Sources = {s1, s2}
    Hashes = {h1, h2}
    HashOf <- HashTwo
    Versions = {v1}
    VersionOf <- SameVersion
    MaxCacheNum = 1
    Throws = TRUE
    PowerLoss = FALSE
    FlushFails = FALSE
    MaxClock = 1
    MaxStray = 1
    NoProc = NoProc
    NoSource = NoSource
    NoHash = NoHash
    NoFile = NoFile
    NoEntry = NoEntry
    NoList = NoList
    TornList = TornList
SPECIFICATION Spec
SYMMETRY ExchangeTwo
INVARIANT MemoryMatchesDisk
INVARIANT ListWithinLimit
PROPERTY ListedFilesNotRewritten
