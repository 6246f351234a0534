CONSTANTS
    p1 = p1
    p2 = p2
    s1 = s1
    s2 = s2
    s3 = s3
    h1 = h1
    h2 = h2
    v1 = v1
    v2 = v2
    Procs = {p1, p2}
    Sources = {s1, s2, s3}
    Hashes = {h1, h2}
    HashOf <- HashColliding
    Versions = {v1, v2}
    VersionOf <- TwoVersions
    MaxCacheNum = 1
    Throws = FALSE
    PowerLoss = TRUE
    FlushFails = TRUE
    MaxClock = 0
    MaxStray = 0
    NoProc = NoProc
    NoSource = NoSource
    NoHash = NoHash
    NoFile = NoFile
    NoEntry = NoEntry
    NoList = NoList
    TornList = TornList
SPECIFICATION Spec
SYMMETRY Exchange
INVARIANT TypeOK
INVARIANT ExclusiveDirectory
INVARIANT ListedFilesSound
INVARIANT LoadCorrect
INVARIANT ReadyBetweenScripts
INVARIANT MemoryMatchesDisk
