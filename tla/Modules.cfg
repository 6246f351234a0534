CONSTANTS
    a = a
    b = b
    c = c
    None = None
    Module = {a, b, c}
    Scenarios <- Sound
    HostCalls = {"execute", "instantiate", "evaluate"}
    BodiesThrow = TRUE
    MaxCalls = 2
SPECIFICATION FairSpec
CHECK_DEADLOCK FALSE
INVARIANT LinkedClosure
INVARIANT NothingHalfWay
INVARIANT CycleRoots
INVARIANT FulfilledImportsComplete
INVARIANT ErrorsReachParents
PROPERTY DependenciesFirst
PROPERTY ImportSettles
