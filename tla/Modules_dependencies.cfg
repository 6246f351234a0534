CONSTANTS
    a = a
    b = b
    c = c
    None = None
    Module = {a, b, c}
    Scenarios <- Sound
    HostCalls = {}
    BodiesThrow = TRUE
    MaxCalls = 1
SPECIFICATION Spec
CHECK_DEADLOCK FALSE
PROPERTY AllDependenciesFirst
