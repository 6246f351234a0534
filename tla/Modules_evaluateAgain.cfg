CONSTANTS
    a = a
    b = b
    c = c
    None = None
    Module = {a, b, c}
    Scenarios <- Plain
    HostCalls = {"execute", "evaluate"}
    BodiesThrow = FALSE
    MaxCalls = 2
SPECIFICATION Spec
CHECK_DEADLOCK FALSE
PROPERTY RootsKept
