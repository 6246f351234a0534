CONSTANTS
    a1 = a1
    a2 = a2
    a3 = a3
    w1 = w1
    w2 = w2
    b1 = b1
    b2 = b2
    None = None
    Agents = {a1, a2}
    Workers = {}
    Owner <- OwnerNone
    Blocking = {a1}
    Cells <- OneCell
    Address <- FarApart
    Counts = {9}
    Timeouts = {"inf"}
    Spurious = FALSE
    LoopTimed = TRUE
    MaxOps = 2
SPECIFICATION Spec
CHECK_DEADLOCK FALSE
PROPERTY NotifyReachesChecked
