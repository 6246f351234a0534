CONSTANTS
    a1 = a1
    a2 = a2
    a3 = a3
    w1 = w1
    w2 = w2
    b1 = b1
    b2 = b2
    None = None
    Agents = {a1, a2}
    Workers = {w1, w2}
    Owner <- OwnerSame
    Blocking = {a2}
    Cells <- OneCell
    Address <- FarApart
    Counts = {1, 9}
    Timeouts = {"finite", "inf"}
    Spurious = FALSE
    LoopTimed = FALSE
    MaxOps = 2
SPECIFICATION FairSpec
CHECK_DEADLOCK FALSE
PROPERTY NotifiedSettles
PROPERTY DrainTerminates
PROPERTY TimedWaitReturns
