CONSTANTS
    a1 = a1
    a2 = a2
    a3 = a3
    w1 = w1
    w2 = w2
    b1 = b1
    b2 = b2
    None = None
    Agents = {a1, a2}
    Workers = {w1, w2}
    Owner <- OwnerSplit
    Blocking = {a2}
    Cells <- OneCell
    Address <- FarApart
    Counts = {1, 9}
    Timeouts = {"zero", "finite", "inf"}
    Spurious = TRUE
    LoopTimed = TRUE
    MaxOps = 2
SPECIFICATION Spec
CHECK_DEADLOCK FALSE
INVARIANT TypeOK
INVARIANT NoStaleItem
INVARIANT ItemsAccounted
INVARIANT PendingExact
PROPERTY SettledOnce
PROPERTY EarlyReportNotified
