\* One act at a time, over two rungs, with crashes and failures.
SPECIFICATION Spec
CONSTANTS
    r1 = r1
    r2 = r2
    p1 = p1
    p2 = p2
    Fillers = {p1}
    Sizes <- TwoRungs
    MaxStamp = 2
    MaxLog = 2
    MaxOrders = 3
    MaxFaults = 2
    Overlap = FALSE
    Uncleaned = FALSE
INVARIANTS
    TypeOK
    TornOneWay
    ReportIsTrue
    NeverOverbooked
\* The bounds, not the act, stop there.
CHECK_DEADLOCK FALSE
