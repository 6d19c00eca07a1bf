\* An append that fails after its rename.
SPECIFICATION Spec
CONSTANTS
    r1 = r1
    r2 = r2
    p1 = p1
    p2 = p2
    Fillers = {p1}
    Sizes <- OneRung
    MaxStamp = 2
    MaxLog = 2
    MaxOrders = 4
    MaxFaults = 1
    Overlap = FALSE
    Uncleaned = TRUE
INVARIANTS
    UndoneIsGone
\* The bounds, not the act, stop there.
CHECK_DEADLOCK FALSE
