\* Two processes import, cancel and fill against one reserve.
SPECIFICATION Spec
CONSTANTS
    p1 = p1
    p2 = p2
    Traders = {p1, p2}
    Exports <- MCExports
    Reserves <- MCReserves
    Ladders <- MCLadders
    MaxClock = 2
    File <- MCFile
    MaxAppends = 3
SYMMETRY TraderSymmetry
INVARIANTS
    TypeOK
    WithinBalance
    ImportedIsOnFile
    OneOrderPerRung
PROPERTIES
    RetiredStaysRetired
\* The bounds stop there, not the commands.
CHECK_DEADLOCK FALSE
