\* A position of two tiers, paid for by a reserve that has none.
SPECIFICATION Spec
CONSTANTS
    Genesis <- Seed
    Candidates <- OverdrawingEvents
    MaxDate = 4
    MaxEvents = 3
    Untiered = Untiered
    Blank = Blank
    FxScale = 12
    Policy <- SomePolicy
INVARIANTS
    NeverSilentlyNegative
\* The log is full: the bound, not the ledger, stops there.
CHECK_DEADLOCK FALSE
