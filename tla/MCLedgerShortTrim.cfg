\* A trim dated before the lots it takes.
SPECIFICATION Spec
CONSTANTS
    Genesis <- Seed
    Candidates <- TrimEvents
    MaxDate = 4
    MaxEvents = 4
    Untiered = Untiered
    Blank = Blank
    FxScale = 12
    Policy <- SomePolicy
INVARIANTS
    QuantityConserved
\* The log is full: the bound, not the ledger, stops there.
CHECK_DEADLOCK FALSE
