\* A trading life in the order of the dates, and backdated events.
SPECIFICATION MCSpec
CONSTANTS
    Genesis <- Seed
    Candidates <- AllEvents
    MaxDate = 4
    MaxEvents = 6
    Untiered = Untiered
    Blank = Blank
    FxScale = 12
    Policy <- SomePolicy
INVARIANTS
    TypeOK
    Conserved
    ExactInOrder
    NoAbsentTarget
    HeldMarkMatchesClose
    ReportedBalances
\* The log is full: the bound, not the ledger, stops there.
CHECK_DEADLOCK FALSE
