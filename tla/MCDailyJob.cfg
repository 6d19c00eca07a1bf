\* The daily job, its faults, the clock and the operator.
SPECIFICATION FairSpec
CONSTANTS
    Registry <- MCRegistry
    Weekends = {2}
    FixMaxStaleDays = 1
    EraStart = 1
    MaxWindowDays = 9
    MaxNoticeLost = 1
    MaxNoticeDark = 2
    LastDay = 2
    Fund <- MCFund
    VENUE_DARK_WINDOW_DAYS = 1
    MaxIncidents = 1
    RecoveredDays = {1}
INVARIANTS
    TypeOK
    FailureIsTold
    AllClearIsTrue
    EveryDayAccounted
    MarkHasQuote
    NoMeansNo
PROPERTY
    ProjectionCatchesUp
