\* Two orders of one rung, from the venue to the page.
SPECIFICATION MCSpec
CONSTANTS
    Unreadable = Unreadable
    Offers <- Twins
    Positions = {"p"}
    Declared <- MCDeclared
    PlanLines <- MCPlanLines
    MaxNow = 2
    MaxOrders = 3
    MaxIncidents = 1
INVARIANTS
    TypeOK
    ReadIsCertain
    TrailFollowsTheAct
    TearIsReal
    UnrecordedFillIsFlagged
    OrphansAreForeign
\* The bounds, not the ladder, stop there.
CHECK_DEADLOCK FALSE
