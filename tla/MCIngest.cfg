\* One process at a time and processes that overlap, with crashes and failures.
SPECIFICATION FairSpec
CONSTANTS
    f1 = f1
    f2 = f2
    m1 = m1
    m2 = m2
    h1 = h1
    Spines = {s1}
    Feeds = {f1, f2}
    Marks <- MarksOf
    HandRecords = {h1}
    Clashes <- Clash
    NoFile = NoFile
    Torn = Torn
    MaxFaults <- BothWays
INVARIANTS
    TypeOK
    LogIsSound
    NothingLost
    HeadIsPast
PROPERTIES
    AllOrNothing
    EventuallyLogged
