\* A feed that overlaps a spine.
SPECIFICATION Spec
CONSTANTS
    f1 = f1
    f2 = f2
    m1 = m1
    m2 = m2
    h1 = h1
    Spines = {s1}
    Feeds = {f1}
    Marks <- MarksOf
    HandRecords = {h1}
    Clashes = {}
    NoFile = NoFile
    Torn = Torn
    MaxFaults <- Overlapping
INVARIANTS
    NoSilentLoss
