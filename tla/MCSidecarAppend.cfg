\* Three processes, an append each of up to two lines, one hand edit.
SPECIFICATION FairSpec
CONSTANTS
    Writers = {w1, w2, w3}
    MaxAppends = 1
    MaxLines <- TwoLines
    MaxRetries = 1
    MaxEdits = 1
    NoFile = NoFile
    Hand = Hand
    Mangled = Mangled
INVARIANTS
    TypeOK
    MutualExclusion
    NoLostBatch
    NoLitter
PROPERTIES
    ImplementsAppendLog
    AppendsEnd
\* Every process may have spent its appends.
CHECK_DEADLOCK FALSE
