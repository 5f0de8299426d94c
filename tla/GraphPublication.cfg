SPECIFICATION Spec
CONSTANTS
    d1 = d1
    d2 = d2
    e1 = e1
    e2 = e2
    Item = {d1, d2, e1, e2}
    Document <- MCDocument
    Source <- MCSource
    Executable = {e1, e2}
    Reader = {r1}
    MaxCrash = 2
    Torn = Torn
CHECK_DEADLOCK FALSE
SYMMETRY MCSymmetry
CONSTRAINT MCBound
INVARIANTS
    TypeOK
    AuditedIsWhole
    OneVersion
    OnlyACrashBlocks
    RecomputeCatchesUp
    SessionKeepsItsGraph
