SPECIFICATION Spec
CONSTANTS
    Requests = {r1, r2, r3, r4}
    NoRequest = NoRequest
    Step = 2
    SegmentRecords = 5
    ReadErrors = FALSE
    MaxRecords = 5
SYMMETRY Symmetry
INVARIANTS TypeOK UniquePids LeasedBeforeUse
CHECK_DEADLOCK FALSE
