SPECIFICATION Spec
CONSTANTS
    SegmentMaxBytes = 4
    IndexInterval = 20
    Pids = {p1, p2}
    RingSize = 2
    Retain = 2
    MaxSeq = 3
    Window = 2
    MaxBatches = 4
    MaxEpoch = 1
    MaxCrashes = 1
    MaxEvents = 1
SYMMETRY Symmetry
CONSTRAINT StillCounts
INVARIANTS
    TypeOK
    OnceInOrder
    StateMatchesLog
    RetryIsRecognised
    AnswerIsRight
CHECK_DEADLOCK FALSE
