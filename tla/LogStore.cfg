SPECIFICATION Spec
CONSTANTS
    SegmentMaxBytes = 5
    IndexInterval = 3
    MaxAppends = 6
    MaxBatch = 2
    Limits = {0, 2, 4}
INVARIANTS
    TypeOK
    FetchServes
    FetchReaches
PROPERTIES
    RestartKeepsEnd
    ImplementsRecordLog
CHECK_DEADLOCK FALSE
