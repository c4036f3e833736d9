SPECIFICATION Spec
CONSTANTS
    Brokers = {1, 2}
    MaxEpoch = 3
    Topics = {"t"}
    NumPartitions = 1
    ReplicationFactor = 2
    MetaSegment = 100
    DataSegment = 4
    MetaInterval = 100
    DataInterval = 1
    MaxMeta = 4
    MaxBatches = 3
    MaxRestarts = 1
    MaxBreaks = 1
INVARIANTS
    TypeOK
    HeartbeatsAccepted
    FollowerIsPrefix
    
    FetchMakesProgress
CHECK_DEADLOCK FALSE
