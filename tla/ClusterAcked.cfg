SPECIFICATION Spec
CONSTANTS
    Brokers = {1, 2}
    MaxEpoch = 3
    Topics = {"t"}
    NumPartitions = 1
    ReplicationFactor = 2
    MetaSegment = 100
    DataSegment = 100
    MetaInterval = 100
    DataInterval = 100
    MaxMeta = 4
    MaxBatches = 3
    MaxRestarts = 0
    MaxBreaks = 0
INVARIANT CommittedOnIsr
CHECK_DEADLOCK FALSE
