SPECIFICATION Spec
CONSTANTS
    Fetchers = {1, 2}
    Offsets = {0, 300}
    RecordSizes <- MCRecordSizes
    MaxCalls = 3
    MaxDials = 2
INVARIANTS
    TypeOK OwnAnswer HandledAsSent NoCallHangs
    MessagesUnderstood MetadataUnderstood WholeBatchesTaken
CHECK_DEADLOCK FALSE
