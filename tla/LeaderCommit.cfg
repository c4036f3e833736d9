SPECIFICATION Spec
CONSTANTS
    Leader = l
    Replicas = {l, f1}
    Producers = {p1, p2}
    Consumers = {c1}
    Tick = tick
    MinISR = 2
    MaxOffset = 2
    MaxBatch = 2
SYMMETRY Symmetry
INVARIANTS
    TypeOK
    AckedIsCommitted
    NoLostWakeup
    LeaderInv
PROPERTIES
    AnswerIsFinal
    CommitNeedsISR
    ImplementsAckedLog
