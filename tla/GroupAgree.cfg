SPECIFICATION Spec
CONSTANTS
    Members = {m1, m2}
    NoMember = NoMember
    Plans = {a, b}
    NoPlan = NoPlan
    Retries = TRUE
    MaxGen = 3
    MaxLives = 2
    MaxPending = 3
SYMMETRY Symmetry
INVARIANTS TypeOK OneLeader OnePlan
PROPERTY SyncedAsAsked
CHECK_DEADLOCK FALSE
