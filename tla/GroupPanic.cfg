SPECIFICATION Spec
CONSTANTS
    Members = {m1, m2}
    NoMember = NoMember
    Plans = {a}
    NoPlan = NoPlan
    Retries = FALSE
    MaxGen = 3
    MaxLives = 1
    MaxPending = 3
INVARIANT TimeoutCompletes
CHECK_DEADLOCK FALSE
