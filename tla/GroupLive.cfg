SPECIFICATION FairSpec
CONSTANTS
    Members = {m1, m2, m3}
    NoMember = NoMember
    Plans = {a}
    NoPlan = NoPlan
    Retries = FALSE
    MaxGen = 3
    MaxLives = 1
    MaxPending = 3
PROPERTIES LeaderIsMember BarrierResolves
CHECK_DEADLOCK FALSE
