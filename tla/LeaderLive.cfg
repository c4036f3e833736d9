SPECIFICATION FairSpec
CONSTANTS
    Leader = l
    Replicas = {l, f1}
    Producers = {p1}
    Consumers = {}
    Tick = tick
    MinISR = 2
    MaxOffset = 2
    MaxBatch = 1
PROPERTIES
    ParkedIsAnswered
