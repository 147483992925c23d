SPECIFICATION Spec
CONSTANTS
    Batches <- Overlapping
    Workers = {w1, w2}
    Consumers = {c1}
    BatchLimit = 2
    MaxAttempts = 1
    MaxFaults = 1
PROPERTIES
    CommittedIsDelivered
