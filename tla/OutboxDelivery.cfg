SPECIFICATION Spec
CONSTANTS
    Batches <- Overlapping
    Workers = {w1, w2}
    Consumers = {c1}
    BatchLimit = 2
    MaxAttempts = 2
    MaxFaults = 2
SYMMETRY WorkerSymmetry
INVARIANTS
    MarkedMeansDelivered
    LogInOrder
    EffectsOnceInOrder
