SPECIFICATION Spec
CONSTANTS
    Calls = {c1, c2, c3}
    FailureThreshold = 2
    HalfOpenProbeLimit = 1
    InitialLimit = 0
    NewLimits = {}
    CallFaults = {"unexpected"}
    MaxErrors = 3
    MaxReconfigs = 0
PROPERTY ProbesDecide
