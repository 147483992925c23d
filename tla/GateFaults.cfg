SPECIFICATION Spec
CONSTANTS
    Calls = {c1, c2, c3}
    FailureThreshold = 2
    HalfOpenProbeLimit = 1
    InitialLimit = 2
    NewLimits = {0, 1}
    CallFaults = {"unexpected", "cancel", "append"}
    MaxErrors = 3
    MaxReconfigs = 1
INVARIANTS
    CircuitFollowsFailures
    ProbeSlotsHeld
    InflightExact
    EventsPaired
PROPERTIES
    CircuitCloses
    AdmittedCallsReturn
