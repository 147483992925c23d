SPECIFICATION Spec
CONSTANTS
    None = None
    Requests = {r1, r2, r3}
    Keys = {k1}
    Fingerprints = {f1}
    Providers <- TwoProviders
    MaxAttempts = 1
    FailureThreshold = 1
    HalfOpenProbeLimit = 1
    ServiceFaults = {"unexpected", "store", "cancel", "crash"}
PROPERTIES
    RequestsEnd
    ImplementsOncePerKey
