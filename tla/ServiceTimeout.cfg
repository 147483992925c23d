SPECIFICATION Spec
CONSTANTS
    None = None
    Requests = {r1, r2}
    Keys = {k1}
    Fingerprints = {f1}
    Providers <- TwoProviders
    MaxAttempts = 2
    FailureThreshold = 3
    HalfOpenProbeLimit = 1
    ServiceFaults = {}
INVARIANT NoFailoverAfterTimeout
