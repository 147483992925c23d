SPECIFICATION Spec
CONSTANTS
    None = None
    Requests = {r1, r2, r3}
    Keys = {k1}
    Fingerprints = {f1, f2}
    Providers <- TwoProviders
    MaxAttempts = 2
    FailureThreshold = 2
    HalfOpenProbeLimit = 1
    ServiceFaults = {"unexpected", "store", "cancel", "crash"}
SYMMETRY Symmetry
INVARIANTS
    TypeOK
    ChargedOncePerKey
    HistoryExplainsStatus
    WaitersAwaitOwner
    CompletedIsStored
    StoredIsNotExecuted
    AnswersAreStored
    EventsMatchPayments
    ClaimsOwned
