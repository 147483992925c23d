SPECIFICATION MCSpec
CONSTANTS
    None = None
    Requests = {r1, r2, r3}
    Keys = {k1}
    Fingerprints = {f1, f2}
    RedisFaults = {"lapse", "loss", "interrupt", "crash"}
INVARIANTS
    ExclusiveUnlessLapsed
    ChargedOnceUnlessLapsed
    AnswersAreStored
PROPERTIES
    RequestsEnd
