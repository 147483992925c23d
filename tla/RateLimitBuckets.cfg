SPECIFICATION Spec
CONSTANTS
    Merchants = {m1, m2}
    Capacity = 2
    Unit = 3
    Refill = 1
    TicksPerSecond = 2
    MaxTime = 13
    MaxRequests = 5
    MaxSetBack = 1
    None = None
SYMMETRY MerchantSymmetry
CHECK_DEADLOCK FALSE
INVARIANTS
    BurstsBounded
    RetryAfterKept
    RefusedOnlyWhenSpent
