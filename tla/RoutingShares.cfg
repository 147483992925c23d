SPECIFICATION Spec
CONSTANTS
    Providers <- ThreeProviders
    Slots = {s1, s2}
    WindowSize = 2
    Scale = 20
    Cycle = 6
    Outcomes <- FastOrFailed
    Policies <- SixPolicies
    MaxPicks = 5
    MaxFailures = 1
    MaxChanges = 2
SYMMETRY SlotSymmetry
CHECK_DEADLOCK FALSE
INVARIANTS
    RoundRobinShare
    WeightedShare
    StatsAreCurrent
