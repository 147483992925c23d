SPECIFICATION Spec
CONSTANTS
    MaxRuns = 2
    MaxFaults = 3
CHECK_DEADLOCK FALSE
INVARIANTS
    UsersBeforeResources
    ClosedAfterShutdown
    ReadyIsTrue
PROPERTIES
    ShutdownEnds
