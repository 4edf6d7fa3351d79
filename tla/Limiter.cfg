SPECIFICATION LimiterSpec
CONSTANTS
    p1 = p1
    p2 = p2
    p3 = p3
    None = None
    Procs = {p1, p2, p3}
    Limit = 2
    WindowSeconds = 3
    TicksPerSecond = 2
    MaxTicks = 9
    MaxDelay = 1
    MaxTime = 7
    MaxCalls = 4
SYMMETRY Symmetry
CHECK_DEADLOCK FALSE
INVARIANT MemoryTypeOK
INVARIANT ExcessBound
INVARIANT RetrySecondLater
INVARIANT TypeOK
INVARIANT BucketBound
PROPERTY RefusedOnlyWhenFull
PROPERTY RefusedOnlyWhenUsedUp
