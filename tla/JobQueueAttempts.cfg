SPECIFICATION CountedSpec
CONSTANTS
    None = None
    Workers = {w1, w2}
    Jobs = {j1}
    Priorities = {0}
    Visibility = 1
    MaxRetries = 1
    MaxRetryDelay = 1
    CleanupInterval = 9
    SkipLocked = FALSE
    MaxSkew = 0
    MaxClock = 4
INVARIANT AttemptsBounded
CHECK_DEADLOCK FALSE
