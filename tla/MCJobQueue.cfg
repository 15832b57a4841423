SPECIFICATION MCSpec
CONSTANTS
    None = None
    Workers = {w1, w2, w3}
    Jobs = {j1, j2}
    Priorities = {0, 1}
    Visibility = 1
    MaxRetries = 4
    MaxRetryDelay = 2
    CleanupInterval = 2
    SkipLocked = TRUE
    MaxSkew = 1
    MaxClock = 5
    BusyClock = 2
    ShortClock = 1
SYMMETRY Symmetry
INVARIANTS LeaseHonored RetryBudget NoStranding ExponentialPacing
PROPERTIES AtLeastOnce
CHECK_DEADLOCK FALSE
