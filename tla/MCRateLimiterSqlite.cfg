SPECIFICATION Spec
CONSTANTS
    None = None
    Requests = {r1, r2}
    Rate = 3
    Burst = 2
    Sqlite = TRUE
    Epsilon = 1
    MaxAge = 10
    MaxLag = 4
    MaxClock = 17
SYMMETRY Symmetry
INVARIANTS WindowBound NoDrift
PROPERTIES RetryAfterHonoured
CHECK_DEADLOCK FALSE
