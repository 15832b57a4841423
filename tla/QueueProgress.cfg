SPECIFICATION Spec
CONSTANTS
    Workers = {w1, w2}
    Jobs = {j1, j2}
    Urgent = {j1}
    Visibility = 2
    MaxRetries = 3
    MaxRetryDelay = 2
    MaxCrashes = 2
    JobsFit = TRUE
    None = None
PROPERTIES Settled
CHECK_DEADLOCK FALSE
