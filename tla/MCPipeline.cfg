SPECIFICATION MCFairSpec
CONSTANTS
    near = near
    far = far
    r1 = r1
    r2 = r2
    Requests = {r1, r2}
    Kinds <- MCKinds
    Ips = {near, far}
    BlockedIps = {far}
    BlockedRoutes = {"list_tokens", "metrics"}
    Burst = 1
    Impatient = TRUE
INVARIANTS NothingUntilAdmitted AnswersComplete ProtectedHandlersGuarded CountersAgree
PROPERTIES EverythingEnds
CHECK_DEADLOCK FALSE
