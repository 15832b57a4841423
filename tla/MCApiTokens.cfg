SPECIFICATION MCSpec
CONSTANTS
    None = None
    Letters = {"t", "o"}
    Users = {u1, u2}
    Tokens = {t1, t2}
    Requests = {r1, r2}
    Ops = {"create", "list", "revoke"}
    Resource <- MCResource
    Asked <- MCAsked
    Hour = 1
    MaxLag = 1
    MaxClock = 3
SYMMETRY Symmetry
INVARIANTS TypeOK DeadOnArrival LastUsedIsRecent ActsAsItself
PROPERTIES RevocationSticks
