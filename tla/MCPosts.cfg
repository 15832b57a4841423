SPECIFICATION MCSpec
CONSTANTS
    None = None
    Deleted = Deleted
    u1 = u1
    a = a
    Users = {u1, u2}
    MaxPosts = 3
    MaxClock = 1
    Texts = {a, b}
    Requests = {r1, r2}
    DEFAULT_PER_PAGE = 1
    MAX_PER_PAGE = 2
    Sizes = {None, 0, 3}
SYMMETRY Symmetry
INVARIANTS TypeOK NoLostWrite OwnersOnly WalkIsComplete
PROPERTY DeletedForGood
