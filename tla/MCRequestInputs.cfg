SPECIFICATION MCSpec
CONSTANTS
    c1 = c1
    c2 = c2
    p1 = p1
    Trusted = {p1, p2}
    Untrusted = {c1, c2}
    ClientLists <- MCClientLists
    Recording = {"append", "add_line", "replace", "forwarded"}
    MaxHops = 3
    NoAddress = NoAddress
    Names = {"a", "b"}
    MaxSegments = 7
    Chars = {1, 2}
    MaxString = 2
    MaxEntries = 2
    None = None
    Letters = {"a", "b"}
    MaxName = 2
    MaxList = 2
INVARIANTS ClientFound PathIsNormalized RoundTrip ScopesOnlyRestrict
CHECK_DEADLOCK FALSE
