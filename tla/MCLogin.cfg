SPECIFICATION MCSpec
CONSTANTS
    None = None
    Browsers = {b1, b2}
    Requests = {r1, r2}
    Providers = {p1, p2}
    Pkce = {p2}
    Accounts = {a1}
    Flows = {f1, f2}
    Tokens = {t1, t2}
SYMMETRY Symmetry
INVARIANTS LoginIsOwn FlowKeysAgree TokenPerLogin OpenPagesStayValid SanctionedStaysOut
