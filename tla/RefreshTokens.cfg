CONSTANTS
    Users = {u1}
    Staff = {s1}
    Tokens = {t1, t2, t3, t4}
    Requests = {p1, p2}
    None = None
    RefreshTokenTTL = 1
    LastDay = 1
SYMMETRY Symmetry
SPECIFICATION Spec
CHECK_DEADLOCK FALSE
INVARIANTS TypeOK OneLiveToken SessionKept
PROPERTIES IsChain
