CONSTANTS
    Accounts = {a1, a2}
    Syncs = {s1, s2}
    None = None
    Lookback = 2
    Overlap = 0
    MaxPages = 2
    PageSize = 1
    LastDay = 1
    MaxPosts = 3
SPECIFICATION Spec
CHECK_DEADLOCK FALSE
INVARIANTS TypeOK NothingForgotten SlotIsHeld
SYMMETRY Symmetry
