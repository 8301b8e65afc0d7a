CONSTANTS
    Cats = {c1, c2}
    Allocs <- MCAllocs
    Procs = {p1, p2}
    LastMonth = 2
    MaxSessions = 2
SYMMETRY Symmetry
SPECIFICATION Spec
CHECK_DEADLOCK FALSE
INVARIANTS TypeOK
PROPERTIES ReplacedWhole StartsClean ResetClears
