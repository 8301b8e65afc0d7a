CONSTANTS
    Handles = {h1}
    Accts = {x1, x2}
    Grants <- MCGrants
    Procs = {p1, p2}
    None = None
    MaxMoves = 3
SPECIFICATION FairSpec
CHECK_DEADLOCK FALSE
INVARIANTS TypeOK LinkedIsIdentified
PROPERTIES RefreshTells Recovers
