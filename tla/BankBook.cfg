CONSTANTS
    Accounts = {a1}
    Txns = {t1}
    Mandates = {m1, m2}
    Deposits = {d1}
    Requests = {p1, p2}
    None = None
    Opening <- MCOpening
    Amounts <- MCAmounts
    Terms <- MCTerms
    MaxCatchUp = 2
    PoolSize = 2
    MonthLengths <- MCMonthLengths
    FirstDay <- MCFirstDay
    LastDay <- MCLastDay
SYMMETRY Symmetry
SPECIFICATION Spec
CHECK_DEADLOCK FALSE
INVARIANTS TypeOK NoOverdraft BooksBalance EachCycleOnce OnlyThePoolStarves
PROPERTIES CancelIsFinal
