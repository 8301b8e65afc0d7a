SPECIFICATION Spec
CONSTANTS
    r1 = r1
    r2 = r2
    Users = {u1, u2}
    RMs = {r1, r2}
    Desk <- MCDesk
    Requests = {t1, t2}
    Nobody = Nobody
    Unset = Unset
    Operations = {"login", "offboard"}
    Caps = {2}
    MaxRequests = 4
    MaxUpdates = 0
PROPERTIES ImplementsLedger OffboardEmptiesBook RowsNameOldRM RequestsFinish
CHECK_DEADLOCK FALSE
