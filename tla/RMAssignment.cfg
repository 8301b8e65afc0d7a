SPECIFICATION Spec
CONSTANTS
    r1 = r1
    r2 = r2
    Users = {u1, u2, u3}
    RMs = {r1, r2}
    Desk <- MCDesk
    Requests = {t1, t2}
    Nobody = Nobody
    Unset = Unset
    Operations = {"login", "assign", "remove", "offboard", "update_rm"}
    Caps = {1, 3}
    MaxRequests = 4
    MaxUpdates = 1
SYMMETRY MCSymmetry
INVARIANTS TypeOK PointerIsFresh SignupsFitDesk RotationIsFair
CHECK_DEADLOCK FALSE
