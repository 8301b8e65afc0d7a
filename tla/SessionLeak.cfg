SPECIFICATION Spec
CONSTANTS
    u1 = u1
    u2 = u2
    book = book
    Topics <- MCTopics2
    Clients = {u1, u2}
    Own = book
    Chans = {1, 2, 3}
    ChanCap = 1
    OutCap = 1
    NoChan = NoChan
    Publishers = {p1}
    MaxMessages = 3
    MaxEvents = 1
INVARIANT SessionLeavesHub
CHECK_DEADLOCK FALSE
