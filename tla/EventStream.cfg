SPECIFICATION Spec
CONSTANTS
    u1 = u1
    u2 = u2
    book = book
    Topics <- MCTopics1
    Clients = {u1}
    Own = book
    Chans = {1, 2}
    ChanCap = 1
    OutCap = 1
    NoChan = NoChan
    Publishers = {p1, p2}
    MaxMessages = 2
    MaxEvents = 2
INVARIANTS TypeOK NoSendOnClosed
PROPERTIES PublishersNeverStall BookCatchesUp GoroutinesEnd
CHECK_DEADLOCK FALSE
