SPECIFICATION SafeSpec
CONSTANTS
    Tasks = {c1, c2, s1}
    Servers = {s1}
    Cpus = {p0, p1}
    Master = p0
    Idle = Idle
    Msgs = {m1, m2}
    RequestQ = RequestQ
    ReplyQ = ReplyQ
    NULL = NULL
    ReuseBuffers = TRUE
    Calls = {"noblk"}
    MaxPinned = 1
    MaxPending = 1
INVARIANTS
    SendRecvBlocks
