SPECIFICATION SafeSpec
CONSTANTS
    Tasks = {c1, c2, s1}
    Servers = {s1}
    Cpus = {p0, p1}
    Master = p0
    Idle = Idle
    Msgs = {m1, m2}
    RequestQ = RequestQ
    ReplyQ = ReplyQ
    NULL = NULL
    ReuseBuffers = FALSE
    Calls = {"affinity"}
    MaxPinned = 1
    MaxPending = 1
PROPERTIES
    PinnedStaysPut
