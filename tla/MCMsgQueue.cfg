SPECIFICATION SafeSpec
CONSTANTS
    Tasks = {c1, s1, s2}
    Servers = {s1, s2}
    Cpus = {p0, p1}
    Master = p0
    Idle = Idle
    Msgs = {m1, m2}
    RequestQ = RequestQ
    ReplyQ = ReplyQ
    NULL = NULL
    ReuseBuffers = FALSE
    Calls = {"send", "noblk", "yield", "sleep", "affinity"}
    MaxPinned = 1
    MaxPending = 1
SYMMETRY Symmetry
INVARIANTS
    SendRecvBlocks
    RequestsOwed
    EachTaskInOnePlace
