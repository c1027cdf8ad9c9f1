SPECIFICATION Spec
CONSTANTS
    Tasks = {u1, u2, d1}
    Daemons = {d1}
    Cpus = {p0, p1}
    Master = p0
    Idle = Idle
    NULL = NULL
    LastVA = 3
    Backed = {1, 2}
    Pages = {f1, f2, f3}
    Slots = 2
    Grants <- BGrants
    Errors = {"read"}
    Device = Device
    handleResponse <- handleBlockResponse
SYMMETRY BSymmetry
INVARIANTS
    MemoryIsCoherent
    PagesInOnePlace
    WaitersAreOwed
