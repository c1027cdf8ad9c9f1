SPECIFICATION Spec
CONSTANTS
    Tasks = {u1, u2, d1}
    Daemons = {d1}
    Cpus = {p0, p1}
    Master = p0
    Idle = Idle
    NULL = NULL
    LastVA = 2
    Backed = {1, 2}
    Pages = {f1, f2}
    Slots = 2
    Grants <- LGrants
    Errors = {"read"}
    Device = Device
    handleResponse <- handleBlockResponse
PROPERTY FlushIsComplete
