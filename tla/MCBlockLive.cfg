SPECIFICATION Spec
CONSTANTS
    Tasks = {u1, u2, d1}
    Daemons = {d1}
    Cpus = {p0}
    Master = p0
    Idle = Idle
    NULL = NULL
    LastVA = 2
    Backed = {1, 2}
    Pages = {f1, f2}
    Slots = 2
    Grants <- LGrants
    Errors = {}
    Device = Device
    handleResponse <- handleBlockResponse
PROPERTY WaitsEnd
