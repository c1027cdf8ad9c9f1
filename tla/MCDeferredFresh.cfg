SPECIFICATION Spec
CONSTANTS
    Cpus = {p0, p1, p2}
    Master = p0
    Early = {p0, p1}
    Items = {i1, i2}
    MaxWinkles = 0
    StartDuringWinkle = FALSE
    NULL = NULL
INVARIANT FreshCpusHeld
