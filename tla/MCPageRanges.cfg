SPECIFICATION Spec
CONSTANTS
    Procs = {p1, p2}
    NULL = NULL
    Junk = Junk
    Buckets = 3
    Retries = 2
    MaxCalls = 5
    Reserved = 2
    Width = 16
    Nodes <- PMNodes
    Stacks <- PMStacks
    Requests <- PMRequests
    MainRange <- PMMain
    LateRange <- PMLate
SYMMETRY PMSymmetry
CHECK_DEADLOCK FALSE
INVARIANT CoalesceKnowsRanges
