SPECIFICATION RecursiveSpec
CONSTANTS
    Tasks = {t1, t2, t3}
    iv_val_addr = val
    Addrs = {val}
    NoOwner = NoOwner
    MaxDepth = 2
INVARIANTS
    RecursiveMutualExclusion
    OwnerCountsNesting
PROPERTIES
    RecursiveProgress
