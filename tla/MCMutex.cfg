SPECIFICATION Spec
CONSTANTS
    Tasks = {t1, t2, t3, t4}
    iv_val_addr = val
    Addrs = {val}
INVARIANTS
    MutualExclusion
    NoLostWakeup
PROPERTIES
    SomeoneGetsIn
    ImplementsLock
