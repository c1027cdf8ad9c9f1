SPECIFICATION Spec
CONSTANTS
    Tids = {t1, t2, t3}
    Root = t1
    Kernel = Kernel
    Any = Any
    None = None
    Garbage = Garbage
    MayDetach = {t2}
INVARIANTS
    NoExitMissed
\* all tasks may have ended
CHECK_DEADLOCK FALSE
