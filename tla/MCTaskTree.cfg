SPECIFICATION Spec
CONSTANTS
    Tids = {t1, t2, t3, t4}
    Root = t1
    Kernel = Kernel
    Any = Any
    None = None
    Garbage = Garbage
    MayDetach = {t1, t3}
INVARIANTS
    ParentsAreTracked
    FinishedAreCollectable
    CrashesAreNoticed
    AwaitedIsRunning
\* all tasks may have ended
CHECK_DEADLOCK FALSE
