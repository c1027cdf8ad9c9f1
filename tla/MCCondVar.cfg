SPECIFICATION CondSpec
CONSTANTS
    Tasks = {t1, t2, t3}
    iv_val_addr = val
    sequence_addr = seqaddr
    Addrs = {val, seqaddr}
    NULL = NULL
    TheMutex = TheMutex
    OtherMutex = OtherMutex
    MaxSequence = 2
INVARIANTS
    CondMutualExclusion
    BroadcastMissesNone
PROPERTIES
    CondSomeoneGetsIn
\* every task may be waiting for a signal that nobody sends
CHECK_DEADLOCK FALSE
