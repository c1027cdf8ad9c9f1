SPECIFICATION PoolSpec
CONSTANTS
    Tasks = {main, w1, w2}
    iv_val_addr = val
    sequence_addr = seqaddr
    Addrs = {val, seqaddr}
    NULL = NULL
    TheMutex = TheMutex
    OtherMutex = OtherMutex
    MaxSequence = 3
    Main = main
    Items = {i1, i2}
    NoItem = NoItem
    Rank <- MCRank
    iv_checkChildRc = TRUE
INVARIANTS
    EachItemOnce
    ShutdownCompletes
PROPERTIES
    WorkGetsDone
    ShutdownReturns
CHECK_DEADLOCK FALSE
