SPECIFICATION BarrierSpec
CONSTANTS
    Tasks = {t1, t2, t3}
    iv_val_addr = val
    iv_event_addr = event
    Addrs = {val, event}
    Destroyer = t1
    MaxRounds = 2
INVARIANTS
    NobodyLeavesEarly
PROPERTIES
    EveryRoundEnds
\* the tasks stop after MaxRounds rounds
CHECK_DEADLOCK FALSE
