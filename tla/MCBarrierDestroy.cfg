SPECIFICATION BarrierSpec
CONSTANTS
    Tasks = {t1, t2, t3}
    iv_val_addr = val
    iv_event_addr = event
    Addrs = {val, event}
    Destroyer = t1
    MaxRounds = 1
INVARIANTS
    DestroyAssertion
CHECK_DEADLOCK FALSE
