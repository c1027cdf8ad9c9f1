SPECIFICATION Spec
CONSTANTS
    Msgs = {m1, m2}
    Done = done
    Requested = 2
    Width = 16
    MaxCalls = 2
    MaxElapsed = 4
INVARIANTS
    RemainingTime
