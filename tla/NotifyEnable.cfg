CONSTANTS
    Futures = {f1, f2}
    Threads = {t1, t2}
    Tasks = {k1}
    Capacity = 1
    MaxCalls = 1
    CallAfterReady = TRUE
SPECIFICATION Spec
SYMMETRY Symmetry
INVARIANT ReadyStaysReady
CHECK_DEADLOCK FALSE
