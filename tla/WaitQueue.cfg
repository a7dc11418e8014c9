CONSTANTS
    Futures = {f1, f2}
    Threads = {t1, t2}
    Tasks = {k1, k2}
    Kinds = {"wait", "until"}
    Capacity = 1
    MaxCount = 1
    MaxCalls = 1
SPECIFICATION Spec
SYMMETRY Symmetry
INVARIANTS TypeOK UncheckedIsSafe NoLostWakeup PanicOnlyIfClosed
PROPERTY CloseIsFinal
CHECK_DEADLOCK FALSE
