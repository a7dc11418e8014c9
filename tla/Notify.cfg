CONSTANTS
    Futures = {f1, f2}
    Threads = {t1, t2}
    Tasks = {k1}
    Capacity = 1
    MaxCalls = 1
    CallAfterReady = FALSE
SPECIFICATION FairSpec
INVARIANTS TypeOK NotificationsConserved NoStaleWaiter CancelUnwrapIsSafe NoLostWakeup
PROPERTIES NotifiedBecomesReady SettledStaysReady
CHECK_DEADLOCK FALSE
