CONSTANTS
    Futures = {f1, f2}
    Threads = {t1}
    Tasks = {k1}
    Kinds = {"if", "until"}
    Capacity = 2
    MaxCount = 2
    MaxCalls = 2
SPECIFICATION FairSpec
PROPERTIES CloseReleases ConditionSeen
CHECK_DEADLOCK FALSE
