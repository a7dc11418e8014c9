CONSTANTS
    Procs = {"parker", "u1", "u2", "u3", "u4"}
    Threads = {"t1", "t2", "t3", "t4", "t5"}
    Max = 7
SPECIFICATION SpecSync
INVARIANTS StateIsOneOfThree SleeperIsSignalled MutualExclusion LazyMutexExcludes OneObject
PROPERTY ImplementsParker
CHECK_DEADLOCK FALSE
