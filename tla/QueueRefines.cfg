CONSTANTS
    Nodes = {n1, n2, n3}
    Lockers = {l1}
    States = {s0, s1}
    Default = s0
    Parking = "swap"
SPECIFICATION Spec
SYMMETRY Symmetry
INVARIANTS TypeOK NoDangling GuardedIsQueued ListWellLinked AssertionsHold
PROPERTIES ImplementsAtomicQueue DequeueIsFifo
CHECK_DEADLOCK FALSE
