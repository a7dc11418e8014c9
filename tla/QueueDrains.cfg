CONSTANTS
    Nodes = {n1, n2}
    Lockers = {l1, l2}
    States = {s0}
    Default = s0
    Parking = "store"
SPECIFICATION Spec
SYMMETRY Symmetry
INVARIANTS NoDangling GuardedIsQueued ListWellLinked IInv
CHECK_DEADLOCK FALSE
