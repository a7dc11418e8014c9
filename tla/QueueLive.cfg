CONSTANTS
    Nodes = {n1, n2}
    Lockers = {l1}
    States = {s0}
    Default = s0
SPECIFICATION LiveSpec
PROPERTY RemovalCompletes
CHECK_DEADLOCK FALSE
