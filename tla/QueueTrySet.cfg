CONSTANTS
    Nodes = {n1, n2}
    Lockers = {l1}
    States = {s0, s1}
    Default = s0
    Parking = "swap"
SPECIFICATION Spec
PROPERTY TrySetReportsTruth
CHECK_DEADLOCK FALSE
