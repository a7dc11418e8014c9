CONSTANTS
    Clients = {c1, c2, c3}
    Tasks = {k1}
    Sizes = {1, 2}
    OwnedSizes = {1}
    Permits = 2
    Capacity = 1
    U32Max = 31
    UsizeMax = 31
    MaxTotal = 3
    MaxCalls = 1
    AbandonPartial = TRUE
SPECIFICATION Spec
SYMMETRY Symmetry
INVARIANT PermitsConserved
CHECK_DEADLOCK FALSE
