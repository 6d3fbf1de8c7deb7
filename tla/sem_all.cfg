SPECIFICATION Spec
CONSTANTS
    Procs = {p1, p2, p3, p4}
    p1 = p1
    p2 = p2
    p3 = p3
    p4 = p4
    MAXSEMS = 2
    Values <- FewValues
    KernValues = {1}
    Indices <- AllIndices
    KernIndices <- LastSemaphore
    MaxValue = 1
INVARIANTS
    TypeOK
    WaitersCounted
    VNeverSleeps
PROPERTIES
    ImplementsCounting
CHECK_DEADLOCK FALSE
