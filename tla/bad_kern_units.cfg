SPECIFICATION Spec
CONSTANTS
    Procs = {p1, p2, p3}
    p1 = p1
    p2 = p2
    p3 = p3
    p4 = p4
    MAXSEMS = 1
    Values = {}
    KernValues = {0}
    Indices <- AllIndices
    KernIndices <- LastSemaphore
    MaxValue = 1
INVARIANTS
    KernWaitsAtZero
CHECK_DEADLOCK FALSE
