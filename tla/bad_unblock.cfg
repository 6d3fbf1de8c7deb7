SPECIFICATION Spec
CONSTANTS
    NULL = NULL
    MAXPROC = 4
    PIDMOD = 4
    MaxPid = 7
    Ops <- SleepOps
    Priorities <- SomePriorities
INVARIANTS
    NeverHangs
CHECK_DEADLOCK FALSE
