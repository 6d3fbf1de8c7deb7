SPECIFICATION Spec
CONSTANTS
    NULL = NULL
    MAXPROC = 4
    PIDMOD = 4
    MaxPid = 7
    Ops <- AllOps
    Priorities <- SomePriorities
INVARIANTS
    TypeOK
    FamilyTree
    NoLostJoin
    SomeoneToRun
PROPERTIES
    QueuesKept
    NoSwitchToSleeper
CHECK_DEADLOCK FALSE
