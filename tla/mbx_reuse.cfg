SPECIFICATION Spec
CONSTANTS
    NULL = NULL
    MAXMBOX = 2
    MAXSLOTS = 2
    MAX_MESSAGE = 4
    MAX_BLOCKED = 1
    Reserved = 1
    Tick = tick
    Procs = {p1, p2, p3}
    p1 = p1
    p2 = p2
    p3 = p3
    p4 = p4
    x = x
    y = y
    tick = tick
    Priority <- EqualPriority
    Calls <- TwoOwners
    Targets = {0}
    Msgs <- OneMessage
    BufSizes = {0, 4}
    SlotCounts = {0, 1, 3}
    SlotSizes = {2}
    Receivers = {}
INVARIANTS
    TypeOK
    SlotIntegrity
CHECK_DEADLOCK FALSE
