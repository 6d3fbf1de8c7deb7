SPECIFICATION Spec
CONSTANTS
    NULL = NULL
    MAXMBOX = 2
    MAXSLOTS = 2
    MAX_MESSAGE = 4
    MAX_BLOCKED = 3
    Reserved = 0
    Tick = tick
    Procs = {p1, p2, p3}
    p1 = p1
    p2 = p2
    p3 = p3
    p4 = p4
    x = x
    y = y
    tick = tick
    Priority <- EqualPriority
    Calls <- OwnerSenderReceiver
    Targets = {1, 2}
    Msgs <- OddMessages
    BufSizes <- OddSizes
    SlotCounts = {1, 3}
    SlotSizes = {2}
    Receivers = {}
INVARIANTS
    ReleaseWakesAll
PROPERTIES
    ImplementsChannels
CHECK_DEADLOCK FALSE
