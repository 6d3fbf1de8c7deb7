SPECIFICATION Spec
CONSTANTS
    NULL = NULL
    MAXMBOX = 2
    MAXSLOTS = 3
    MAX_MESSAGE = 4
    MAX_BLOCKED = 3
    Reserved = 0
    Tick = tick
    Procs = {p1, p2, p3, p4}
    p1 = p1
    p2 = p2
    p3 = p3
    p4 = p4
    x = x
    y = y
    tick = tick
    Priority <- EqualPriority
    Calls <- OneReceiver
    Targets = {1}
    Msgs <- TwoMessages
    BufSizes = {4}
    SlotCounts = {2}
    SlotSizes = {2}
    Receivers = {}
INVARIANTS
    SlotIntegrity
    NoStrandedProducer
    NoStrandedConsumer
    ListedIffAsleep
    NeverStops
PROPERTIES
    ImplementsChannels
CHECK_DEADLOCK FALSE
