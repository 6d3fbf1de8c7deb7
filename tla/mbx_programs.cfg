SPECIFICATION PSpec
CONSTANTS
    NULL = NULL
    MAXMBOX = 13
    MAXSLOTS = 20
    MAX_MESSAGE = 150
    MAX_BLOCKED = 10
    Reserved = 6
    Tick = tick
    tick = tick
    Procs = {1, 2, 3, 4, 5, 6, 7, 8}
    Priority <- EqualPriority
    Calls <- EveryCall
    Targets = {}
    Msgs = {}
    BufSizes = {}
    SlotCounts = {}
    SlotSizes = {}
    Receivers = {}
    Suite <- Phase2Tests
    Tests <- PassingTests
INVARIANTS
    ResultsAsExpected
    ProgramsEnd
CHECK_DEADLOCK FALSE
