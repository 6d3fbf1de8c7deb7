SPECIFICATION MCSpec
CONSTANTS
    Suite <- AllSuites
    Tests <- Everything
    Sleepers = {1, 2, 3, 4, 5, 6, 7, 8, 9, 10}
    Users = {1, 2, 3, 4, 5, 6, 7, 8, 9, 10}
    Callers = {2, 3, 4}
    Typists = {2, 3}
    Seconds <- FewSeconds
    TICKS_PER_SEC = 2
    SleepSlots = 10
    MaxInt = 127
    MAX_TERMS = 2
    MAXLINE = 2
    MAX_LINES_BUFFERED = 1
    Newlines = {1, 3}
    MAXSEMS = 6
    MaxTick = 8
    MaxTyped = 4
    MaxWrites = 2
    Texts <- SomeTexts
INVARIANTS
    ResultsAsExpected
    ProgramsEnd
    NoOrphans
    ClockTypeOK
    OneRequestEach
    ClockNeverHalts
    OversleepBounded
    TermTypeOK
    OneWriter
    MutexHandedOn
    CharsOnce
    LineFits
PROPERTIES
    NeverEarly
CHECK_DEADLOCK FALSE
