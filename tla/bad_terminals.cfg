SPECIFICATION MCSpec
CONSTANTS
    Suite <- AllSuites
    Tests = {"term08"}
    Sleepers = {1, 2, 3, 4, 5, 6, 7, 8, 9, 10}
    Users = {1, 2, 3, 4, 5, 6, 7, 8, 9, 10}
    Callers = {2, 3, 4}
    Typists = {2, 3}
    Seconds <- FewSeconds
    TICKS_PER_SEC = 10
    SleepSlots = 100
    MaxInt = 2147483647
    MAX_TERMS = 4
    MAXLINE = 80
    MAX_LINES_BUFFERED = 10
    Newlines = {1, 3}
    MAXSEMS = 6
    MaxTick = 8
    MaxTyped = 4
    MaxWrites = 2
    Texts <- SomeTexts
INVARIANTS
    ProgramsEnd
CHECK_DEADLOCK FALSE
