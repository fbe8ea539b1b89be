SPECIFICATION SpecPrograms
CONSTANTS
    N = 3
    M = 3
    Movements <- DistinctMovements
    Blank = Blank
    NoOne = NoOne
    Procs <- Processes
    First = "a"
    Program <- Programs
    MAXSEMAPHORE = 2
    Callers = {"sh", "cat"}
    Shell = "sh"
    NOFILE = 2
    NFILE = 3
    NINODE = 3
    Names = {"d", "f"}
    Paths <- TwoLevels
    Modes <- ReadOrBoth
    MaxSize = 1
    MaxCalls = 5
INVARIANTS
    OneLeaderAMonth
    EarlierMonthsWritten
    PassesPaid
    ReferencesCounted
    LinksCounted
PROPERTIES
    BarrierSpec
    NobodyLeft
