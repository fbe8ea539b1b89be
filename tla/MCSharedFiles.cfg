SPECIFICATION SpecPrograms
CONSTANTS
    t1 = t1
    t2 = t2
    t3 = t3
    s1 = s1
    s2 = s2
    Threads <- ThreeThreads
    Accounts <- TwoAccounts
    Opening <- Amounts
    Operations <- CrossingOperations
    Programs <- LockingPrograms
    Visitors <- ThreeThreads
    Servers <- TwoServers
    Files = 2
    NoVisitor = NoVisitor
    Mutex = Mutex
    NoOne = NoOne
    N = 2
    Walk <- Tree
    Content <- Text
    AtStart <- Starts
    NoWorker = NoWorker
INVARIANTS
    StableWhileRead
    NoLostModification
    HandOver
    TotalsMatchBody
PROPERTIES
    LedgerSpec
    ProgramsEnd
CHECK_DEADLOCK FALSE
