SPECIFICATION Spec
CONSTANTS
    t1 = t1
    t2 = t2
    t3 = t3
    Threads <- ThreeThreads
    Accounts <- TwoAccounts
    Opening <- Amounts
    Operations <- CrossingOperations
    Programs <- SemaphoreProgram
    Mutex = Mutex
    NoOne = NoOne
INVARIANT OneAtATime
