SPECIFICATION SpecPrograms
CONSTANTS
    c1 = c1
    c2 = c2
    s1 = s1
    s2 = s2
    Clients <- TwoClients
    Servers <- TwoServers
    Q = 2
    Size = 2
    Low <- LowTimes
    High <- HighTimes
    Tasks <- FiveTasks
    Main = Main
    NoOne = NoOne
    NoTask = NoTask
    Values <- ThreeValues
    nThread = 2
    Lengths = {2, 4, 6}
INVARIANTS
    TokensMatchTasks
    EachInputOnce
    DateOfMostSales
    AnswerForMe
    LinesWhole
PROPERTIES
    PoolSpec
    WorkEnds
