SPECIFICATION FairSpec
CONSTANTS
    a1 = a1
    a2 = a2
    b1 = b1
    b2 = b2
    c1 = c1
    c2 = c2
    A <- TwoA
    B <- TwoB
    C <- TwoC
    Main = Main
    N = 2
    QSize = 2
    Records <- OneEach
    MayFail <- NoFile
    OutFails = FALSE
    NoRecord = NoRecord
    NoOne = NoOne
PROPERTY CleanStop
CHECK_DEADLOCK FALSE
