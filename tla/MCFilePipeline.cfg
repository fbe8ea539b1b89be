SPECIFICATION Spec
CONSTANTS
    a1 = a1
    a2 = a2
    b1 = b1
    b2 = b2
    c1 = c1
    c2 = c2
    A <- TwoA
    B <- TwoB
    C <- TwoC
    Main = Main
    N = 2
    QSize = 2
    Records <- ThreeRecords
    MayFail <- SecondFile
    OutFails = TRUE
    NoRecord = NoRecord
    NoOne = NoOne
SYMMETRY Symmetry
INVARIANTS
    OnePermit
    ExtractFinds
    RecordsIntact
CHECK_DEADLOCK FALSE
