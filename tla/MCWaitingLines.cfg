SPECIFICATION SpecPrograms
CONSTANTS
    t1 = t1
    t2 = t2
    Trains <- TwoTrains
    nStations = 3
    N_STATION = 4
    N_TRAIN = 2
    T_CAPACITY = 1
    Journeys <- TwoPassengers
    K = 3
    Rounds = 1
    PipeWords = 1
    Main = Main
    NoOne = NoOne
INVARIANTS
    CountMatchesList
    NoLostWakeup
    StationTrackExclusive
    RailsConserved
    WaitingRing
    ReportsWhole
PROPERTIES
    GateSpec
    AlightWhereBound
CHECK_DEADLOCK FALSE
