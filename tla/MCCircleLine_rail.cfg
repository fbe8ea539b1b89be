SPECIFICATION Spec
CONSTANTS
    t1 = t1
    t2 = t2
    Trains <- TwoTrains
    nStations = 3
INVARIANT RailExclusive
CHECK_DEADLOCK FALSE
