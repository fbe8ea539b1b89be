SPECIFICATION FairSpec
CONSTANTS
    n = 2
    m = 3
    START_LIST_SIZE = 5
    Voters <- TenVoters
INVARIANTS
    StationBooked
    RegisteredInTurn
PROPERTIES
    Termination
CHECK_DEADLOCK FALSE
