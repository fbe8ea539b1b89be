SPECIFICATION FairSpec
CONSTANTS
    p1 = p1
    p2 = p2
    c1 = c1
    c2 = c2
    v1 = v1
    v2 = v2
    Producers <- TwoProducers
    Consumers <- TwoConsumers
    Values <- TwoValues
    Size = 2
    NoValue = NoValue
    NoThread = NoThread
    VisitEnds = TRUE
INVARIANTS
    TypeOK
    SlotsAccounted
    RingConsistent
    WriterApartFromReader
PROPERTIES
    ChannelSpec
    ItemsFlow
