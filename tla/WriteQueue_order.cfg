SPECIFICATION Spec
CONSTANTS
    m1 = m1
    m2 = m2
    m3 = m3
    c1 = c1
    c2 = c2
    ov = ov
    big = big
    owner = owner
    consumer = consumer
    None = None
    Event <- OrderEvent
    KindOf <- OrderKind
    SpaceOf <- OrderIn
    GraphOf <- OrderGraph
    SizeOf <- OrderSize
    Space <- MCSpace
    Graph <- MCGraph
    Writer <- MCWriter
    Consumer <- MCConsumer
    HomeSpace <- MCHome
    LiveGraph <- MCLive
    Poison <- NoEvent
    DrainLimit = 2
    FileCap = 8
    TornRewrites = FALSE
    MaxFailures = 1
INVARIANTS
    TypeOK
    NothingLost
    ReplayedOnlyAfterFailure
PROPERTIES
    LearnedInOrder
