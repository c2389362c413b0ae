SPECIFICATION FairSpec
CONSTANTS
    m1 = m1
    m2 = m2
    m3 = m3
    c1 = c1
    c2 = c2
    ov = ov
    big = big
    owner = owner
    consumer = consumer
    None = None
    Event <- KindsEvent
    KindOf <- KindsKind
    SpaceOf <- KindsIn
    GraphOf <- KindsGraph
    SizeOf <- KindsSize
    Space <- MCSpace
    Graph <- MCGraph
    Writer <- MCWriter
    Consumer <- MCConsumer
    HomeSpace <- MCHome
    LiveGraph <- MCLive
    Poison <- PoisonM1
    DrainLimit = 2
    FileCap = 8
    TornRewrites = FALSE
    MaxFailures = 1
PROPERTIES
    EventuallyDrained
