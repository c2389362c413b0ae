SPECIFICATION FairSpec
CONSTANTS
    a = a
    b = b
    c = c
    Member = {a, b, c}
    Slug <- MCSlug
    Plan <- Plans
    Served = {c}
    MaxParallel = 2
    MaxTurns = 2
\* Two turns are over and nobody is left at work.
CHECK_DEADLOCK FALSE
INVARIANTS
    TypeOK
    StopsSoon
    OneStatementPerConnection
    DriversFirst
    ToldTruly
    NoneLeftBehind
PROPERTIES
    CancelledStepEnds
