SPECIFICATION Spec
CONSTANTS
    q1 = q1
    q2 = q2
    s1 = s1
    s2 = s2
    v1 = v1
    v2 = v2
    None = None
    Question <- MCQuestion
    MaxId = 3
    PartOf <- MCPartOf
    FPartOf <- MCFPartOf
    View = {v1, v2}
    Session = {s1, s2}
    ViewOf <- MCViewOf
    MaxMarks = 3
    MaxFailures = 2
    Use <- Uses
INVARIANTS
    TypeOK
    SavedIsDurable
    RemovedIsGone
    StaysDurable
    HeaderFirst
PROPERTIES
    IdNeverReissued
    RepairedWhenOpened
