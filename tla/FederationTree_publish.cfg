SPECIFICATION FairSpec
CONSTANTS
    a = a
    b = b
    c = c
    Source = {a, b, c}
    Declaration <- Declarations
    Owner = {o1}
    Consumer = {c1}
    Visible = {a, b}
    MaxDrift = 1
    MaxFaults = 2
    None = None
\* Every process may have crashed, been refused or be done.
CHECK_DEADLOCK FALSE
INVARIANTS
    TypeOK
    ServedWhole
    LastPublication
PROPERTIES
    RolledBack
    LockReleased
