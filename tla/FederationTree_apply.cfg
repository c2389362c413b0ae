SPECIFICATION Spec
CONSTANTS
    a = a
    b = b
    c = c
    Source = {a, b, c}
    Declaration <- Declarations
    Owner = {o1}
    Consumer = {}
    Visible = {a, b}
    MaxDrift = 0
    MaxFaults = 0
    None = None
\* Every process may have crashed, been refused or be done.
CHECK_DEADLOCK FALSE
INVARIANTS
    ApplyAccepted
