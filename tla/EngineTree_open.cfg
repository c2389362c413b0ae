SPECIFICATION Spec
CONSTANTS
    v0 = v0
    v1 = v1
    v2 = v2
    Version <- MCVersion
    Owner = {owner}
    Consumer = {consumer}
    Action = {"remap", "destructive", "abort"}
    Use = {"alone", "shared"}
    MaxDrift <- MCMaxDrift
    MaxFaults <- MCMaxFaults
    None = None
SYMMETRY Symmetry
INVARIANT TypeOK
PROPERTIES
    FailedMapUndone
    
    FittingTemplatesKept
    GraphUnderLock
\* A consumer that is refused waits for an owner, and an engine may be closed for good.
CHECK_DEADLOCK FALSE
