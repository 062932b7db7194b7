\* Two operations, their cancellation and inferences compete for one model.
CONSTANTS
    Ops = {o1, o2}
    Models = {m1}
    Parts = 2
    None = none
    Capacity = 2
    MaxMishaps = 2
    MaxCrashes = 1
SPECIFICATION FairSpec
CHECK_DEADLOCK FALSE
INVARIANTS
    KeysHeld
    AuditHonest
PROPERTIES
    LedgerMonotone
    OperationsEnd
    KeysReturn
