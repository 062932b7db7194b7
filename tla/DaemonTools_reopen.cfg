\* The same over a restart: the reservation of a pending call is lost.
CONSTANTS
    Calls = {c1}
    Digests = {d1,d2}
    Ids = {i1,i2}
    None = none
    MaxTime = 2
    MaxTtl = 2
    MaxFaults = 1
    Adjustable = FALSE
CHECK_DEADLOCK FALSE
SPECIFICATION Spec
INVARIANTS
    CallIdsSingleUse
