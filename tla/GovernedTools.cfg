CONSTANTS
    i1 = i1
    c0 = c0
    d1 = d1
    o1 = o1
    o2 = o2
    Calls = {c0, c1, c2}
    Digests = {d1}
    Ids = {i1, i2, i3, i4}
    Owners = {o1, o2}
    Bindings <- SomeBindings
    None = none
    MaxTime = 1
    MaxTtl = 1
    Capacity = 3
    MaxRefusals = 1
    MaxFaults = 1
    Adjustable = TRUE
SPECIFICATION SpecAfterFailure
SYMMETRY Symmetry
CHECK_DEADLOCK FALSE
INVARIANTS
    OneRelease
    LocalConsent
    CompensatedOnce
    NothingOrphaned
    StoreSound
