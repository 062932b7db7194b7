\* Tables of one row; one governed and one local approval.
CONSTANTS
    i1 = i1
    c0 = c0
    d1 = d1
    o1 = o1
    o2 = o2
    Calls = {c0, c1}
    Digests = {d1}
    Ids = {i1}
    Owners = {o1, o2}
    Bindings <- SomeBindings
    None = none
    MaxTime = 1
    MaxTtl = 1
    Capacity = 1
    MaxRefusals = 0
    MaxFaults = 1
    Adjustable = FALSE
SPECIFICATION Spec
CHECK_DEADLOCK FALSE
INVARIANTS
    StoreOpens
