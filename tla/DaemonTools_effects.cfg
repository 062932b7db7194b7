\* Two calls and two inputs; writes and effects fail, the daemon ends, the clock moves both ways.
CONSTANTS
    Calls = {c1,c2}
    Digests = {d1,d2}
    Ids = {i1,i2,i3,i4}
    None = none
    MaxTime = 2
    MaxTtl = 2
    MaxFaults = 2
    Adjustable = TRUE
CHECK_DEADLOCK FALSE
SPECIFICATION Spec
SYMMETRY Symmetry
INVARIANTS
    TypeOK
    ResultsHonest
    IdsSingleUse
PROPERTIES
    ImplementsPromise
