\* A child that may fork once; one reader error, failed spawn or refused signal.
CONSTANTS
    Kids = {k1}
    Cap = 1
    MaxFaults = 1
CHECK_DEADLOCK FALSE
SPECIFICATION FairSpec
INVARIANTS
    GroupEnded
    DropEnds
    CaptureWhole
    LimitsTold
PROPERTIES
    Returns
