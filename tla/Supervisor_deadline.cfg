\* A child that exits around its deadline.
CONSTANTS
    Kids = {k1}
    Cap = 1
    MaxFaults = 1
CHECK_DEADLOCK FALSE
SPECIFICATION Spec
INVARIANTS
    ExitBeatsDeadline
