\* A child that may leave its process group, in an orderly world.
CONSTANTS
    Kids = {}
    Cap = 1
    MaxFaults = 0
CHECK_DEADLOCK FALSE
SPECIFICATION FairSpec
PROPERTIES
    TeardownEnds
