SPECIFICATION Spec
CONSTANTS
    MaxFaults = 0
INVARIANT CleanMeansFine
CHECK_DEADLOCK FALSE
