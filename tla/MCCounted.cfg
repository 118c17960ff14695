SPECIFICATION Spec
CONSTANTS
    Items <- MCItems
    Class <- MCClass
    MaxFaults = 1
    MaxChanges = 0
INVARIANTS
    CountedMeansMigrated
