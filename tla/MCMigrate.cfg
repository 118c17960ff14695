SPECIFICATION FairSpec
CONSTANTS
    Items <- MCItems
    Class <- MCClass
    MaxFaults = 2
    MaxChanges = 1
INVARIANTS
    TypeOK
    DataBeforeWorkloads
    NothingOlder

    
