SPECIFICATION Spec
CONSTANTS
    MaxFaults = 2
INVARIANTS
    TypeOK
    EveryCheckAccounted
    
    ReportTellsAll
CHECK_DEADLOCK FALSE
