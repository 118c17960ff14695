SPECIFICATION FairSpec
CONSTANTS
    Containers <- MCContainers
    Volumes <- MCVolumes
    Composed <- MCComposed
    Jobs <- MCJobs
    Ephemeral = 32768
    MaxFaults = 2
INVARIANTS
    TypeOK
    
    

    
