SPECIFICATION Spec
CONSTANTS
    Containers <- MCContainers
    Volumes <- MCVolumes
    Composed <- MCComposed
    Jobs <- MCJobs
    Ephemeral = 32768
    MaxFaults = 0
INVARIANTS
    VolumesWhereMounted
