SPECIFICATION FairSpec
CONSTANTS
    Contents <- MCContents
    Payloads <- MCPayloads
    Foreign  <- MCForeign
    Size     <- MCSize
    Digest   <- MCDigest
    Torn     <- MCTorn
    Absent = Absent
    MaxCommand = 4
    MaxFaults = 2
    MaxForeign = 2
INVARIANTS
    TypeOK
    OkMeansInstalled
    NoNeedlessWrite
PROPERTIES
    RetrySucceeds
    ImplementsInstall
