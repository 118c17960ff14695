SPECIFICATION FairSpec
CONSTANTS
    Manifests <- MCManifests
    Envs <- MCEnvs
    MaxFaults = 3
INVARIANTS
    TypeOK
    NeverLockedOut
    LandedMatchesManifest
    NoNeedlessRewrite
PROPERTIES
    PortsNeverScaled
    RetryLands
