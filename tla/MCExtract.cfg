SPECIFICATION FairSpec
CONSTANTS
    Infos <- MCInfos
    Domains <- MCDomains
    XrayPaths <- MCXrayPaths
    DbPaths <- MCDbPaths
    MoreDbPaths <- MCMoreDbs
    Texts <- MCTexts
    MaxFaults = 2
    MaxChanges = 1
INVARIANTS
    TypeOK
    NothingStale
    CertificatesWhole
    OneFaultTolerated
PROPERTIES
    ExtractionEnds
