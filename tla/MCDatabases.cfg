SPECIFICATION Spec
CONSTANTS
    Infos <- MCInfos
    Domains <- MCDomains
    XrayPaths <- MCXrayPaths
    DbPaths <- MCDbPaths
    MoreDbPaths <- MCMoreDbs
    Texts <- MCTexts
    MaxFaults = 2
    MaxChanges = 1
INVARIANTS
    EveryDatabaseKept
