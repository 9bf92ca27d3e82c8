\* Two processes over one database, upgrades and rollbacks, signals and kills.
SPECIFICATION FairSpec
CONSTANTS
    None = None
    site = site
    newSite = newSite
    oldKey = oldKey
    newKey = newKey
    Processes = {p1, p2}
    Sites = {site, newSite}
    Keys = {oldKey, newKey}
    Requests = {r1}
    TenantIDs = {t1}
    Deployments <- UpAndDown
    MaxDeploys = 1
    MaxIncidents = 1
    MaxTokens = 1
    MaxTime = 4
    Second = 2
    KeySize = 2
    MaxPort = 2
    DefaultAccessTokenTTL = 3
INVARIANTS
    TypeOK
    SchemaIsRecorded
    ServesMigratedSchema
    TokensLiveAsAnnounced
PROPERTIES
    ComesUp
    StopsWhenTold
CHECK_DEADLOCK FALSE
