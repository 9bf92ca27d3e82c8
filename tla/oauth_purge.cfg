\* The purge against every other step, with restarts.
SPECIFICATION FairSpec
CONSTANTS
    None = None
    Clients = {c1}
    Secrets = {s1, s2, s3}
    TenantIDs = {t1}
    Requests = {r1}
    LoginStateTTL = 1
    AuthCodeTTL = 1
    RefreshTokenTTL = 1
    MaxTime = 2
    MaxCrashes = 1
PROPERTY
    ExpiredRowsAreDropped
