\* A token request against the deletion of its tenant.
SPECIFICATION Spec
CONSTANTS
    None = None
    Clients = {c1}
    Secrets = {s1, s2, s3}
    TenantIDs = {t1}
    Requests = {r1}
    LoginStateTTL = 1
    AuthCodeTTL = 1
    RefreshTokenTTL = 2
    MaxTime = 2
    MaxCrashes = 0
INVARIANT ErasureEndsSessions
