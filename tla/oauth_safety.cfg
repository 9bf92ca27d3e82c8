\* Two concurrent requests over the secrets of one full flow and a second one.
SPECIFICATION Spec
CONSTANTS
    None = None
    Clients = {c1, c2}
    Secrets = {s1, s2, s3, s4}
    TenantIDs = {t1}
    Requests = {r1, r2}
    LoginStateTTL = 1
    AuthCodeTTL = 1
    RefreshTokenTTL = 2
    MaxTime = 2
    MaxCrashes = 0
SYMMETRY Symmetric
INVARIANTS
    TypeOK
    CleanErasureEndsSessions
PROPERTIES
    ImplementsGrant
    PurgeTakesOnlyDead
