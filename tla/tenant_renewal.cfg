\* Two accounts, a restart, and no bound on what Meta does to the tokens.
SPECIFICATION FairSpec
CONSTANTS
    alice = alice
    bob = bob
    carol = carol
    p1 = p1
    p2 = p2
    None = None
    MetaUsers = {alice, bob}
    TenantIDs = {t1, t2}
    Pages = {}
    Manageable <- NoPages
    Allowed = {alice, bob}
    Logins = {l1}
    Deletions = {}
    Syncs = {}
    Lifetimes = {0, 2}
    Window = 2
    Recheck = 0
    MaxTime = 2
    MaxGrant = 1
    MaxCrashes = 1
PROPERTY
    DueTenantIsRenewed
\* Once both accounts removed the app for good, nothing is left to do.
CHECK_DEADLOCK FALSE
