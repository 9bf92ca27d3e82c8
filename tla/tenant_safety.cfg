\* Two accounts and one that is not allowed, one request of each kind, the sweep.
SPECIFICATION Spec
CONSTANTS
    alice = alice
    bob = bob
    carol = carol
    p1 = p1
    p2 = p2
    None = None
    MetaUsers = {alice, bob, carol}
    TenantIDs = {t1, t2}
    Pages = {p1, p2}
    Manageable <- OnePageEach
    Allowed = {alice, bob}
    Logins = {l1}
    Deletions = {d1}
    Syncs = {s1}
    Lifetimes = {0}
    Window = 2
    Recheck = 0
    MaxTime = 2
    MaxGrant = 1
    MaxCrashes = 0
SYMMETRY Symmetric
INVARIANTS
    TypeOK
    TenantIsolation
    NoOrphanPages
