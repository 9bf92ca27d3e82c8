\* The sweep against a deletion of the same account.
SPECIFICATION Spec
CONSTANTS
    alice = alice
    bob = bob
    carol = carol
    p1 = p1
    p2 = p2
    None = None
    MetaUsers = {alice}
    TenantIDs = {t1, t2, t3}
    Pages = {p1}
    Manageable <- AlicePage
    Allowed = {alice}
    Logins = {l1, l2}
    Deletions = {d1}
    Syncs = {}
    Lifetimes = {1}
    Window = 2
    Recheck = 0
    MaxTime = 2
    MaxGrant = 2
    MaxCrashes = 0
INVARIANT SweepNeverRevives
