\* Two tenants, a failing embedder, a crash, a purge and a forget at any time.
CONSTANTS
    t1 = t1
    t2 = t2
    a1 = a1
    a2 = a2
    a3 = a3
    Tenants = {t1, t2}
    Adds = {a1, a2, a3}
    TenantOf <- Owner
    Poison = {}
    MaxAttempts = 2
    BatchSize = 1
    PendingLimit = 1
    MaxOutages = 2
    MaxCrashes = 1
    MaxRemovals = 1
SPECIFICATION FairSpec
INVARIANTS
    EmbedInv
    SettledOnlyWhenDone
    NoOrphanVector
PROPERTY WaitersSettle
CHECK_DEADLOCK FALSE
