\* An embedder that is down for as long as one pass tries.
CONSTANTS
    MaxRemovals = 1
    t1 = t1
    t2 = t2
    a1 = a1
    a2 = a2
    a3 = a3
    Tenants = {t1}
    Adds = {a1}
    TenantOf <- OneOwner
    Poison = {}
    MaxAttempts = 2
    BatchSize = 1
    PendingLimit = 2
    MaxOutages = 2
    MaxCrashes = 0
SPECIFICATION FairSpec
PROPERTY NeverLeftPending
CHECK_DEADLOCK FALSE
