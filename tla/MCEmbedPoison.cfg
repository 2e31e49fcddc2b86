\* One text the embedder refuses.
CONSTANTS
    MaxRemovals = 1
    t1 = t1
    t2 = t2
    a1 = a1
    a2 = a2
    a3 = a3
    Tenants = {t1, t2}
    Adds = {a1, a2, a3}
    TenantOf <- OneOwner
    Poison = {a1}
    MaxAttempts = 2
    BatchSize = 2
    PendingLimit = 2
    MaxOutages = 0
    MaxCrashes = 0
SPECIFICATION Spec
PROPERTY SweepProgresses
CHECK_DEADLOCK FALSE
