\* One version whose claim the add refuses.
CONSTANTS
    Sources = {s1}
    Doomed = {s1}
    OwnerTag = owner
    TenantTag = tenant
    Tags = {owner, tenant}
    RunScoped = FALSE
    PageLimit = 1
    MaxClaims = 3
    MaxFailures = 0
    MaxChanges = 1
SPECIFICATION DFairSpec
PROPERTY NoEntryBlocksFeed
CHECK_DEADLOCK FALSE
