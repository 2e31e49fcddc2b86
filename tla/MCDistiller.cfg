\* Two writers' documents, one of whose claims the add refuses, pages of two.
CONSTANTS
    Sources = {s1, s2}
    Doomed = {s2}
    OwnerTag = owner
    TenantTag = tenant
    Tags = {owner, tenant, space}
    RunScoped = FALSE
    PageLimit = 2
    MaxClaims = 3
    MaxFailures = 1
    MaxChanges = 1
SPECIFICATION DFairSpec
INVARIANTS
    DistillerInv
    ClaimedOncePerFault
PROPERTY FeedDrained
CHECK_DEADLOCK FALSE
