\* The distiller as a workflow, through the run-scoped mount.
CONSTANTS
    Sources = {s1, s2}
    Doomed = {}
    OwnerTag = owner
    TenantTag = tenant
    Tags = {owner, tenant, space}
    RunScoped = TRUE
    PageLimit = 2
    MaxClaims = 3
    MaxFailures = 0
    MaxChanges = 0
SPECIFICATION DSpec
PROPERTY ClaimsNeverWiden
CHECK_DEADLOCK FALSE
