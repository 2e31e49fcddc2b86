\* Three principals who add to one document.  To be checked here one by one:
\* the invariants SharedStaysSeen and OwnerStable, the properties
\* ShareWritesTags and ReplayTouchesNothing.
CONSTANTS
    Principals = {alice, bob, carol}
    Docs = {d1}
    Contents = {h1, h2}
    Adds = {a1, a2}
    MaxReplays = 1
    None = none
SPECIFICATION ASpec
INVARIANT CreatorSees
CHECK_DEADLOCK FALSE
