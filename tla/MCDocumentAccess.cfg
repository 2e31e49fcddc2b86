\* Two principals, two documents that a replay may derive again, two adds.
CONSTANTS
    Principals = {alice, bob}
    Docs = {d1, d2}
    Contents = {h1, h2}
    Adds = {a1, a2}
    MaxReplays = 1
    None = none
SPECIFICATION ASpec
SYMMETRY Symmetry
INVARIANTS
    AccessInv
    SeenWasGiven
CHECK_DEADLOCK FALSE
