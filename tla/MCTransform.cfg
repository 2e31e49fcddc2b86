\* Two stored documents, two more captures or replayed rows, a run, and two switches.
CONSTANTS
    Captures = {c1, c2, c3, c4}
    Refs = {r1, r2}
    Hashes = {h1, h2}
    Times = {t1}
    Runs = {g1, s1, s2}
    Live = live
    None = none
    PageLimit = 2
    Replays = {g1}
    Switches = {s1, s2}
    Engine = engine
    Registered = TRUE
    Searching = TRUE
SPECIFICATION StoredSpec
INVARIANTS
    TransformInv
PROPERTIES
    OnlyStaleSwitchesStrand
    ReplayLeavesLiveAlone
    TransactionsEnd
CHECK_DEADLOCK FALSE
