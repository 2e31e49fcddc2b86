\* A capture across a promote, then the demote.
CONSTANTS
    Captures = {c1, c2, c3}
    Refs = {r1}
    Hashes = {h1, h2}
    Times = {t1}
    Runs = {g1, s1, s2}
    Live = live
    None = none
    PageLimit = 2
    Replays = {g1}
    Switches = {s1, s2}
    Engine = engine
    Registered = TRUE
    Searching = FALSE
SPECIFICATION TSpec
SYMMETRY Symmetry
PROPERTY DemoteBringsBack
CHECK_DEADLOCK FALSE
