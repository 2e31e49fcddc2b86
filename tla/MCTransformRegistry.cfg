\* A promote over the shipped schema.
CONSTANTS
    Captures = {c1, c2}
    Refs = {r1}
    Hashes = {h1}
    Times = {t1}
    Runs = {g1, s1}
    Live = live
    None = none
    PageLimit = 2
    Replays = {g1}
    Switches = {s1}
    Engine = engine
    Registered = FALSE
    Searching = FALSE
SPECIFICATION TSpec
SYMMETRY Symmetry
PROPERTY ActivationAccepted
CHECK_DEADLOCK FALSE
