\* Two runs promoted one after the other, the first demoted first.
CONSTANTS
    Captures = {c1, c2}
    Refs = {r1}
    Hashes = {h1}
    Times = {t1}
    Runs = {g1, g2, s1, s2, s3}
    Live = live
    None = none
    PageLimit = 2
    Replays = {g1, g2}
    Switches = {s1, s2, s3}
    Engine = engine
    Registered = TRUE
    Searching = FALSE
SPECIFICATION TSpec
SYMMETRY Symmetry
INVARIANT GenerationIsItsRun
CHECK_DEADLOCK FALSE
