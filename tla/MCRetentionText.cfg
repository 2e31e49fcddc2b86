\* Two forgets of one document, either of which may crash.
CONSTANTS
    Captures = {c1, c2}
    Refs = {r1}
    Hashes = {h1, h2}
    Times = {t1}
    Runs = {}
    Live = live
    None = none
    PageLimit = 1
    Forgets = {f1, f2}
    Purges = {p1}
SPECIFICATION RSpec
SYMMETRY Symmetry
INVARIANT ForgetLeavesNoText
CHECK_DEADLOCK FALSE
