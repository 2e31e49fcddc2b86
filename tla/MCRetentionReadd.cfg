\* A document is captured, deprecated or forgotten, and captured again.
CONSTANTS
    Captures = {c1, c2}
    Refs = {r1}
    Hashes = {h1, h2}
    Times = {t1}
    Runs = {}
    Live = live
    None = none
    PageLimit = 1
    Forgets = {f1}
    Purges = {p1}
SPECIFICATION RSpec
SYMMETRY Symmetry
INVARIANT NoVersionClash
CHECK_DEADLOCK FALSE
