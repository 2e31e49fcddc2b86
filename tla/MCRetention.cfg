\* Three captures or replays of one document, a forget and a purge of it.
CONSTANTS
    Captures = {c1, c2, c3}
    Refs = {r1}
    Hashes = {h1, h2}
    Times = {t1}
    Runs = {}
    Live = live
    None = none
    PageLimit = 1
    Forgets = {f1}
    Purges = {p1}
SPECIFICATION RSpec
SYMMETRY Symmetry
INVARIANTS
    RetentionInv
    ForgottenIsRedacted
CHECK_DEADLOCK FALSE
