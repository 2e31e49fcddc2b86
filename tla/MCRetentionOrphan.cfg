\* The same content is added twice, at two times, and then forgotten.
CONSTANTS
    Captures = {c1, c2}
    Refs = {r1}
    Hashes = {h1}
    Times = {t1, t2}
    Runs = {}
    Live = live
    None = none
    PageLimit = 1
    Forgets = {f1}
    Purges = {}
SPECIFICATION RSpec
PROPERTY ForgetLeavesNoRaw
CHECK_DEADLOCK FALSE
