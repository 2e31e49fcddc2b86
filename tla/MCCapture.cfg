\* Three captures or replays of two documents and one staged generation.
CONSTANTS
    Captures = {c1, c2, c3}
    Refs = {r1, r2}
    Hashes = {h1, h2}
    Times = {t1}
    Runs = {run1}
    Live = live
    None = none
    PageLimit = 2
SPECIFICATION FairSpec
INVARIANTS
    CaptureInv
    NoVersionClash
    CursorSafe
PROPERTIES
    LogSpec
    HistorySpec
    EveryVersionDelivered
CHECK_DEADLOCK FALSE
