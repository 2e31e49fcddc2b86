\* Three documents, one captured again, a caller asking for one or two of them.
CONSTANTS
    a1 = a1
    a2 = a2
    b1 = b1
    c1 = c1
    docA = docA
    docB = docB
    docC = docC
    Docs = {docA, docB, docC}
    Versions = {a1, a2, b1, c1}
    DocOf <- VersionDoc
    Successor <- Replaced
    When <- Occurred
    First = {a1, b1, c1}
    Matches = {a1, a2, b1}
    StrongMatches = {a1, b1}
    Authoritative = {a1, a2, c1}
    Stated = {a2, b1}
    SupportFloor = 1
    K = 2
    Overfetch = 3
    RerankLimit = 2
    PoolSize = 2
    RrfK = 60
    MaxChanges = 2
    None = None

    Tags = {tagT, tagU, tagH}
    Own = {a1}
    Held = {tagH}
    FirstTags <- TagsAtFirst
    Limit = 1
    TimelineOverfetch = 2
    tagT = tagT
    tagU = tagU
    tagH = tagH
SPECIFICATION RSpec
INVARIANTS
    ReadInv
    SaysSo
    StrongHasGround
    SteadyIsListed
CHECK_DEADLOCK FALSE
