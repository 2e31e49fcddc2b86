\* Two sources beside the store, three keys that any of them may return.
CONSTANTS
    k1 = k1
    k2 = k2
    k3 = k3
    NumProviders = 2
    Keys = {k1, k2, k3}
    AdapterOf <- KeyAdapter
    NameOf <- SourceName
    Names = {"linear", "drive", "web"}
    Limit = 2
    None = None
SPECIFICATION FSpec
INVARIANTS
    FederatedInv
    SaysWhatFailed
    FailureIsContained
PROPERTIES
    SearchEnds
CHECK_DEADLOCK FALSE
