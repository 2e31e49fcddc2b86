\* Two processes and two models, one of them wide.
CONSTANTS
    Procs = {p1, p2}
    Models = {small, wide}
    Wide = {wide}
    MaxCalls = 3
    None = none
SPECIFICATION RSpec
INVARIANTS
    RegistryInv
PROPERTIES
    ActiveKept
    LoneActivationHeals
    CallsEnd
CHECK_DEADLOCK FALSE
