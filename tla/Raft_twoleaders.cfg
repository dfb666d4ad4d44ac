\* Three nodes, one term.
SPECIFICATION Spec
CONSTANTS
    Node = {n1, n2, n3}
    Cmd = {}
    Wired = TRUE
    Lossy = FALSE
    Duplicates = FALSE
    Electors = {n1, n2, n3}
    Unsteady = {}
    Mortal = {}
    MaxTerm = 1
    MaxFlight = 2
    MaxCalls = 2
    MaxFaults = 0
    NoNode = NoNode
    Noop = Noop
SYMMETRY Symmetry
INVARIANTS
    OneLeaderPerTerm
CHECK_DEADLOCK FALSE
