\* Two nodes, two terms: heartbeats, messages lost, an engine stopped and started, or
\* a process that dies and comes back with nothing.
SPECIFICATION Spec
CONSTANTS
    Node = {n1, n2}
    Cmd = {}
    Wired = TRUE
    Lossy = TRUE
    Duplicates = FALSE
    Electors = {n1, n2}
    Unsteady = {n1, n2}
    Mortal = {n1, n2}
    MaxTerm = 2
    MaxFlight = 1
    MaxCalls = 2
    MaxFaults = 1
    NoNode = NoNode
    Noop = Noop
SYMMETRY Symmetry
INVARIANTS
    TypeOK
    LeadersHaveMandate
    MajorityLeads
PROPERTIES
    NeverBack
CHECK_DEADLOCK FALSE
