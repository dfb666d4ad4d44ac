\* Heartbeats and faults between two nodes; overlapping proposals between three.
SPECIFICATION Spec
CONSTANTS
    n1 = n1
    n2 = n2
    n3 = n3
    c1 = c1
    NoNode = NoNode
    Noop = Noop
INVARIANTS
    LogMatching
    CommittedOnMajority
    FollowersChained
    StateMachineSafety
CHECK_DEADLOCK FALSE
