\* What discovery and consensus promise under fairness.
SPECIFICATION Spec
CONSTANTS
    n1 = n1 n2 = n2 n3 = n3
    a1 = a1 a2 = a2
    Absent = Absent Off = Off
    c1 = c1 NoNode = NoNode Noop = Noop
PROPERTIES
    Reunited
    DeadForgotten
    AppliedAtLast
CHECK_DEADLOCK FALSE
