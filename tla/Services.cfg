\* Routing table, the ghost mesh, what a consensus node makes of the commands,
\* the Android application, the review of uploads, the HTTP interface, the plugins'
\* watchdogs and the previews.
SPECIFICATION ServicesSpec
CONSTANTS
    p1 = p1 p2 = p2
    a = a b = b c = c self = self
    f1 = f1 f2 = f2
    c1 = c1 c2 = c2 c3 = c3
    m1 = m1 m2 = m2 m3 = m3
    none = none
INVARIANTS
    LookupsSound
    
CHECK_DEADLOCK FALSE
