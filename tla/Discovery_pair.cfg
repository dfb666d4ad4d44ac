SPECIFICATION Spec
CONSTANTS
    n1 = n1  n2 = n2  n3 = n3  a1 = a1  a2 = a2  a3 = a3
    Node = {n1, n2}
    Addr = {a1, a2}
    Absent = Absent
    Off = Off
    Homes <- Apart
    Subnet <- All
    Announced <- All
    P2P = {a2}
    DeadAge = 2
    RepMax = 1
    RepNew = 1
    RepHearsay = 1
    SeenBonus = 1
    DeadPenalty = 1
    HealthPerTick = 2
    SweepTTL = 1
    LongTTL = 1
    Lossy = TRUE
    MayCrash = {n2}
    MayLeave = {n1}
    MayFreeze = {n2}
INVARIANT TypeOK
INVARIANT NeverSelf
INVARIANT NoFalseSighting
