SPECIFICATION ChainSpec
CONSTANTS
    n1 = n1  n2 = n2  n3 = n3  a1 = a1  a2 = a2  a3 = a3
    Node = {n1, n2, n3}
    Addr = {a1, a2, a3}
    Absent = Absent
    Off = Off
    Homes <- Apart
    Subnet <- Chain
    Announced <- Nowhere
    P2P = {}
    DeadAge = 2
    RepMax = 0
    RepNew = 0
    RepHearsay = 0
    SeenBonus = 0
    DeadPenalty = 0
    HealthPerTick = 1
    SweepTTL = 0
    LongTTL = 0
    Lossy = FALSE
    MayCrash = {}
    MayLeave = {}
    MayFreeze = {}
PROPERTY HearsAtLast
