\* The components of one process: locks without and with the watchdog, event bus,
\* flat and fractal cube, pulse, projects, channels, assets, search, the
\* process and its pages.
SPECIFICATION PlatformSpec
CONSTANTS
    Req = {r1, r2, r3, r4}
    Path = {left, right}
    NoReq = NoReq
    Watchdog = FALSE
    r1 = r1 r2 = r2 r3 = r3
    k1 = k1 k2 = k2 k3 = k3 noKey = noKey
    p1 = p1 p2 = p2 p3 = p3 p4 = p4
    c1 = c1 c2 = c2 noCell = noCell
    o1 = o1 o2 = o2 o3 = o3 noPath = noPath
    noRecord = noRecord noProject = noProject
    Work = {w1, w2} WorkName = {n1, n2} Caller = {d1, d2} NoRow = NoRow
    MaxCreated = 1 MaxCalls = 3
    ShopCall = {s1, s2, s3} Old = {s0} Owner = {u1} Title = {t1, t2} Address = {a1, a2}
    Version = {v1, v2} Follower = {f1, f2} MaxChannels = 2 MaxWallets = 1
    AssetCall = {l1, l2, l3} Content = {x1, x2} Edition = {v1, v2} noAsset = noAsset MaxFaults = 2
    Word = {stl} Tag = {mit} Spot = {x} AskedWords = {{stl}} AskedTags = {{mit}}
    AskedSpots = {{x}} MaxClock = 1 MaxRepairs = 1 MaxHeard = 5
    Contact = {m} Browser = {b} noIdentity = noIdentity halfIdentity = halfIdentity
    MaxBoots = 2 MaxStops = 2 MaxBeats = 1 MaxMisreads = 1
    MaxAsked = 4 MaxPending = 2 MaxListed = 1 MaxCount = 3 MaxTyped = 2
INVARIANTS
    TypeOK
    MutualExclusion
    NoLostWaiter
    LockedHasOwner
    Fifo
    BusSound
    
    PulseSound
    
    
PROPERTIES
    ImplementsMutex
    KeptThroughMaintenance
    CallsSettle
CHECK_DEADLOCK FALSE
