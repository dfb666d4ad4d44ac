\* One download, messages lost: a provider of another version is known, the right one may be
\* announced at any time.
SPECIFICATION FairSpec
CONSTANTS
    Download = {d1}
    Peer = {p1, p2}
    Right = {p1}
    Wrong = {p2}
    Torn = {}
    Chunks = 3
    Concurrency = 2
    MaxTries = 2
    Lossy = TRUE
    p1 = p1
    p2 = p2
    p3 = p3
    Known <- One
INVARIANTS
    TypeOK
    PermitsKept
    ResolverServes
    NoOrphan
    FailsForReason
PROPERTIES
    RetryElsewhere
    DownloadSettles
CHECK_DEADLOCK FALSE
