\* One download, and chunks that come torn.
SPECIFICATION FairSpec
CONSTANTS
    Download = {d1}
    Peer = {p1, p2}
    Right = {p2}
    Wrong = {}
    Torn = {p1}
    Chunks = 1
    Concurrency = 1
    MaxTries = 2
    Lossy = FALSE
    p1 = p1
    p2 = p2
    p3 = p3
    Known <- Both
PROPERTIES
    DownloadSettles
CHECK_DEADLOCK FALSE
