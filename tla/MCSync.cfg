CONSTANTS
    None = None
    p1 = p1
    p2 = p2
    Parts = {"queue", "history", "light", "pico"}
    Peers = {p1, p2}
    NoPeer = NoPeer
    MaxIds = 3
    Desired = 2
    MIN_ATTEMPTS = 2
    MAX_ATTEMPTS = 2
SPECIFICATION SyncSpec
INVARIANTS
    DownloadIsOrdered
    ClustersAgree
    
PROPERTIES
    WindowIsHeld
SYMMETRY SyncQueueSymmetry
CHECK_DEADLOCK FALSE
