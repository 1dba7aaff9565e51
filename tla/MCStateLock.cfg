CONSTANTS
    p1 = p1
    p2 = p2
    p3 = p3
    r1 = r1
    r2 = r2
    r3 = r3
    Processes = {p1, p2}
    Requests = {r1, r2, r3}
    ProcessOf <- Successor
    Inodes = {1, 2}
    MaxLive = 1
    Prompt = FALSE
    None = None
SPECIFICATION FairSpec
INVARIANTS
    MutualExclusion
    LiveOwnerKeepsLock
    NoOrphanedLock
PROPERTIES
    NoLostUpdate
    EveryRequestEnds
CHECK_DEADLOCK FALSE
