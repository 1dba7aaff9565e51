CONSTANTS
    p1 = p1
    p2 = p2
    p3 = p3
    r1 = r1
    r2 = r2
    r3 = r3
    Processes = {p1, p2, p3}
    Requests = {r1, r2, r3}
    ProcessOf <- OneEach
    Inodes = {1, 2}
    MaxLive = 2
    Prompt = TRUE
    None = None
SPECIFICATION Spec
INVARIANTS
    TypeOK
    LiveOwnerKeepsLock
CHECK_DEADLOCK FALSE
