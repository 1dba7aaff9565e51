CONSTANTS
    p1 = p1
    p2 = p2
    p3 = p3
    j1 = j1
    j2 = j2
    j3 = j3
    t1 = t1
    t2 = t2
    Processes = {p1, p2, p3}
    Jobs = {j1, j2, j3}
    Tasks = {t1}
    ProcessOf <- OneEach
    TaskOf <- OneTask
    MaxLive = 2
    CleanupModes = {"retain", "remove"}
    Elsewhere = Elsewhere
    NoJob = NoJob
SPECIFICATION Spec
INVARIANTS
    TypeOK
    NoOrphanedLock
    OneOwner
CHECK_DEADLOCK FALSE
