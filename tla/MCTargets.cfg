CONSTANTS
    w1 = w1
    w2 = w2
    repo = repo
    feature = feature
    fix = fix
    pool = pool
    None = None
    Workers = {w1, w2}
    Repos = {repo}
    BranchNames = {feature, fix}
    Pools = {pool}
    PoolOf <- OnePool
    LeaseTTL = 2
    HeartbeatTimeout = 0
    AssignmentTimeout = 0
    InputTTL = 1
    MaxTaskAttempts = 1
    Dispatches <- Targeted
    Handlers = {"register", "heartbeat", "claim", "start", "result", "offline"}
    MaxTasks = 3
    AttemptBound = 1
SPECIFICATION CarefulSpec
INVARIANTS
    OneTaskPerWorker
    RepoIsExclusive
    WorkHoldsLeases
CHECK_DEADLOCK FALSE
