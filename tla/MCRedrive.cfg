CONSTANTS
    w1 = w1
    w2 = w2
    repo = repo
    feature = feature
    fix = fix
    pool = pool
    None = None
    Workers = {w1}
    Repos = {repo}
    BranchNames = {feature, fix}
    Pools = {pool}
    PoolOf <- OnePool
    LeaseTTL = 1
    HeartbeatTimeout = 0
    AssignmentTimeout = 0
    InputTTL = 1
    MaxTaskAttempts = 1
    Dispatches <- ChainOrOne
    Handlers = {"register", "claim", "start", "result", "review", "redrive"}
    MaxTasks = 3
    AttemptBound = 2
SPECIFICATION Spec
INVARIANTS
    RedrivenOnce
    DependenciesMergedFirst
CHECK_DEADLOCK FALSE
