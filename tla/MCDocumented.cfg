CONSTANTS
    w1 = w1
    w2 = w2
    repo = repo
    feature = feature
    fix = fix
    pool = pool
    None = None
    Workers = {w1}
    Repos = {repo}
    BranchNames = {feature}
    Pools = {pool}
    PoolOf <- OnePool
    LeaseTTL = 1
    HeartbeatTimeout = 0
    AssignmentTimeout = 0
    InputTTL = 1
    MaxTaskAttempts = 1
    Dispatches <- OneRepo
    Handlers = {"register", "poll", "claim", "start", "result"}
    MaxTasks = 1
    AttemptBound = 1
SPECIFICATION Spec
PROPERTIES
    LookupIsReadOnly
    ReviewedOnceStarted
CHECK_DEADLOCK FALSE
