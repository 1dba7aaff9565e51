CONSTANTS
    w1 = w1
    w2 = w2
    repo = repo
    feature = feature
    fix = fix
    pool = pool
    None = None
    Workers = {w1, w2}
    Repos = {repo}
    BranchNames = {feature}
    Pools = {pool}
    PoolOf <- OnePool
    LeaseTTL = 1
    HeartbeatTimeout = 0
    AssignmentTimeout = 0
    InputTTL = 1
    MaxTaskAttempts = 2
    Dispatches <- OneRepo
    Handlers = {"register", "heartbeat", "poll", "claim", "start", "result", "offline"}
    MaxTasks = 1
    AttemptBound = 2
SPECIFICATION FairSpec
PROPERTIES
    RunningTaskIsHeardOf
    UnclaimedTaskIsHeardOf
CHECK_DEADLOCK FALSE
