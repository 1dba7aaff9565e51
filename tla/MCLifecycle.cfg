CONSTANTS
    w1 = w1
    w2 = w2
    repo = repo
    feature = feature
    fix = fix
    pool = pool
    None = None
    Workers = {w1, w2}
    Repos = {repo}
    BranchNames = {feature}
    Pools = {pool}
    PoolOf <- OnePool
    LeaseTTL = 1
    HeartbeatTimeout = 0
    AssignmentTimeout = 0
    InputTTL = 1
    MaxTaskAttempts = 2
    Dispatches <- OneRepo
    Handlers = {"register", "heartbeat", "poll", "claim", "start", "result", "offline", "ask", "disable", "enable", "review", "interrupt", "resume", "cancel"}
    MaxTasks = 1
    AttemptBound = 2
SYMMETRY Symmetry
SPECIFICATION Spec
INVARIANTS
    TypeOK
    AssignmentFollowsTask
    AttemptFollowsTask
    ReviewIsOfLatestAttempt
    RetryBudget
PROPERTIES
    AttemptHistoryKept
    EveryTaskFollowsLifecycle
CHECK_DEADLOCK FALSE
