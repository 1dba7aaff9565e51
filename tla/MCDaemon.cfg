CONSTANTS
    w1 = w1
    w2 = w2
    repo = repo
    feature = feature
    fix = fix
    pool = pool
    None = None
    Workers = {w1, w2}
    Repos = {repo}
    BranchNames = {feature}
    Pools = {pool}
    PoolOf <- OnePool
    LeaseTTL = 1
    HeartbeatTimeout = 0
    AssignmentTimeout = 0
    InputTTL = 1
    MaxTaskAttempts = 2
    Dispatches <- OneRepo
    Handlers = {"poll"}
    MaxTasks = 1
    AttemptBound = 2
    SubmitTries = 2
    MaxLate = 1
SYMMETRY Symmetry
SPECIFICATION DaemonSpec
INVARIANTS
    SucceededWasReported
    OneExecutor
    RetryIsAcknowledged
PROPERTIES
    AcknowledgedIsRecorded
CHECK_DEADLOCK FALSE
