CONSTANTS
    c1 = c1
    c2 = c2
    None = None
    Clis = {c1}
    Commands = {"start all", "start worker", "start gateway", "start worker --force", "stop worker", "stop all", "restart worker", "restart gateway", "restart all", "codex start", "codex stop"}
    MaxProcesses = 4
    MaxCommands = 3
SPECIFICATION FairSpec
PROPERTIES
    RestartLeavesOne
    TaskEnds
CHECK_DEADLOCK FALSE
