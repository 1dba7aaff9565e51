CONSTANTS
    c1 = c1
    c2 = c2
    None = None
    Clis = {c1}
    Commands = {"start all", "start worker", "start gateway", "start worker --force", "stop worker", "stop gateway", "stop all", "restart worker", "restart gateway", "restart all", "codex start", "codex start --force", "codex stop"}
    MaxProcesses = 3
    MaxCommands = 3
SPECIFICATION Spec
INVARIANTS
    TypeOK
    WorkedOnIsNotFailed
    StartedIsThere
    StoppedIsOffline
PROPERTIES
    OthersAreLeft
CHECK_DEADLOCK FALSE
