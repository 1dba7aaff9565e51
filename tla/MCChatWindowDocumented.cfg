CONSTANTS
    c1 = c1
    c2 = c2
    t1 = t1
    t2 = t2
    d1 = d1
    d2 = d2
    Template = Template
    Chats = {c1, c2}
    TaskOf <- Apart
    DispatchOf <- TwoDispatches
    ModeOf <- NewAndContinued
    NewChat = TRUE
    Empties = FALSE
    Styles = {"plain"}
    Slow = TRUE
    Idle = 1
    MaxPause = 1
    MaxLive = 1
SPECIFICATION Spec
INVARIANTS
    ContinuedIsTaken
PROPERTIES
    ReadsOwnChat
    StaleIsRefused
CHECK_DEADLOCK FALSE
