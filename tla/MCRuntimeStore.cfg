CONSTANTS
    p1 = p1
    p2 = p2
    create = create
    note = note
    Operator = operator
    Backends = {"sqlite", "postgres"}
    Processes = {p1, p2}
    Updates = {create, note}
    Unqueued = {note}
    MaxRevision = 5
    MaxCopies = 3
    MaxRestarts = 1
SYMMETRY Symmetry
SPECIFICATION Spec
INVARIANTS
    CommittedStays
    ShadowIsAnImage
    ShadowKeepsUp
CHECK_DEADLOCK FALSE
