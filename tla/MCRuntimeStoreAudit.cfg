CONSTANTS
    p1 = p1
    p2 = p2
    create = create
    note = note
    Operator = operator
    Backends = {"sqlite", "postgres"}
    Processes = {p1, p2}
    Updates = {create, note}
    Unqueued = {note}
    MaxRevision = 4
    MaxCopies = 2
    MaxRestarts = 1
SYMMETRY Symmetry
SPECIFICATION Spec
INVARIANTS
    DurableAudit
CHECK_DEADLOCK FALSE
