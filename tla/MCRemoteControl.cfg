CONSTANTS
    e1 = e1
    e2 = e2
    Environments = {e1, e2}
    Numbers = {1}
    Statuses = {"disabled"}
    MaxRequests = 3
    MaxExtras = 2
SPECIFICATION Spec
SYMMETRY Symmetry
INVARIANTS TypeOK BusyIsReal PageIsTrue
CHECK_DEADLOCK FALSE
