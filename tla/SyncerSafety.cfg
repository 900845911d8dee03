SPECIFICATION Spec
CONSTANTS
    Syncs = {x1}
    Namespaces = {n1}
    Kinds = {"source", "copy", "sync", "namespace"}
    MaxEdits = 1
    MaxFaults = 1
    Attempts = 2
    CopiesWatched = TRUE
    x1 = x1
    n1 = n1
INVARIANTS OscTypeOK RegisteredIsGuarded GuardInv
CHECK_DEADLOCK FALSE
