SPECIFICATION Spec
CONSTANTS
    Syncs = {x1, x2}
    Namespaces = {n1}
    Kinds = {"sync"}
    MaxEdits = 1
    MaxFaults = 0
    Attempts = 2
    CopiesWatched = FALSE
    x1 = x1
    x2 = x2
    n1 = n1
PROPERTIES TrackedSourceKeepsFinalizer
CHECK_DEADLOCK FALSE
