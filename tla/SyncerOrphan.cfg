SPECIFICATION SettledSpec
CONSTANTS
    Syncs = {x1}
    Namespaces = {n1}
    Kinds = {"sync"}
    MaxEdits = 2
    MaxFaults = 0
    Attempts = 2
    CopiesWatched = FALSE
    x1 = x1
    n1 = n1
INVARIANTS NoOrphans
CHECK_DEADLOCK FALSE
