SPECIFICATION RcSpec
CONSTANTS
    Syncs = {x1, x2}
    Namespaces = {n1}
    Kinds = {"source", "copy", "sync", "namespace"}
    MaxEdits = 2
    MaxFaults = 0
    Attempts = 2
    CopiesWatched = TRUE
    x1 = x1
    x2 = x2
    n1 = n1
SYMMETRY SyncSymmetry
INVARIANTS CopiesGuardSource SourceInv
PROPERTIES ReleasesSourceLast
CHECK_DEADLOCK FALSE
