SPECIFICATION RcSpec
CONSTANTS
    Syncs = {x1}
    Namespaces = {n1, n2}
    Kinds = {"source", "copy", "sync", "namespace"}
    MaxEdits = 2
    MaxFaults = 1
    Attempts = 2
    CopiesWatched = TRUE
    x1 = x1
    n1 = n1
    n2 = n2
SYMMETRY NamespaceSymmetry
INVARIANTS TypeOK TrackedForGC RcInv InSyncInv
PROPERTIES InSyncTells KeepsLedger
CHECK_DEADLOCK FALSE
