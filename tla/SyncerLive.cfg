SPECIFICATION FairSpec
CONSTANTS
    Syncs = {x1}
    Namespaces = {n1}
    Kinds = {"source", "copy", "sync", "namespace"}
    MaxEdits = 1
    MaxFaults = 0
    Attempts = 2
    CopiesWatched = TRUE
    x1 = x1
    n1 = n1
PROPERTIES SyncReleased EventuallyReplicated EventuallyTracked
CHECK_DEADLOCK FALSE
