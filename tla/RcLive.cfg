SPECIFICATION RcFairSpec
CONSTANTS
    Syncs = {x1}
    Namespaces = {n1}
    Kinds = {"source", "copy", "sync", "namespace"}
    MaxEdits = 2
    MaxFaults = 1
    Attempts = 2
    CopiesWatched = TRUE
    x1 = x1
    n1 = n1
PROPERTIES EventuallyReplicated EventuallyCleaned NamespaceReleased SourceReleased SourceGuardedInTheEnd
CHECK_DEADLOCK FALSE
