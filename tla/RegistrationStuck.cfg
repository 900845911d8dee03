SPECIFICATION FairSpec
CONSTANTS
    Syncs = {x1}
    Targets <- ScopedKinds
    ClusterScoped = {g3}
    MaxEdits = 1
    MaxFaults = 0
    g1 = g1
    g2 = g2
    g3 = g3
    s1 = s1
    s2 = s2
    x1 = x1
PROPERTIES DeletedIsLetGo
CHECK_DEADLOCK FALSE
