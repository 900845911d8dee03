SPECIFICATION FairSpec
CONSTANTS
    Syncs = {x1, x2}
    Targets <- ThreeKinds
    ClusterScoped = {g3}
    MaxEdits = 1
    MaxFaults = 1
    g1 = g1
    g2 = g2
    g3 = g3
    s1 = s1
    s2 = s2
    x1 = x1
    x2 = x2
INVARIANTS RegistrationTypeOK RegistrationsMatch RegInv
PROPERTIES EventuallyRegistered EventuallyGuarded UnreferencedReleased ControllersStop LetGoWithoutKind
CHECK_DEADLOCK FALSE
