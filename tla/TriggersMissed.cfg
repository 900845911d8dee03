SPECIFICATION Spec
CONSTANTS
    Namespaces = {n1, n2}
    TargetSetting = {n1}
    SourceRef = SourceRef
    OtherRef = OtherRef
    MaxEdits = 1
    MaxFaults = 0
    n1 = n1
    n2 = n2
INVARIANTS TracksDestinations
CHECK_DEADLOCK FALSE
