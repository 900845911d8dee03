SPECIFICATION FairSpec
CONSTANTS
    Namespaces = {n1, n2}
    TargetSetting = {n1}
    SourceRef = SourceRef
    OtherRef = OtherRef
    MaxEdits = 1
    MaxFaults = 1
    n1 = n1
    n2 = n2
INVARIANTS TriggersTypeOK NoticesDrift DriftInv
PROPERTIES EventuallySynced ComesToRest
CHECK_DEADLOCK FALSE
