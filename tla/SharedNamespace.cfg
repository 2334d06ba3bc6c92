SPECIFICATION Spec
CONSTANTS
    CAs = {"i1", "n1", "n2"}
    Leaves = {"l1"}
    Root = "root"
    Parent <- SharedParent
    Namespace <- SharedNamespace
    Env = {"renew"}
    StagingAtInstall = {}
    RotatedBeforeInstall = {}
    MaxSerial = 2
    MaxKey = 8
    MaxDisruptions = 2
PROPERTY TrimKeepsEveryAnchor
CHECK_DEADLOCK FALSE
