SPECIFICATION Spec
CONSTANTS
    CAs = {"i1", "n1"}
    Leaves = {"l1"}
    Root = "root"
    Parent <- ChainParent
    Namespace <- ChainNamespace
    Env = {"statusLag"}
    StagingAtInstall = {}
    RotatedBeforeInstall = {}
    MaxSerial = 2
    MaxKey = 8
    MaxDisruptions = 1
PROPERTY TrimKeepsEveryAnchor
CHECK_DEADLOCK FALSE
