SPECIFICATION Spec
CONSTANTS
    CAs = {"i1", "n1"}
    Leaves = {"l1"}
    Root = "root"
    Parent <- ChainParent
    Namespace <- ChainNamespace
    Env = {"rootAgain"}
    StagingAtInstall = {}
    RotatedBeforeInstall = {}
    MaxSerial = 3
    MaxKey = 8
    MaxDisruptions = 2
INVARIANT CurrentRootStaged
CHECK_DEADLOCK FALSE
