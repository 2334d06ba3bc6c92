SPECIFICATION FairSpec
CONSTANTS
    CAs = {"i1", "n1"}
    Leaves = {"l1"}
    Root = "root"
    Parent <- ChainParent
    Namespace <- ChainNamespace
    Env = {"issuerLag"}
    StagingAtInstall = {}
    RotatedBeforeInstall = {}
    MaxSerial = 2
    MaxKey = 4
    MaxDisruptions = 1
PROPERTY Tier1Retriggered
CHECK_DEADLOCK FALSE
