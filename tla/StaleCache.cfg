SPECIFICATION FairSpec
CONSTANTS
    CAs = {"i1", "n1"}
    Leaves = {"l1"}
    Root = "root"
    Parent <- ChainParent
    Namespace <- ChainNamespace
    Env = {"cacheLag", "rootLag", "sameSecond", "trustLag"}
    StagingAtInstall = {}
    RotatedBeforeInstall = {}
    MaxSerial = 2
    MaxKey = 10
    MaxDisruptions = 2
INVARIANTS RotationInv ReissuesBounded
PROPERTIES ImplementsDualTrust ConditionsClose TrimKeepsEveryAnchor RotationCompletes
CHECK_DEADLOCK FALSE
