SPECIFICATION Spec
CONSTANTS
    CAs = {"i1", "n1"}
    Leaves = {"l1"}
    Root = "root"
    Parent <- ChainParent
    Namespace <- ChainNamespace
    Env = {"statusLag", "issuerLag", "certLag", "deleteConfigMap"}
    StagingAtInstall = {}
    RotatedBeforeInstall = {}
    MaxSerial = 2
    MaxKey = 3
    MaxDisruptions = 2
INVARIANTS TypeOK NeverUntrusting
PROPERTIES ImplementsDualTrust TrimKeepsTier1Anchors CascadeReachedChildren
CHECK_DEADLOCK FALSE
