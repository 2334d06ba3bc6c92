SPECIFICATION FairSpec
CONSTANTS
    CAs = {"i1", "n1"}
    Leaves = {"l1"}
    Root = "root"
    Parent <- ChainParent
    Namespace <- ChainNamespace
    Env = {"renew", "deleteSecret", "apiFail", "deleteChild"}
    StagingAtInstall = {}
    RotatedBeforeInstall = {}
    MaxSerial = 2
    MaxKey = 12
    MaxDisruptions = 2
INVARIANTS CurrentRootStaged IdleStagesOneRoot AnchorsTrustedOnceStaged ReissuesBounded
PROPERTIES TrimKeepsEveryAnchor CascadeReachedChildren ChainsConverge RotationCompletes
CHECK_DEADLOCK FALSE
