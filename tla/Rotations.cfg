SPECIFICATION FairSpec
CONSTANTS
    CAs = {"i1", "n1"}
    Leaves = {"l1", "d1"}
    Root = "root"
    Parent <- ForkParent
    Namespace <- ForkNamespace
    Env = {"crFail", "sameKey", "deleteRoot"}
    StagingAtInstall = {}
    RotatedBeforeInstall = {"i1"}
    MaxSerial = 3
    MaxKey = 9
    MaxDisruptions = 3
INVARIANTS AnchorsTrusted ReissuesBounded AnchorInv
PROPERTIES TrimKeepsEveryAnchor RotationCompletes EmptyPhaseHeals ChainsConverge
CHECK_DEADLOCK FALSE
