SPECIFICATION ControllerSpec
CONSTANTS
    CAs = {"i1"}
    Leaves = {"l1"}
    Root = "root"
    Parent <- ShortParent
    Namespace <- ShortNamespace
    Env = {"cacheLag", "configMapLag", "deleteChild", "deleteSecret"}
    StagingAtInstall = {}
    RotatedBeforeInstall = {}
    MaxSerial = 2
    MaxKey = 8
    MaxDisruptions = 2
    MaxRestarts = 1
INVARIANTS ControllerTypeOK MidRotationPolled GaugeCurrent
PROPERTIES ImplementsOperator 
CHECK_DEADLOCK FALSE
