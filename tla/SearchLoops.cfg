SPECIFICATION Spec
CONSTANTS
    CAs = {"int", "again"}
    Leaves = {"l1"}
    Root = "root"
    Namespace <- MCNamespace
    SecretName <- MCSecretName
    Issuers <- MCIssuers
PROPERTY SearchAlwaysEnds
CHECK_DEADLOCK FALSE
