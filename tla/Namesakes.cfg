SPECIFICATION Spec
CONSTANTS
    CAs = {"int", "team"}
    Leaves = {"l1"}
    Root = "root"
    Namespace <- MCNamespace
    SecretName <- MCSecretName
    Issuers <- MCNamesakes
INVARIANT OnlyDirectChildrenJudged
CHECK_DEADLOCK FALSE
