SPECIFICATION Spec
CONSTANTS
    CAs = {"int", "team", "web", "copy", "again"}
    Leaves = {"l1", "l2"}
    Root = "root"
    Namespace <- MCNamespace
    SecretName <- MCSecretName
    Issuers <- MCIssuers
INVARIANTS TypeOK SearchReachesAll SearchKeepsToTree SweepJudgesOwnChildren
           VerificationJudgesChildren TiersHaveChildren TiersAreLevels SearchMovesOn
PROPERTY SearchEnds
CHECK_DEADLOCK FALSE
