------------------------------ MODULE Cluster ------------------------------
(***************************************************************************)
(* The cluster the operator works in: the certificate tree cert-manager    *)
(* keeps, the root CA Secret and its CertificateRequest, the staging       *)
(* ConfigMap, the trust-manager Bundle, and the PKIRotation objects.       *)
(* The steps of this module are cert-manager's, trust-manager's and the    *)
(* cluster's; the operator's own steps are in RootRotation and             *)
(* IntermediateRotation.                                                   *)
(*                                                                         *)
(* A Subject Key Identifier is a number: the n-th key of a CA is n, and    *)
(* None stands for the empty string.                                       *)
(***************************************************************************)
EXTENDS Naturals, Sequences, FiniteSets

CONSTANTS
    CAs,              \* isCA Certificates below the root
    Leaves,           \* the other Certificates
    Root,             \* the root CA
    Parent,           \* Parent[c]: the CA whose Secret backs c's issuer
    Namespace,        \* Namespace[c]: the namespace of Certificate c
    Env,              \* the environment behaviours switched on (below)
    StagingAtInstall, \* keys in the staging ConfigMap the install finds, {} if none
    RotatedBeforeInstall, \* CAs that were rotated after their children were issued
    MaxSerial,        \* bound on the root certificates issued
    MaxKey,           \* bound on the certificates issued per Certificate
    MaxDisruptions    \* bound on renewals, deletions, failures and conflicts together

None == 0
Certs == CAs \cup Leaves
Signers == CAs \cup {Root}

EnvBehaviours == {
    "statusLag",    \* status.notBefore and Ready follow the Secret later
    "issuerLag",    \* an issuer signs with the key it loaded earlier
    "sameSecond",   \* two certificates may share a notBefore
    "trustLag",     \* trust-manager distributes the staging ConfigMap later
    "cacheLag",     \* the operator reads an old copy of the root PKIRotation
    "rootLag",      \* the operator reads an old copy of the root CA Secret
    "certLag",      \* the operator reads an old copy of the Certificates' conditions
    "configMapLag", \* the operator reads an old copy of the staging ConfigMap
    "apiFail",      \* any API call of a handler may fail
    "renew",        \* cert-manager renews a certificate because it is due
    "deleteSecret", \* somebody deletes a Certificate's Secret
    "deleteRoot",   \* somebody deletes the root CA Secret
    "deleteConfigMap", \* somebody deletes the staging ConfigMap
    "deleteChild",  \* somebody deletes the PKIRotation of an intermediate CA
    "crFail",       \* the root's CertificateRequest may fail before it succeeds
    "sameKey",      \* the root may be renewed with the same key
    "rootAgain" }   \* the root may be renewed while a rotation is running

ASSUME ClusterAssumption ==
    /\ Root \notin Certs
    /\ CAs \cap Leaves = {}
    /\ Parent \in [Certs -> Signers]
    /\ DOMAIN Namespace = Certs
    /\ Env \subseteq EnvBehaviours
    /\ RotatedBeforeInstall \subseteq Signers
    /\ MaxSerial \in Nat /\ MaxKey \in Nat /\ MaxDisruptions \in Nat

ASSUME StagingAssumption ==
    StagingAtInstall \subseteq IF Root \in RotatedBeforeInstall THEN {1, 2} ELSE {1}

VARIABLES
    root,       \* the root CA Secret: its key, its serial, whether it exists
    rootCR,     \* the root's CertificateRequest
    crt,        \* the certificate in each Certificate's Secret
    pub,        \* what each Certificate's status says of it
    issuing,    \* the Certificates with Issuing=True
    loaded,     \* the certificate each issuer signs with
    clock,      \* the notBefore of the last certificate issued
    staging,    \* the staging ConfigMap
    bundle,     \* does the Bundle source from the staging ConfigMap
    distributed,\* the keys of the roots trust-manager has distributed
    status,     \* status of the root PKIRotation
    cached,     \* the operator's copy of it
    child,      \* the IntermediateCA PKIRotations
    seen,       \* the operator's copies of the root Secret, of Issuing, of the ConfigMap
    disruptions \* how many disruptions have happened

rootVars  == <<root, rootCR>>
certVars  == <<crt, pub, issuing, loaded, clock>>
trustVars == <<staging, bundle, distributed>>
crdVars   == <<status, cached, child>>
vars == <<rootVars, certVars, trustVars, crdVars, seen, disruptions>>

RootPhases == {"", "Idle", "PreservingOldRoot", "DualTrustActive",
               "AwaitingReissuance", "VerifyingChain", "Complete"}
ChildPhases == {"", "Idle", "AwaitingReissuance", "VerifyingChain", "Complete"}
Conditions == {"Unset", "True", "False"}

PEM == [key : Nat, serial : Nat]
Secret == [key : Nat, serial : Nat, present : BOOLEAN]
ConfigMap == [exists : BOOLEAN, pems : Seq(PEM)]
Signer == [key : Nat, anchor : Nat]
(* akid is the key of the issuing CA, anchor the root key at the end of the chain the
   Secret carries, nb the notBefore, key how often the certificate was issued. *)
Certificate == [key : Nat, akid : Nat, anchor : Nat, nb : Nat, present : BOOLEAN]
RootStatus == [phase : RootPhases, cur : Nat, prev : Nat, dual : Conditions,
               reissued : Conditions, verified : Conditions]
Child == [exists : BOOLEAN, phase : ChildPhases, cur : Nat,
          reissued : Conditions, verified : Conditions]
NoChild == [exists |-> FALSE, phase |-> "", cur |-> None, reissued |-> "Unset", verified |-> "Unset"]

(* The one type invariant: every variable the handlers and the environment write. *)
TypeOK ==
    /\ root \in Secret
    /\ rootCR \in {"none", "pending", "failed", "signed"}
    /\ crt \in [Certs -> Certificate]
    /\ pub \in [Certs -> [nb : Nat, ready : BOOLEAN]]
    /\ issuing \subseteq Certs
    /\ loaded \in [Signers -> Signer]
    /\ clock \in Nat
    /\ staging \in ConfigMap
    /\ bundle \in BOOLEAN
    /\ distributed \subseteq Nat
    /\ status \in RootStatus /\ cached \in RootStatus
    /\ child \in [CAs -> Child]
    /\ seen \in [root : Secret, issuing : SUBSET Certs, staging : ConfigMap]
    /\ disruptions \in Nat

---------------------------------------------------------------------------
(* The tree. *)

Children(p) == {c \in Certs : Parent[c] = p}

(* The levels of the breadth-first search, and everything it collects. *)
Level(p) ==
    LET level[n \in Nat] ==
            IF n = 0 THEN Children(p) ELSE UNION {Children(a) : a \in level[n-1]}
    IN  level
Below(p) == {c \in Certs : \E n \in 0 .. Cardinality(Certs) : c \in Level(p)[n]}
Depth(c) == CHOOSE n \in 0 .. Cardinality(Certs) : c \in Level(Root)[n]

(* Every Certificate the model follows chains to the root. *)
ASSUME TreeAssumption == IsFiniteSet(Certs) /\ Certs \subseteq Below(Root)

Tier1 == {c \in CAs : Parent[c] = Root}
Tier2 == {c \in CAs : Parent[c] \in Tier1}
Tier2Namespaces == {Namespace[c] : c \in Tier2}
TrackedLeaves == {l \in Leaves : Namespace[l] \in Tier2Namespaces \/ Parent[l] \in Tier1}

---------------------------------------------------------------------------
(* What a reader of the cluster sees. Secrets below the root are read past the cache
   (getReader); the root's Secret, Issuing and the ConfigMap are read from informers. A
   Certificate's status and the certificate an issuer has loaded may be older than the
   Secret. *)

RootSecret  == IF "rootLag" \in Env THEN seen.root ELSE root
IssuingSeen == IF "certLag" \in Env THEN seen.issuing ELSE issuing
StagingSeen == IF "configMapLag" \in Env THEN seen.staging ELSE staging

LiveStatus(c) == [nb |-> IF crt[c].present THEN crt[c].nb ELSE None, ready |-> crt[c].present]
Published(c) == IF "statusLag" \in Env THEN pub[c] ELSE LiveStatus(c)
NotBefore(c) == Published(c).nb
Ready(c) == Published(c).ready

SKID(c) == IF crt[c].present THEN crt[c].key ELSE None
AKID(c) == IF crt[c].present THEN crt[c].akid ELSE None

LiveSigner(p) == IF p = Root THEN [key |-> root.key, anchor |-> root.key]
                 ELSE [key |-> crt[p].key, anchor |-> crt[p].anchor]
SignerPresent(p) == IF p = Root THEN root.present ELSE crt[p].present
SigningWith(p) == IF "issuerLag" \in Env THEN loaded[p] ELSE LiveSigner(p)

Keys(pems) == {pems[i].key : i \in DOMAIN pems}
StagedKeys == Keys(staging.pems)
Sourced == IF bundle THEN StagedKeys ELSE {root.key}
Distributed == IF "trustLag" \in Env THEN distributed ELSE Sourced

ActiveCertificateRequest == rootCR \in {"pending", "failed"}

(* The latest notBefore of a set of Certificates, None when none has one. *)
LatestNotBefore(S) == CHOOSE t \in {None} \cup {NotBefore(c) : c \in S} :
                          \A c \in S : NotBefore(c) <= t

(* Disruptions are counted, so that an instance has finitely many. *)
Disrupt(kind) == /\ kind \in Env
                 /\ disruptions < MaxDisruptions
                 /\ disruptions' = disruptions + 1
=============================================================================
