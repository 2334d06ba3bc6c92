----------------------------- MODULE Discovery -----------------------------
(***************************************************************************)
(* How the operator finds the Certificates below a CA: the breadth-first   *)
(* search of pkirotation_discovery.go, the tiers the root's cascade        *)
(* collects, and the direct children a sweep and a verification judge.     *)
(*                                                                         *)
(* Cluster takes the certificate tree as given. This module derives it     *)
(* from what the operator reads, the issuerRef of each Certificate and the *)
(* Secret name of each issuer, and compares it with the tree cert-manager  *)
(* builds: an Issuer signs with the Secret of that name in its own         *)
(* namespace, a ClusterIssuer with the one in the root's namespace.        *)
(*                                                                         *)
(* The search collects lists; the model keeps the sets of their elements.  *)
(***************************************************************************)
EXTENDS Naturals, FiniteSets

CONSTANTS
    CAs,        \* isCA Certificates that may exist below the root
    Leaves,     \* other Certificates that may exist
    Root,       \* the root CA's Certificate
    Namespace,  \* Namespace[c]: the namespace of Certificate c
    SecretName, \* SecretName[c]: the Secret of CA c
    Issuers     \* the Issuers and ClusterIssuers with spec.ca

ClusterIssuer == "ClusterIssuer"
Issuer == "Issuer"
Certs == CAs \cup Leaves
Signers == CAs \cup {Root}

\* spec.ca is nil: neither the search nor cert-manager takes a Secret from it
SelfSigned == [kind |-> ClusterIssuer, ns |-> "", name |-> "selfsigned", secret |-> ""]
Absent == [kind |-> "", ns |-> "", name |-> "", secret |-> ""]

(* Kubernetes keeps names unique per kind and namespace; a Secret has one Certificate. *)
ASSUME DiscoveryAssumption ==
    /\ Root \notin Certs /\ CAs \cap Leaves = {}
    /\ \A i \in Issuers : i.kind \in {ClusterIssuer, Issuer}
    /\ \A i, j \in Issuers \cup {SelfSigned} :
          i.kind = j.kind /\ i.name = j.name /\ (i.kind = Issuer => i.ns = j.ns) => i = j
    /\ \A i \in Issuers : i.secret # ""
    /\ \A c \in Signers : SecretName[c] # ""
    /\ \A c, d \in Signers : SecretName[c] = SecretName[d] /\ Namespace[c] = Namespace[d] => c = d

(* The operator lists them. *)
ASSUME FiniteAssumption == IsFiniteSet(Certs) /\ IsFiniteSet(Issuers)

VARIABLES
    ref,     \* the issuer spec.issuerRef of each Certificate names
    start,   \* the CA whose Certificates are searched
    anchors, \* the issuers of the next level of the search
    found    \* the Certificates collected so far
vars == <<ref, start, anchors, found>>

Present == {c \in Certs : ref[c] # Absent}
PresentCAs == (Present \cap CAs) \cup {Root}

TypeOK ==
    /\ ref \in [Certs \cup {Root} -> Issuers \cup {SelfSigned, Absent}]
    /\ start \in Signers
    /\ anchors \subseteq Issuers
    /\ found \subseteq Certs

---------------------------------------------------------------------------
(* What cert-manager does with the same objects. *)

Resolves(i, c) == /\ i.secret = SecretName[c]
                  /\ Namespace[c] = IF i.kind = Issuer THEN i.ns ELSE Namespace[Root]

Issued(p) == {c \in Present : Resolves(ref[c], p)}

Below(p) ==
    LET level[n \in Nat] == IF n = 0 THEN Issued(p)
                            ELSE UNION {Issued(c) : c \in (level[n-1] \cap CAs)}
    IN  UNION {level[n] : n \in 0 .. Cardinality(CAs)}

(* The clusters considered: every CA below the root chains to it, none signs itself, a
   leaf may be foreign. *)
Layout ==
    /\ \A c \in Certs : ref[c].kind = Issuer => ref[c].ns = Namespace[c]
    /\ \A c \in CAs : ref[c] # SelfSigned /\ c \notin Issued(c)
    /\ Present \subseteq Below(Root) \cup {l \in Leaves : ref[l] = SelfSigned}

---------------------------------------------------------------------------
(* The search. *)

\* Mutants: the skip of the CA's own issuer compares names only; the Issuers are listed,
\* the ClusterIssuers forgotten.
SkippedByName(c) == {i \in Issuers : i.secret = SecretName[c] /\ i.name # ref[c].name}
NamespacedOnly(c) == {i \in Issuers : i.secret = SecretName[c] /\ i.kind = Issuer}
FindIssuersForCACert(c) == {i \in Issuers :
    /\ i.secret = SecretName[c]
    /\ ~ /\ i.name = ref[c].name /\ i.kind = ref[c].kind
         /\ i.kind = Issuer => i.ns = Namespace[c]}

(* The Certificates one List of the search, of the sweep, keeps for an issuer. *)
\* Mutant: the kind is not compared.
ListedByName(a) == {c \in Present : ref[c].name = a.name /\ (a.kind = Issuer => Namespace[c] = a.ns)}
Listed(a) == {c \in Present : /\ ref[c].name = a.name /\ ref[c].kind = a.kind
                              /\ a.kind = Issuer => Namespace[c] = a.ns}

Init == /\ \E r \in [Certs -> Issuers \cup {SelfSigned, Absent}] :
              ref = [c \in Certs \cup {Root} |-> IF c = Root THEN SelfSigned ELSE r[c]]
        /\ Layout
        /\ start \in PresentCAs
        /\ anchors = FindIssuersForCACert(start)
        /\ found = {}

\* Mutant: the search collects the Certificate it starts from, and takes up all it has found.
LevelWithStart ==
    /\ anchors # {}
    /\ found' = found \cup {start} \cup UNION {Listed(a) : a \in anchors}
    /\ anchors' = UNION {FindIssuersForCACert(c) : c \in (found' \cap CAs)}
    /\ UNCHANGED <<ref, start>>

(* One level of discoverDownstreamBFS. *)
NextLevel ==
    LET level == UNION {Listed(a) : a \in anchors}
    IN  /\ anchors # {}
        /\ found' = found \cup level
        /\ anchors' = UNION {FindIssuersForCACert(c) : c \in (level \cap CAs)}
        /\ UNCHANGED <<ref, start>>

Next == NextLevel
Spec == Init /\ [][Next]_vars /\ WF_vars(NextLevel)

---------------------------------------------------------------------------
(* The discoveries that do not recurse. *)

(* The root's ClusterIssuers: discoverIntermediates takes the first one it lists. *)
RootIssuers == {i \in Issuers : i.kind = ClusterIssuer /\ i.secret = SecretName[Root]}
Intermediates(first) == Listed(first) \cap CAs

ClusterIssuersOf(S) == {i \in Issuers : i.kind = ClusterIssuer /\ \E c \in S : i.secret = SecretName[c]}
IssuedBy(S) == UNION {Listed(i) : i \in ClusterIssuersOf(S)}
\* Mutant: isCA is not asked for.
AllIssuedBy(tier1) == IssuedBy(tier1)
NamespaceIntermediates(tier1) == IssuedBy(tier1) \cap CAs

LeafCerts(tier1, tier2) ==
    {l \in Present \cap Leaves : l \in IssuedBy(tier1) \/ \E c \in tier2 : Namespace[c] = Namespace[l]}

\* Mutant: the namespace the issuer takes its Secret from is not compared.
AnchorsOfTheName(S, c) == S
AnchorsResolvingToSecret(S, c) == {i \in S :
    Namespace[c] = IF i.kind = Issuer THEN i.ns ELSE Namespace[Root]}

(* The Certificates sweepStaleDirectChildren compares with c's key. *)
DirectChildren(c) ==
    UNION {Listed(a) : a \in AnchorsResolvingToSecret(FindIssuersForCACert(c), c)}

(* The Certificates pendingDownstreamCerts compares with the key of the start. *)
\* Mutant: everything below is held against the key.
JudgedAll == found
JudgedDirect == {c \in found : \E a \in FindIssuersForCACert(start) : ref[c].name = a.name}

---------------------------------------------------------------------------
(* Which names the layout repeats. *)

SecretsNamedApart == \A c, d \in PresentCAs : SecretName[c] = SecretName[d] => c = d
IssuersNamedApart ==
    \A c \in Present : \A a \in FindIssuersForCACert(start) :
        ref[c].name = a.name => ref[c].secret = SecretName[start]
Done == anchors = {}

(* A finished search has the Certificates of every CA it collected, whatever shares a
   name with whatever: discovery.go:38 "returns all Certificate objects below
   anchorIssuer at any chain depth". One it misses is never re-issued and keeps the old
   chain. *)
SearchReachesAll == Done => \A c \in {start} \cup (found \cap CAs) : Issued(c) \subseteq found

(* Where no two CAs share a Secret name the search keeps to the tree: a Certificate it
   collects outside of it would be re-issued, and waited for, in somebody else's
   rotation. *)
SearchKeepsToTree == SecretsNamedApart => found \subseteq Below(start)

(* ... and moves on: no level lists again what an earlier one collected, or the CA it began
   with. discovery.go:113 names the issuer that would bring it back. *)
SearchMovesOn ==
    SecretsNamedApart =>
        \A a \in anchors : Listed(a) \cap ({start} \cup found) = {}

(* ... so that it ends. *)
SearchEnds == SecretsNamedApart => <>Done

(* The sweep judges exactly the Certificates the CA signed, also where another CA's
   Secret has the same name: stale_sweep.go:86 "Judging a different CA's certificates
   against this SKID would re-issue them on every sweep". *)
SweepJudgesOwnChildren ==
    \A c \in PresentCAs : DirectChildren(c) = Issued(c)

(* A verification misses no direct child, and where no Certificate below names an issuer
   that only shares its name with one of the CA's it judges no other: intermediate.go:438,
   the AKID of an indirect descendant correctly differs. *)
VerificationJudgesChildren ==
    Done => /\ Issued(start) \subseteq JudgedDirect
            /\ SecretsNamedApart /\ IssuersNamedApart => JudgedDirect = Issued(start)

(* Every CA the root's cascade triggers and waits for is one ensureIntermediateCACRs
   gives a PKIRotation: the two find the tree by different searches, and the cascade
   below a tier-2 CA is its PKIRotation's work. *)
TiersHaveChildren ==
    start = Root /\ Done =>
        \A first \in RootIssuers :
            LET tier1 == Intermediates(first)
            IN  tier1 \cup NamespaceIntermediates(tier1) \subseteq found

(* Where CAs come from ClusterIssuers, the root's from one, and leaves from the
   ClusterIssuers of tier-1 CAs and the Issuers of the others, the tiers are the levels of
   the tree, and with their leaves they hold everything that has to follow a rotated root:
   the tiers Cluster takes. *)
Conventional ==
    /\ SecretsNamedApart /\ Cardinality(RootIssuers) = 1
    /\ \A c \in Present \cap CAs : ref[c].kind = ClusterIssuer
    /\ \A l \in Present \cap Leaves : ref[l] = SelfSigned \/
          (ref[l].kind = ClusterIssuer <=> \E c \in Issued(Root) \cap CAs : Resolves(ref[l], c))
TiersAreLevels ==
    Conventional =>
        \A first \in RootIssuers :
            LET tier1 == Intermediates(first)
                tier2 == NamespaceIntermediates(tier1)
            IN  /\ tier1 = Issued(Root) \cap CAs
                /\ tier2 = (UNION {Issued(c) : c \in tier1}) \cap CAs
                /\ \A c \in tier1 \cup tier2 : Issued(c) \cap Leaves \subseteq LeafCerts(tier1, tier2)

(* discovery.go:113 "excluded to prevent infinite recursion": the search ends in every
   layout. *)
SearchAlwaysEnds == <>Done

(* intermediate.go:438 "The AKID check is scoped to direct children": no other
   Certificate below the CA is judged. *)
OnlyDirectChildrenJudged == JudgedDirect \subseteq Issued(start)
=============================================================================
