-------------------------- MODULE DiscoveryProofs --------------------------
(***************************************************************************)
(* What the discoveries find, for every layout of issuers and Secrets.     *)
(*                                                                         *)
(* The layout never changes (Fixed). Two facts about names carry the       *)
(* proofs: an issuerRef determines the issuer (OneIssuer), and the issuer  *)
(* a CA skips, its own signer, never signs with that CA's Secret           *)
(* (SignerFound). The search keeps the invariant that every issuer of a CA *)
(* it has collected is either exhausted or due on the next level           *)
(* (Frontier); when no level is left, only exhausted issuers remain.       *)
(***************************************************************************)
EXTENDS Discovery, Levels

Fixed ==
    /\ ref \in [Certs \cup {Root} -> Issuers \cup {SelfSigned, Absent}]
    /\ ref[Root] = SelfSigned
    /\ \A c \in Certs : ref[c].kind = Issuer => ref[c].ns = Namespace[c]
    /\ \A c \in CAs : ref[c] # SelfSigned /\ c \notin Issued(c)
    /\ start \in PresentCAs

Frontier ==
    \A c \in {start} \cup (found \cap CAs) : \A i \in FindIssuersForCACert(c) :
        Listed(i) \subseteq found \/ i \in anchors

IInv == Fixed /\ found \subseteq Present /\ Frontier

(* No issuer with spec.ca is the self-signed one, and no CA's Secret has its name. *)
LEMMA NotSelfSigned ==
    /\ SelfSigned.secret = ""
    /\ \A i \in Issuers : i # SelfSigned
    /\ \A c \in Signers : SecretName[c] # SelfSigned.secret
<1>1. SelfSigned.secret = ""
  BY DEF SelfSigned
<1> QED
  BY <1>1, DiscoveryAssumption

(* A Certificate is listed for one issuer only: its own. *)
LEMMA OneIssuer ==
    ASSUME Fixed, NEW i \in Issuers, NEW c \in Listed(i)
    PROVE  ref[c] = i
<1>1. c \in Certs /\ ref[c] \in Issuers \cup {SelfSigned}
  BY DEF Listed, Present, Fixed
<1>2. ref[c].kind = i.kind /\ ref[c].name = i.name /\ (i.kind = Issuer => ref[c].ns = i.ns)
  BY <1>1 DEF Listed, Fixed
<1> QED
  BY <1>1, <1>2, DiscoveryAssumption

(* A Certificate that is present is listed for the issuer it names. *)
LEMMA ListedForItsIssuer ==
    ASSUME Fixed, NEW c \in Present
    PROVE  c \in Listed(ref[c])
BY DEF Listed, Fixed, Present

(* The issuer of a Certificate is among those found for the CA whose Secret it resolves:
   the skipped one, the CA's own signer, is another. *)
LEMMA SignerFound ==
    ASSUME Fixed, NEW p \in PresentCAs, NEW c \in Issued(p)
    PROVE  ref[c] \in FindIssuersForCACert(p)
<1> DEFINE i == ref[c]
<1>1. c \in Present /\ c \in Certs /\ i.secret = SecretName[p] /\ p \in Signers
  BY DEF Issued, Resolves, Present, PresentCAs, Signers
<1>2. i \in Issuers
  <2>1. i \in Issuers \cup {SelfSigned}
    BY <1>1 DEF Present, Fixed
  <2>2. i # SelfSigned
    BY <1>1, NotSelfSigned
  <2> QED
    BY <2>1, <2>2
<1>3. SUFFICES ASSUME i.name = ref[p].name, i.kind = ref[p].kind,
                      i.kind = Issuer => i.ns = Namespace[p]
               PROVE  FALSE
  BY <1>1, <1>2 DEF FindIssuersForCACert
<1>4. CASE p = Root
  <2>1. ref[p] = SelfSigned
    BY <1>4 DEF Fixed
  <2>2. i = SelfSigned
    BY <1>2, <1>3, <2>1, DiscoveryAssumption DEF SelfSigned, Issuer, ClusterIssuer
  <2> QED
    BY <1>2, <2>2, NotSelfSigned
<1>5. CASE p # Root
  <2>1. p \in Present /\ p \in CAs /\ p \in Certs
    BY <1>5 DEF PresentCAs, Present, Certs
  <2>2. ref[p] \in Issuers
    BY <2>1 DEF Present, Fixed
  <2>3. ref[p] = i
    BY <1>2, <1>3, <2>1, <2>2, DiscoveryAssumption DEF Fixed
  <2>4. p \in Issued(p)
    BY <2>1, <2>3 DEF Issued
  <2> QED
    BY <2>1, <2>4 DEF Fixed
<1> QED
  BY <1>4, <1>5

---------------------------------------------------------------------------
(* Init establishes the invariant, a level of the search keeps it. *)

LEMMA InitIInv == Init => IInv
<1> SUFFICES ASSUME Init PROVE IInv
  OBVIOUS
<1>1. PICK r \in [Certs -> Issuers \cup {SelfSigned, Absent}] :
         ref = [c \in Certs \cup {Root} |-> IF c = Root THEN SelfSigned ELSE r[c]]
  BY DEF Init
<1>2. ref \in [Certs \cup {Root} -> Issuers \cup {SelfSigned, Absent}] /\ ref[Root] = SelfSigned
  BY <1>1
<1>3. Fixed
  BY <1>2 DEF Init, Layout, Fixed
<1> QED
  BY <1>3 DEF IInv, Frontier, Init

LEMMA NextIInv == IInv /\ [Next]_vars => IInv'
<1> SUFFICES ASSUME IInv, [Next]_vars PROVE IInv'
  OBVIOUS
<1>1. CASE NextLevel
  <2> DEFINE level == UNION {Listed(a) : a \in anchors}
  <2>1. /\ ref' = ref /\ start' = start
        /\ found' = found \cup level
        /\ anchors' = UNION {FindIssuersForCACert(c) : c \in (level \cap CAs)}
    BY <1>1 DEF NextLevel
  <2>2. Fixed'
    BY <2>1 DEF IInv, Fixed, PresentCAs, Present, Issued, Resolves
  <2>3. Present' = Present /\ \A i : Listed(i)' = Listed(i)
    BY <2>1 DEF Present, Listed
  <2>4. \A c : FindIssuersForCACert(c)' = FindIssuersForCACert(c)
    BY <2>1 DEF FindIssuersForCACert
  <2>5. (found \subseteq Present)'
    BY <2>1, <2>3 DEF IInv, Listed
  <2>6. ASSUME NEW c \in {start} \cup (found' \cap CAs), NEW i \in FindIssuersForCACert(c)
        PROVE  Listed(i) \subseteq found' \/ i \in anchors'
    <3>1. CASE c \in {start} \cup (found \cap CAs)
      BY <2>1, <2>6, <3>1 DEF IInv, Frontier
    <3>2. CASE c \in level \cap CAs
      BY <2>1, <2>6, <3>2
    <3> QED
      BY <2>1, <3>1, <3>2
  <2>7. Frontier'
    BY <2>1, <2>3, <2>4, <2>6 DEF Frontier
  <2> QED
    BY <2>2, <2>5, <2>7 DEF IInv
<1>2. CASE UNCHANGED vars
  BY <1>2 DEF vars, IInv, Fixed, Frontier, PresentCAs, Present, Issued, Resolves,
              Listed, FindIssuersForCACert
<1> QED
  BY <1>1, <1>2 DEF Next

LEMMA Invariance == Spec => []IInv
BY InitIInv, NextIInv, PTL DEF Spec

(* The CAs whose issuers the search has taken up are CAs that are there. *)
LEMMA CollectedPresent ==
    ASSUME IInv, NEW c \in {start} \cup (found \cap CAs)
    PROVE  c \in PresentCAs
BY DEF IInv, Fixed, PresentCAs

(* When the search is over, the issuers of every CA it collected are exhausted. *)
LEMMA Exhausted ==
    ASSUME IInv, Done, NEW c \in {start} \cup (found \cap CAs),
           NEW i \in FindIssuersForCACert(c)
    PROVE  Listed(i) \subseteq found
BY DEF IInv, Frontier, Done

---------------------------------------------------------------------------

(* A finished search has collected the Certificates of every CA it collected, in every
   layout, whichever Secrets and issuers share a name (discoverDownstreamBFS). *)
THEOREM SearchComplete == Spec => []SearchReachesAll
<1>1. IInv => SearchReachesAll
  <2> SUFFICES ASSUME IInv, Done, NEW c \in {start} \cup (found \cap CAs), NEW d \in Issued(c)
               PROVE  d \in found
    BY DEF SearchReachesAll
  <2>1. c \in PresentCAs
    BY CollectedPresent
  <2>2. ref[d] \in FindIssuersForCACert(c)
    BY <2>1, SignerFound DEF IInv
  <2>3. d \in Listed(ref[d])
    BY ListedForItsIssuer DEF IInv, Issued
  <2> QED
    BY <2>2, <2>3, Exhausted
<1> QED
  BY <1>1, Invariance, PTL

(* The sweep judges exactly the Certificates the CA signed, in every layout
   (anchorsResolvingToSecret, directChildren). *)
THEOREM SweepExact == Spec => []SweepJudgesOwnChildren
<1>1. IInv => SweepJudgesOwnChildren
  <2> SUFFICES ASSUME IInv, NEW p \in PresentCAs
               PROVE  DirectChildren(p) = Issued(p)
    BY DEF SweepJudgesOwnChildren
  <2>1. ASSUME NEW c \in DirectChildren(p)
        PROVE  c \in Issued(p)
    <3>1. PICK a \in AnchorsResolvingToSecret(FindIssuersForCACert(p), p) : c \in Listed(a)
      BY <2>1 DEF DirectChildren
    <3>2. a \in Issuers /\ a.secret = SecretName[p]
          /\ Namespace[p] = IF a.kind = Issuer THEN a.ns ELSE Namespace[Root]
      BY DEF AnchorsResolvingToSecret, FindIssuersForCACert
    <3>3. ref[c] = a
      BY <3>1, <3>2, OneIssuer DEF IInv
    <3> QED
      BY <3>1, <3>2, <3>3 DEF Issued, Resolves, Listed
  <2>2. ASSUME NEW c \in Issued(p)
        PROVE  c \in DirectChildren(p)
    <3>1. ref[c] \in FindIssuersForCACert(p)
      BY <2>2, SignerFound DEF IInv
    <3>2. ref[c] \in AnchorsResolvingToSecret(FindIssuersForCACert(p), p)
      BY <2>2, <3>1 DEF AnchorsResolvingToSecret, Issued, Resolves
    <3>3. c \in Listed(ref[c])
      BY <2>2, ListedForItsIssuer DEF IInv, Issued
    <3> QED
      BY <3>2, <3>3 DEF DirectChildren
  <2> QED
    BY <2>1, <2>2
<1> QED
  BY <1>1, Invariance, PTL

(* Every CA the root's cascade triggers and waits for is one the search finds, and so has
   a child PKIRotation (discoverIntermediates and discoverNamespaceIntermediates against
   ensureIntermediateCACRs). *)
THEOREM TiersCovered == Spec => []TiersHaveChildren
<1>1. IInv => TiersHaveChildren
  <2> SUFFICES ASSUME IInv, start = Root, Done, NEW first \in RootIssuers
               PROVE  /\ Intermediates(first) \subseteq found
                      /\ NamespaceIntermediates(Intermediates(first)) \subseteq found
    BY DEF TiersHaveChildren
  <2>1. first \in Issuers /\ first.kind = ClusterIssuer /\ first.secret = SecretName[Root]
    BY DEF RootIssuers
  <2>2. first \in FindIssuersForCACert(Root)
    <3>1. first # SelfSigned
      BY <2>1, NotSelfSigned
    <3>2. ref[Root] = SelfSigned
      BY DEF IInv, Fixed
    <3>3. ~(first.name = SelfSigned.name /\ first.kind = SelfSigned.kind)
      BY <2>1, <3>1, DiscoveryAssumption DEF Issuer, ClusterIssuer
    <3> QED
      BY <2>1, <3>2, <3>3 DEF FindIssuersForCACert
  <2>3. Listed(first) \subseteq found
    BY <2>2, Exhausted
  <2>4. ASSUME NEW c \in NamespaceIntermediates(Intermediates(first))
        PROVE  c \in found
    <3>1. PICK i \in ClusterIssuersOf(Intermediates(first)) : c \in Listed(i)
      BY <2>4 DEF NamespaceIntermediates, IssuedBy
    <3>2. PICK t \in Intermediates(first) : i.secret = SecretName[t]
      BY DEF ClusterIssuersOf
    <3>3. i \in Issuers /\ i.kind = ClusterIssuer
      BY DEF ClusterIssuersOf
    <3>4. t \in found \cap CAs /\ ref[t] = first
      BY <2>1, <2>3, <3>2, OneIssuer DEF Intermediates, IInv
    <3>5. CASE i = first
      BY <2>3, <3>1, <3>5
    <3>6. CASE i # first
      <4>1. ~(i.name = ref[t].name /\ i.kind = ref[t].kind)
        BY <2>1, <3>3, <3>4, <3>6, DiscoveryAssumption DEF Issuer, ClusterIssuer
      <4>2. i \in FindIssuersForCACert(t)
        BY <3>2, <3>3, <4>1 DEF FindIssuersForCACert
      <4> QED
        BY <3>1, <3>4, <4>2, Exhausted
    <3> QED
      BY <3>5, <3>6
  <2> QED
    BY <2>3, <2>4 DEF Intermediates
<1> QED
  BY <1>1, Invariance, PTL

---------------------------------------------------------------------------
(* The types. *)

(* The search follows issuers and collects Certificates. *)
THEOREM DiscoveryTypes == Spec => []TypeOK
<1>1. Init => TypeOK
  <2> SUFFICES ASSUME Init PROVE TypeOK
    OBVIOUS
  <2>1. IInv /\ start \in Signers
    BY InitIInv DEF Init, PresentCAs, Signers
  <2> QED
    BY <2>1 DEF IInv, Fixed, TypeOK, Init, FindIssuersForCACert
<1>2. TypeOK /\ [Next]_vars => TypeOK'
  <2> SUFFICES ASSUME TypeOK, [Next]_vars PROVE TypeOK'
    OBVIOUS
  <2>1. CASE NextLevel
    <3>1. \A a : Listed(a) \subseteq Certs
      BY DEF Listed, Present
    <3>2. \A c : FindIssuersForCACert(c) \subseteq Issuers
      BY DEF FindIssuersForCACert
    <3>3. found' \subseteq Certs /\ anchors' \subseteq Issuers
      BY <2>1, <3>1, <3>2 DEF NextLevel, TypeOK
    <3> QED
      BY <2>1, <3>3 DEF NextLevel, TypeOK
  <2>2. CASE UNCHANGED vars
    BY <2>2 DEF vars, TypeOK
  <2> QED
    BY <2>1, <2>2 DEF Next
<1> QED
  BY <1>1, <1>2, PTL DEF Spec

---------------------------------------------------------------------------
(* The tree cert-manager builds. Below is the union of its first levels; since there are
   no more levels than CAs, it is all of them. *)

LEMMA FiniteCAs == IsFiniteSet(CAs)
BY FiniteAssumption, FS_Subset DEF Certs

(* The levels under p, as a function with its equations. *)
LEMMA BelowLevels ==
    ASSUME NEW p
    PROVE  \E level \in [Nat -> SUBSET Certs] :
              /\ level[0] = Issued(p)
              /\ \A n \in Nat : level[n + 1] = UNION {Issued(c) : c \in level[n] \cap CAs}
              /\ Below(p) = UNION {level[n] : n \in 0 .. Cardinality(CAs)}
<1> DEFINE T == SUBSET Certs
           step == [S \in T |-> UNION {Issued(c) : c \in S \cap CAs}]
           Is(h) == h = [n \in Nat |-> IF n = 0 THEN Issued(p)
                                       ELSE UNION {Issued(c) : c \in h[n-1] \cap CAs}]
           f == CHOOSE h : Is(h)
<1>1. \A c : Issued(c) \in T
  BY DEF Issued, Present
<1>2. \A S \in T : UNION {Issued(c) : c \in S \cap CAs} \in T
  BY <1>1
<1>3. step \in [T -> T]
  BY <1>2
<1>4. PICK g \in [Nat -> T] : g[0] = Issued(p) /\ \A n \in Nat : g[n + 1] = step[g[n]]
  <2> HIDE DEF step, T
  <2> QED
    BY <1>1, <1>3, IterationExists
<1>5. Is(g)
  <2>1. ASSUME NEW n \in Nat
        PROVE  g[n] = IF n = 0 THEN Issued(p) ELSE UNION {Issued(c) : c \in g[n-1] \cap CAs}
    <3>1. CASE n = 0
      BY <1>4, <3>1
    <3>2. CASE n # 0
      <4>1. n - 1 \in Nat /\ (n - 1) + 1 = n
        BY <3>2
      <4>2. g[n] = step[g[n-1]] /\ g[n-1] \in T
        BY <1>4, <4>1
      <4> QED
        BY <3>2, <4>2
    <3> QED
      BY <3>1, <3>2
  <2> QED
    BY <1>4, <2>1
<1>6. Is(f)
  BY <1>5
<1>7. Below(p) = UNION {f[n] : n \in 0 .. Cardinality(CAs)}
  BY DEF Below
<1> HIDE DEF f
<1>8. f[0] = Issued(p)
  BY <1>6
<1>9. ASSUME NEW n \in Nat
      PROVE  f[n + 1] = UNION {Issued(c) : c \in f[n] \cap CAs}
  <2>1. n + 1 \in Nat /\ n + 1 # 0 /\ (n + 1) - 1 = n
    OBVIOUS
  <2> QED
    BY <1>6, <2>1
<1>10. f \in [Nat -> T]
  <2>1. \A n \in Nat : (IF n = 0 THEN Issued(p)
                        ELSE UNION {Issued(c) : c \in f[n-1] \cap CAs}) \in T
    BY <1>1
  <2> QED
    BY <1>6, <2>1
<1> QED
  BY <1>7, <1>8, <1>9, <1>10

(* What p issues is below it, and so is what a CA below it issues. *)
LEMMA BelowClosed ==
    ASSUME NEW p
    PROVE  /\ Issued(p) \subseteq Below(p)
           /\ \A c \in Below(p) \cap CAs : Issued(c) \subseteq Below(p)
<1>1. PICK level \in [Nat -> SUBSET Certs] :
         /\ level[0] = Issued(p)
         /\ \A n \in Nat : level[n + 1] = UNION {Issued(c) : c \in level[n] \cap CAs}
         /\ Below(p) = UNION {level[n] : n \in 0 .. Cardinality(CAs)}
  BY BelowLevels
<1>2. Cardinality(CAs) \in Nat
  BY FiniteCAs, FS_CardinalityType
<1>3. Issued(p) \subseteq Below(p)
  BY <1>1, <1>2
<1>4. ASSUME NEW c \in Below(p) \cap CAs, NEW d \in Issued(c)
      PROVE  d \in Below(p)
  <2> DEFINE next == [x \in CAs |-> Issued(x)]
  <2>1. PICK k \in 0 .. Cardinality(CAs) : c \in level[k]
    BY <1>1
  <2>2. \A n \in Nat : level[n + 1] = UNION {next[x] : x \in level[n] \cap CAs}
    BY <1>1
  <2>3. d \in next[c]
    BY <1>4
  <2> HIDE DEF next
  <2>4. \E n \in 0 .. Cardinality(CAs) : d \in level[n]
    BY <2>1, <2>2, <2>3, FiniteCAs, LevelsClosed
  <2> QED
    BY <1>1, <2>4
<1> QED
  BY <1>3, <1>4

(* Whatever is below p was issued by p or by a CA that is there. *)
LEMMA BelowIssued ==
    ASSUME NEW p \in PresentCAs, NEW c \in Below(p)
    PROVE  \E q \in PresentCAs : c \in Issued(q)
<1>1. PICK level \in [Nat -> SUBSET Certs] :
         /\ level[0] = Issued(p)
         /\ \A n \in Nat : level[n + 1] = UNION {Issued(x) : x \in level[n] \cap CAs}
         /\ Below(p) = UNION {level[n] : n \in 0 .. Cardinality(CAs)}
  BY BelowLevels
<1>2. PICK n \in 0 .. Cardinality(CAs) : c \in level[n]
  BY <1>1
<1>3. CASE n = 0
  BY <1>1, <1>2, <1>3
<1>4. CASE n # 0
  <2>1. n - 1 \in Nat /\ (n - 1) + 1 = n
    BY <1>4, FiniteCAs, FS_CardinalityType
  <2>2. PICK q \in level[n-1] \cap CAs : c \in Issued(q)
    BY <1>1, <1>2, <2>1
  <2>3. q \in Present
    <3>1. CASE n - 1 = 0
      BY <1>1, <2>2, <3>1 DEF Issued
    <3>2. CASE n - 1 # 0
      <4>1. (n - 1) - 1 \in Nat /\ ((n - 1) - 1) + 1 = n - 1
        BY <2>1, <3>2
      <4>2. PICK x \in level[(n - 1) - 1] \cap CAs : q \in Issued(x)
        BY <1>1, <2>2, <4>1
      <4> QED
        BY <4>2 DEF Issued
    <3> QED
      BY <3>1, <3>2
  <2> QED
    BY <2>2, <2>3 DEF PresentCAs
<1> QED
  BY <1>3, <1>4

(* In the layouts considered, whoever names an issuer with spec.ca was issued by a CA. *)
LEMMA HasSigner ==
    ASSUME Fixed, Layout, NEW c \in Present, NEW i \in Issuers, ref[c] = i
    PROVE  \E q \in PresentCAs : c \in Issued(q)
<1>1. c \in Below(Root)
  BY NotSelfSigned DEF Layout
<1>2. Root \in PresentCAs
  BY DEF PresentCAs
<1> QED
  BY <1>1, <1>2, BelowIssued

(* ... and where no two CAs share a Secret name, by the one whose Secret the issuer names. *)
LEMMA SignerByName ==
    ASSUME Fixed, Layout, SecretsNamedApart, NEW p \in PresentCAs,
           NEW i \in Issuers, i.secret = SecretName[p], NEW c \in Listed(i)
    PROVE  c \in Issued(p)
<1>1. ref[c] = i /\ c \in Present
  BY OneIssuer DEF Listed
<1>2. PICK q \in PresentCAs : c \in Issued(q)
  BY <1>1, HasSigner
<1>3. SecretName[q] = SecretName[p]
  BY <1>1, <1>2 DEF Issued, Resolves
<1> QED
  BY <1>2, <1>3 DEF SecretsNamedApart

(* The search stays in the tree: what it has collected is below the start, and so is what
   the issuers of the next level will list. *)
InTree ==
    /\ found \subseteq Below(start)
    /\ \A a \in anchors : Listed(a) \subseteq Below(start)
TreeInv == IInv /\ Layout /\ (SecretsNamedApart => InTree)

(* The issuers taken from a CA in the tree lead to Certificates in the tree. *)
LEMMA LeadsIntoTree ==
    ASSUME IInv, Layout, SecretsNamedApart,
           NEW c \in PresentCAs, c = start \/ c \in Below(start) \cap CAs,
           NEW a \in FindIssuersForCACert(c), NEW d \in Listed(a)
    PROVE  d \in Below(start)
<1>1. a \in Issuers /\ a.secret = SecretName[c]
  BY DEF FindIssuersForCACert
<1>2. d \in Issued(c)
  BY <1>1, SignerByName DEF IInv
<1> QED
  BY <1>2, BelowClosed

LEMMA TreeInvNext == TreeInv /\ [Next]_vars => TreeInv'
<1> SUFFICES ASSUME TreeInv, [Next]_vars PROVE TreeInv'
  OBVIOUS
<1>0. ref' = ref /\ start' = start
  BY DEF Next, NextLevel, vars
<1>1. IInv'
  BY NextIInv DEF TreeInv
<1>2. /\ Layout' /\ (SecretsNamedApart' <=> SecretsNamedApart)
      /\ Below(start)' = Below(start) /\ \A a : Listed(a)' = Listed(a)
  BY <1>0 DEF TreeInv, Layout, SecretsNamedApart, PresentCAs, Below, Issued, Present, Resolves, Listed
<1>3. ASSUME SecretsNamedApart PROVE InTree'
  <2>0. IInv /\ Layout /\ InTree
    BY <1>3 DEF TreeInv
  <2>1. CASE NextLevel
    <3> DEFINE level == UNION {Listed(a) : a \in anchors}
    <3>1. /\ found' = found \cup level
          /\ anchors' = UNION {FindIssuersForCACert(c) : c \in level \cap CAs}
      BY <2>1 DEF NextLevel
    <3>2. level \subseteq Below(start) /\ level \subseteq Present
      BY <2>0 DEF InTree, Listed
    <3>3. ASSUME NEW a \in anchors' PROVE Listed(a) \subseteq Below(start)
      <4>1. PICK c \in level \cap CAs : a \in FindIssuersForCACert(c)
        BY <3>1, <3>3
      <4>2. c \in PresentCAs /\ c \in Below(start) \cap CAs
        BY <3>2 DEF PresentCAs
      <4> QED
        BY <1>3, <2>0, <4>1, <4>2, LeadsIntoTree
    <3> QED
      BY <1>2, <2>0, <3>1, <3>2, <3>3 DEF InTree
  <2>2. CASE UNCHANGED vars
    BY <1>2, <2>0, <2>2 DEF InTree, vars
  <2> QED
    BY <2>1, <2>2 DEF Next
<1> QED
  BY <1>1, <1>2, <1>3 DEF TreeInv

LEMMA TreeInvariance == Spec => []TreeInv
<1>1. Init => TreeInv
  <2> SUFFICES ASSUME Init PROVE TreeInv
    OBVIOUS
  <2>1. IInv /\ Layout /\ start \in PresentCAs /\ found = {} /\ anchors = FindIssuersForCACert(start)
    BY InitIInv DEF Init
  <2>2. SecretsNamedApart => InTree
    BY <2>1, LeadsIntoTree DEF InTree
  <2> QED
    BY <2>1, <2>2 DEF TreeInv
<1> QED
  BY <1>1, TreeInvNext, PTL DEF Spec

(* Where no two CAs share a Secret name, the search collects nothing outside the tree
   below its start, at any depth (discoverDownstreamBFS). *)
THEOREM SearchStaysBelow == Spec => []SearchKeepsToTree
<1>1. TreeInv => SearchKeepsToTree
  BY DEF TreeInv, InTree, SearchKeepsToTree
<1> QED
  BY <1>1, TreeInvariance, PTL

(* A verification holds every direct child against the CA's key, and, where the names of
   the issuers leave no doubt, no other Certificate (pendingDownstreamCerts). *)
THEOREM DirectChildrenJudged == Spec => []VerificationJudgesChildren
<1>1. TreeInv => VerificationJudgesChildren
  <2> SUFFICES ASSUME TreeInv, Done
               PROVE  /\ Issued(start) \subseteq JudgedDirect
                      /\ SecretsNamedApart /\ IssuersNamedApart => JudgedDirect \subseteq Issued(start)
    BY DEF VerificationJudgesChildren
  <2>0. IInv /\ Fixed /\ Layout /\ start \in PresentCAs
    BY DEF TreeInv, IInv, Fixed
  <2>1. ASSUME NEW c \in Issued(start) PROVE c \in JudgedDirect
    <3>1. ref[c] \in FindIssuersForCACert(start)
      BY <2>0, SignerFound
    <3>2. c \in Listed(ref[c])
      BY <2>0, ListedForItsIssuer DEF Issued
    <3>3. c \in found
      BY <2>0, <3>1, <3>2, Exhausted
    <3> QED
      BY <3>1, <3>3 DEF JudgedDirect
  <2>2. ASSUME SecretsNamedApart, IssuersNamedApart, NEW c \in JudgedDirect
        PROVE  c \in Issued(start)
    <3>1. c \in found /\ c \in Present
      BY <2>0 DEF JudgedDirect, IInv
    <3>2. ref[c].secret = SecretName[start]
      BY <2>2, <3>1 DEF JudgedDirect, IssuersNamedApart
    <3>3. ref[c] \in Issuers
      <4>1. ref[c] \in Issuers \cup {SelfSigned}
        BY <2>0, <3>1 DEF Fixed, Present
      <4>2. ref[c] # SelfSigned
        BY <2>0, <3>2, NotSelfSigned DEF PresentCAs, Signers
      <4> QED
        BY <4>1, <4>2
    <3>4. c \in Listed(ref[c])
      BY <2>0, <3>1, ListedForItsIssuer
    <3> QED
      BY <2>0, <2>2, <3>2, <3>3, <3>4, SignerByName
  <2> QED
    BY <2>1, <2>2
<1> QED
  BY <1>1, TreeInvariance, PTL

(* Under the conventions the chart follows, the tiers the root's cascade collects by its
   own lookups are the levels of the tree, and their leaves all that lies below them
   (discoverIntermediates, discoverNamespaceIntermediates, discoverLeafCerts). *)
THEOREM TiersOfTheTree == Spec => []TiersAreLevels
<1>1. TreeInv => TiersAreLevels
  <2> SUFFICES ASSUME TreeInv, Conventional, NEW first \in RootIssuers
               PROVE  LET tier1 == Intermediates(first)
                          tier2 == NamespaceIntermediates(tier1)
                      IN  /\ tier1 = Issued(Root) \cap CAs
                          /\ tier2 = (UNION {Issued(c) : c \in tier1}) \cap CAs
                          /\ \A c \in tier1 \cup tier2 :
                                Issued(c) \cap Leaves \subseteq LeafCerts(tier1, tier2)
    BY DEF TiersAreLevels
  <2> DEFINE tier1 == Intermediates(first)
             tier2 == NamespaceIntermediates(tier1)
  <2>0. Fixed /\ Layout /\ SecretsNamedApart /\ Root \in PresentCAs
    BY DEF TreeInv, IInv, Conventional, PresentCAs
  <2>1. RootIssuers = {first}
    <3>1. IsFiniteSet(RootIssuers) /\ Cardinality(RootIssuers) = 1
      BY FiniteAssumption, FS_Subset DEF RootIssuers, Conventional
    <3>2. \E x : RootIssuers = {x}
      BY <3>1, FS_Singleton
    <3> QED
      BY <3>2
  <2>2. first \in Issuers /\ first.kind = ClusterIssuer /\ first.secret = SecretName[Root]
    BY DEF RootIssuers
  <2>3. tier1 = Issued(Root) \cap CAs
    <3>1. Listed(first) \subseteq Issued(Root)
      BY <2>0, <2>2, SignerByName
    <3>2. ASSUME NEW c \in Issued(Root) \cap CAs PROVE c \in Listed(first)
      <4>1. c \in Present /\ ref[c] \in FindIssuersForCACert(Root)
        BY <2>0, SignerFound DEF Issued
      <4>2. ref[c] \in RootIssuers
        BY <4>1 DEF Conventional, RootIssuers, FindIssuersForCACert
      <4> QED
        BY <2>0, <2>1, <4>1, <4>2, ListedForItsIssuer
    <3> QED
      BY <3>1, <3>2 DEF Intermediates
  <2>4. tier1 \subseteq PresentCAs
    BY <2>3 DEF Issued, PresentCAs
  <2> HIDE DEF tier1
  <2>5. ASSUME NEW c \in tier1, NEW d \in Issued(c), ref[d].kind = ClusterIssuer
        PROVE  d \in IssuedBy(tier1)
    <3>1. ref[d] \in FindIssuersForCACert(c)
      BY <2>0, <2>4, SignerFound
    <3>2. ref[d] \in ClusterIssuersOf(tier1)
      BY <2>5, <3>1 DEF ClusterIssuersOf, FindIssuersForCACert
    <3> QED
      BY <2>0, <3>2, ListedForItsIssuer DEF IssuedBy, Issued
  <2>6. ASSUME NEW d \in IssuedBy(tier1) PROVE \E c \in tier1 : d \in Issued(c)
    <3>1. PICK i \in ClusterIssuersOf(tier1) : d \in Listed(i)
      BY <2>6 DEF IssuedBy
    <3>2. PICK c \in tier1 : i.secret = SecretName[c]
      BY DEF ClusterIssuersOf
    <3>3. i \in Issuers
      BY DEF ClusterIssuersOf
    <3> QED
      BY <2>0, <2>4, <3>1, <3>2, <3>3, SignerByName
  <2>7. tier2 = (UNION {Issued(c) : c \in tier1}) \cap CAs
    <3>1. \A c \in tier1 : \A d \in Issued(c) \cap CAs : ref[d].kind = ClusterIssuer
      BY DEF Conventional, Issued
    <3> QED
      BY <2>5, <2>6, <3>1 DEF NamespaceIntermediates
  <2>8. ASSUME NEW c \in tier1 \cup tier2, NEW l \in Issued(c) \cap Leaves
        PROVE  l \in LeafCerts(tier1, tier2)
    <3>1. l \in Present /\ l \in Leaves /\ c \in PresentCAs
      BY <2>4, <2>7 DEF Issued, PresentCAs
    <3>2. ref[l] \in FindIssuersForCACert(c) /\ ref[l] # SelfSigned
      BY <2>0, <3>1, SignerFound, NotSelfSigned DEF FindIssuersForCACert
    <3>3. ref[l].kind = ClusterIssuer <=> \E t \in tier1 : Resolves(ref[l], t)
      BY <2>3, <3>1, <3>2 DEF Conventional
    <3>4. CASE ref[l].kind = ClusterIssuer
      <4>1. PICK t \in tier1 : Resolves(ref[l], t)
        BY <3>3, <3>4
      <4>2. l \in Issued(t)
        BY <3>1, <4>1 DEF Issued
      <4> QED
        BY <2>5, <3>1, <3>4, <4>2 DEF LeafCerts
    <3>5. CASE ref[l].kind # ClusterIssuer
      <4>1. Resolves(ref[l], c) /\ ref[l].kind = Issuer
        BY <3>2, <3>5, DiscoveryAssumption DEF Issued, FindIssuersForCACert
      <4>2. c \in tier2
        BY <2>8, <3>3, <3>5, <4>1
      <4>3. Namespace[c] = Namespace[l]
        BY <2>0, <3>1, <4>1 DEF Resolves, Fixed, Certs
      <4> QED
        BY <3>1, <4>2, <4>3 DEF LeafCerts
    <3> QED
      BY <3>4, <3>5
  <2> QED
    BY <2>3, <2>7, <2>8 DEF tier1
<1> QED
  BY <1>1, TreeInvariance, PTL

---------------------------------------------------------------------------
(* The search moves on. *)

(* Where no two CAs share a Secret name, a Certificate is issued by one CA. *)
LEMMA OneSigner ==
    ASSUME SecretsNamedApart, NEW p \in PresentCAs, NEW q \in PresentCAs,
           NEW c \in Issued(p), c \in Issued(q)
    PROVE  p = q
BY DEF SecretsNamedApart, Issued, Resolves

(* ... and so has one distance from the root. *)
Distances(dist) ==
    /\ dist \in [Certs \cup {Root} -> Nat]
    /\ \A p \in PresentCAs : \A c \in Issued(p) : dist[c] = dist[p] + 1

LEMMA DistancesExist ==
    ASSUME Layout, SecretsNamedApart PROVE \E dist : Distances(dist)
<1>1. PICK level \in [Nat -> SUBSET Certs] :
         /\ level[0] = Issued(Root)
         /\ \A n \in Nat : level[n + 1] = UNION {Issued(x) : x \in level[n] \cap CAs}
         /\ Below(Root) = UNION {level[n] : n \in 0 .. Cardinality(CAs)}
  BY BelowLevels
<1>2. Root \in PresentCAs /\ Root \notin Certs /\ CAs \subseteq Certs
  BY DiscoveryAssumption DEF PresentCAs, Certs
<1>3. ASSUME NEW n \in Nat, n # 0, NEW c \in level[n]
      PROVE  n - 1 \in Nat /\ \E q \in level[n - 1] \cap CAs : c \in Issued(q)
  <2>1. n - 1 \in Nat /\ (n - 1) + 1 = n
    BY <1>3
  <2> QED
    BY <1>1, <1>3, <2>1
<1>4. ASSUME NEW n \in Nat, NEW c \in level[n] PROVE c \in Present
  BY <1>1, <1>3, <1>4 DEF Issued
<1>5. ASSUME NEW n \in Nat, NEW c \in level[n] \cap CAs PROVE c \in PresentCAs /\ c # Root
  BY <1>2, <1>4 DEF PresentCAs
<1>6. ASSUME NEW n \in Nat, n # 0, NEW c \in level[n] PROVE c \notin Issued(Root)
  <2>1. n - 1 \in Nat
    BY <1>6
  <2>2. PICK q \in level[n - 1] \cap CAs : c \in Issued(q)
    BY <1>3, <1>6
  <2> QED
    BY <1>2, <1>5, <2>1, <2>2, OneSigner
<1> DEFINE S == {i \in Nat : \A j \in Nat, c \in Certs : c \in level[i] /\ c \in level[j] => i = j}
<1>7. 0 \in S
  BY <1>1, <1>6
<1>8. ASSUME NEW i \in Nat, i \in S PROVE i + 1 \in S
  <2> SUFFICES ASSUME NEW j \in Nat, NEW c \in Certs, c \in level[i + 1], c \in level[j]
               PROVE  i + 1 = j
    OBVIOUS
  <2>1. PICK p \in level[i] \cap CAs : c \in Issued(p)
    BY <1>1
  <2>2. j # 0
    BY <1>1, <1>6
  <2>3. PICK q \in level[j - 1] \cap CAs : c \in Issued(q)
    BY <1>3, <2>2
  <2>4. j - 1 \in Nat
    BY <2>2
  <2>5. p = q
    BY <1>5, <2>1, <2>3, <2>4, OneSigner
  <2>6. p \in Certs /\ p \in level[i] /\ p \in level[j - 1]
    BY <1>2, <2>5
  <2>7. i = j - 1
    BY <1>8, <2>4, <2>6
  <2> QED
    BY <2>7
<1> HIDE DEF S
<1>9. Nat \subseteq S
  BY <1>7, <1>8, EveryNumber
<1>10. ASSUME NEW i \in Nat, NEW j \in Nat, NEW c \in Certs, c \in level[i], c \in level[j]
       PROVE  i = j
  BY <1>9, <1>10 DEF S
<1> DEFINE at(c) == IF \E n \in Nat : c \in level[n] THEN CHOOSE n \in Nat : c \in level[n] ELSE 0
           dist == [c \in Certs \cup {Root} |-> IF c = Root THEN 0 ELSE at(c) + 1]
<1>11. \A c : at(c) \in Nat
  OBVIOUS
<1>12. ASSUME NEW n \in Nat, NEW c \in level[n] PROVE at(c) = n
  <2>1. c \in Certs /\ c \in level[at(c)] /\ at(c) \in Nat
    BY <1>1, <1>12
  <2> HIDE DEF at
  <2> QED
    BY <1>10, <1>12, <2>1
<1>13. ASSUME NEW p \in PresentCAs, NEW c \in Issued(p) PROVE dist[c] = dist[p] + 1
  <2>1. c \in Certs /\ c # Root
    BY <1>2 DEF Issued, Present
  <2>2. CASE p = Root
    <3>1. at(c) = 0
      BY <1>1, <1>12, <1>13, <2>2
    <3> HIDE DEF at
    <3> QED
      BY <2>1, <2>2, <3>1
  <2>3. CASE p # Root
    <3>1. p \in Present \cap CAs /\ p \in Certs
      BY <1>2, <2>3 DEF PresentCAs
    <3>2. p \in Below(Root)
      BY <3>1, DiscoveryAssumption DEF Layout
    <3>3. PICK n \in 0 .. Cardinality(CAs) : p \in level[n]
      BY <1>1, <3>2
    <3>4. n \in Nat /\ c \in level[n + 1]
      BY <1>1, <1>13, <3>1, <3>3
    <3> HIDE DEF at
    <3>5. at(p) = n
      BY <1>12, <3>3, <3>4
    <3>6. at(c) = n + 1
      <4>1. n + 1 \in Nat
        BY <3>4
      <4> QED
        BY <1>12, <3>4, <4>1
    <3> QED
      BY <2>1, <2>3, <3>1, <3>4, <3>5, <3>6
  <2> QED
    BY <2>2, <2>3
<1>14. dist \in [Certs \cup {Root} -> Nat]
  <2> HIDE DEF at
  <2> QED
    BY <1>11
<1> HIDE DEF dist
<1> QED
  BY <1>13, <1>14 DEF Distances

(* The search is a breadth-first one: its issuers belong to CAs at one distance from the
   root, and what it has collected is no farther away. *)
ByDistance ==
    \E dist : \E k \in Nat :
        /\ Distances(dist)
        /\ \A c \in {start} \cup found : dist[c] <= k
        /\ \A a \in anchors :
              \E c \in PresentCAs : a \in FindIssuersForCACert(c) /\ dist[c] = k
DistanceInv == TreeInv /\ (SecretsNamedApart => ByDistance)

(* What an issuer of the next level lists is one step farther away. *)
LEMMA OneStepFarther ==
    ASSUME TreeInv, SecretsNamedApart, NEW dist, Distances(dist),
           NEW c \in PresentCAs, NEW a \in FindIssuersForCACert(c), NEW d \in Listed(a)
    PROVE  dist[d] = dist[c] + 1
<1>1. a \in Issuers /\ a.secret = SecretName[c]
  BY DEF FindIssuersForCACert
<1>2. d \in Issued(c)
  BY <1>1, SignerByName DEF TreeInv, IInv
<1> QED
  BY <1>2 DEF Distances

LEMMA DistanceInit == Init => DistanceInv
<1> SUFFICES ASSUME Init PROVE DistanceInv
  OBVIOUS
<1>1. IInv /\ Layout /\ start \in PresentCAs /\ found = {} /\ anchors = FindIssuersForCACert(start)
  BY InitIInv DEF Init
<1>2. TreeInv
  BY <1>1, LeadsIntoTree DEF TreeInv, InTree
<1>3. ASSUME SecretsNamedApart PROVE ByDistance
  <2>1. PICK dist : Distances(dist)
    BY <1>1, <1>3, DistancesExist
  <2>2. dist[start] \in Nat
    BY <1>1, <2>1 DEF Distances, PresentCAs, Certs
  <2> QED
    BY <1>1, <2>1, <2>2 DEF ByDistance
<1> QED
  BY <1>2, <1>3 DEF DistanceInv

LEMMA DistanceNext == DistanceInv /\ [Next]_vars => DistanceInv'
<1> SUFFICES ASSUME DistanceInv, [Next]_vars PROVE DistanceInv'
  OBVIOUS
<1>0. ref' = ref /\ start' = start
  BY DEF Next, NextLevel, vars
<1>1. TreeInv /\ TreeInv'
  BY TreeInvNext DEF DistanceInv
<1>2. /\ (SecretsNamedApart' <=> SecretsNamedApart) /\ PresentCAs' = PresentCAs
      /\ \A c : FindIssuersForCACert(c)' = FindIssuersForCACert(c)
      /\ \A dist : Distances(dist)' <=> Distances(dist)
  BY <1>0 DEF SecretsNamedApart, PresentCAs, Present, FindIssuersForCACert, Distances, Issued, Resolves
<1>3. ASSUME SecretsNamedApart PROVE ByDistance'
  <2>0. PICK dist : \E k \in Nat :
           /\ Distances(dist)
           /\ \A c \in {start} \cup found : dist[c] <= k
           /\ \A a \in anchors :
                 \E c \in PresentCAs : a \in FindIssuersForCACert(c) /\ dist[c] = k
    BY <1>3 DEF DistanceInv, ByDistance
  <2>1. PICK k \in Nat :
           /\ Distances(dist)
           /\ \A c \in {start} \cup found : dist[c] <= k
           /\ \A a \in anchors :
                 \E c \in PresentCAs : a \in FindIssuersForCACert(c) /\ dist[c] = k
    BY <2>0
  <2>2. CASE NextLevel
    <3> DEFINE level == UNION {Listed(a) : a \in anchors}
    <3>1. /\ found' = found \cup level
          /\ anchors' = UNION {FindIssuersForCACert(c) : c \in level \cap CAs}
      BY <2>2 DEF NextLevel
    <3>2. ASSUME NEW d \in level PROVE dist[d] = k + 1 /\ d \in Present
      <4>1. PICK a \in anchors : d \in Listed(a)
        OBVIOUS
      <4>2. PICK c \in PresentCAs : a \in FindIssuersForCACert(c) /\ dist[c] = k
        BY <2>1
      <4> QED
        BY <1>1, <1>3, <2>1, <4>1, <4>2, OneStepFarther DEF Listed
    <3>3. ASSUME NEW c \in {start} \cup found \cup level PROVE dist[c] <= k + 1
      <4>1. dist[c] \in Nat
        BY <1>1, <2>1, <3>2 DEF Distances, TreeInv, IInv, Fixed, PresentCAs, Present, Certs
      <4> QED
        BY <2>1, <3>2, <4>1
    <3>4. ASSUME NEW a \in anchors'
          PROVE  \E c \in PresentCAs : a \in FindIssuersForCACert(c) /\ dist[c] = k + 1
      <4>1. PICK c \in level \cap CAs : a \in FindIssuersForCACert(c)
        BY <3>1
      <4>2. c \in PresentCAs /\ dist[c] = k + 1
        BY <3>2 DEF PresentCAs
      <4> QED
        BY <4>1, <4>2
    <3>5. /\ k + 1 \in Nat /\ Distances(dist)'
          /\ \A c \in {start'} \cup found' : dist[c] <= k + 1
          /\ \A a \in anchors' :
                \E c \in PresentCAs' : a \in FindIssuersForCACert(c)' /\ dist[c] = k + 1
      BY <1>0, <1>2, <2>1, <3>1, <3>3, <3>4
    <3> QED
      BY <3>5 DEF ByDistance
  <2>3. CASE UNCHANGED vars
    <3>1. /\ Distances(dist)'
          /\ \A c \in {start'} \cup found' : dist[c] <= k
          /\ \A a \in anchors' :
                \E c \in PresentCAs' : a \in FindIssuersForCACert(c)' /\ dist[c] = k
      BY <1>2, <2>1, <2>3 DEF vars
    <3> QED
      BY <2>1, <3>1 DEF ByDistance
  <2> QED
    BY <2>2, <2>3 DEF Next
<1> QED
  BY <1>1, <1>2, <1>3 DEF DistanceInv

(* Where no two CAs share a Secret name, no level of the search lists a Certificate that an
   earlier level collected, or the one it began with: with finitely many Certificates it has
   finitely many levels (discoverDownstreamBFS, which keeps no set of visited ones). *)
THEOREM SearchNeverReturns == Spec => []SearchMovesOn
<1>1. DistanceInv => SearchMovesOn
  <2> SUFFICES ASSUME DistanceInv, SecretsNamedApart, NEW a \in anchors, NEW d \in Listed(a),
                      d \in {start} \cup found
               PROVE  FALSE
    BY DEF SearchMovesOn
  <2>0. PICK dist : \E k \in Nat :
           /\ Distances(dist)
           /\ \A c \in {start} \cup found : dist[c] <= k
           /\ \A b \in anchors :
                 \E c \in PresentCAs : b \in FindIssuersForCACert(c) /\ dist[c] = k
    BY DEF DistanceInv, ByDistance
  <2>1. PICK k \in Nat :
           /\ Distances(dist)
           /\ \A c \in {start} \cup found : dist[c] <= k
           /\ \A b \in anchors :
                 \E c \in PresentCAs : b \in FindIssuersForCACert(c) /\ dist[c] = k
    BY <2>0
  <2>2. PICK c \in PresentCAs : a \in FindIssuersForCACert(c) /\ dist[c] = k
    BY <2>1
  <2>3. dist[d] = k + 1
    BY <2>1, <2>2, OneStepFarther DEF DistanceInv
  <2> QED
    BY <2>1, <2>3
<1> QED
  BY <1>1, DistanceInit, DistanceNext, PTL DEF Spec
=============================================================================
