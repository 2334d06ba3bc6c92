----------------------------- MODULE ChainProofs -----------------------------
(***************************************************************************)
(* The chain from a certificate to its root: the levels of the tree, the   *)
(* order in which certificates are issued along a chain, and what follows  *)
(* for the end of a rotation and of a child's cascade.                     *)
(***************************************************************************)
EXTENDS RotationProofs, Levels

---------------------------------------------------------------------------
(* The tree. *)

(* The levels of the search below p are defined for every number. *)
LEMMA LevelUnfolds ==
    ASSUME NEW p
    PROVE  /\ Level(p) \in [Nat -> SUBSET Certs]
           /\ Level(p)[0] = Children(p)
           /\ \A n \in Nat : Level(p)[n + 1] = UNION {Children(a) : a \in Level(p)[n]}
<1> DEFINE T == SUBSET Certs
           step == [S \in T |-> UNION {Children(a) : a \in S}]
           Is(h) == h = [n \in Nat |-> IF n = 0 THEN Children(p)
                                       ELSE UNION {Children(a) : a \in h[n-1]}]
           f == CHOOSE h : Is(h)
<1>1. \A a : Children(a) \in T
    BY DEF Children
<1>2. \A S \in T : UNION {Children(a) : a \in S} \in T
    BY <1>1
<1>3. step \in [T -> T]
    BY <1>2
<1>4. PICK g \in [Nat -> T] : g[0] = Children(p) /\ \A n \in Nat : g[n + 1] = step[g[n]]
    <2> HIDE DEF step, T
    <2> QED BY <1>1, <1>3, IterationExists
<1>5. Is(g)
    <2>1. ASSUME NEW n \in Nat
          PROVE  g[n] = IF n = 0 THEN Children(p) ELSE UNION {Children(a) : a \in g[n-1]}
        <3>1. CASE n = 0
            BY <1>4, <3>1
        <3>2. CASE n # 0
            <4>1. n - 1 \in Nat /\ (n - 1) + 1 = n
                BY <3>2
            <4>2. g[n] = step[g[n-1]] /\ g[n-1] \in T
                BY <1>4, <4>1
            <4> QED BY <3>2, <4>2
        <3> QED BY <3>1, <3>2
    <2> QED BY <1>4, <2>1
<1>6. Is(f)
    BY <1>5
<1>7. Level(p) = f
    BY DEF Level
<1> HIDE DEF f
<1>8. f[0] = Children(p)
    BY <1>6
<1>9. ASSUME NEW n \in Nat PROVE f[n + 1] = UNION {Children(a) : a \in f[n]}
    <2>1. n + 1 \in Nat /\ n + 1 # 0 /\ (n + 1) - 1 = n
        OBVIOUS
    <2> QED BY <1>6, <2>1
<1>10. f \in [Nat -> T]
    <2>1. \A n \in Nat : (IF n = 0 THEN Children(p) ELSE UNION {Children(a) : a \in f[n-1]}) \in T
        <3>1. \A S : UNION {Children(a) : a \in S} \in T
            BY <1>1
        <3> QED BY <1>1, <3>1
    <2> QED BY <1>6, <2>1
<1> QED BY <1>7, <1>8, <1>9, <1>10

(* A certificate is one level below its issuer. *)
LEMMA LevelOfIssuer ==
    ASSUME NEW p, NEW c \in Certs, NEW n \in Nat
    PROVE  /\ c \in Level(p)[0] <=> Parent[c] = p
           /\ c \in Level(p)[n + 1] <=> Parent[c] \in Level(p)[n]
BY LevelUnfolds DEF Children

(* What a CA signs itself is below it. *)
LEMMA ChildrenBelow ==
    ASSUME NEW p PROVE Children(p) \subseteq Below(p)
<1>1. Cardinality(Certs) \in Nat
    BY TreeAssumption, FS_CardinalityType
<1> QED BY <1>1, LevelUnfolds DEF Below, Children

(* A certificate below p is signed by p, or its issuer is below p. *)
LEMMA BelowThroughIssuer ==
    ASSUME NEW p, NEW c \in Below(p) PROVE Parent[c] = p \/ Parent[c] \in Below(p)
<1>1. PICK n \in 0 .. Cardinality(Certs) : c \in Certs /\ c \in Level(p)[n]
    BY DEF Below
<1>2. Cardinality(Certs) \in Nat
    BY TreeAssumption, FS_CardinalityType
<1>3. CASE n = 0
    BY <1>1, <1>3, LevelOfIssuer
<1>4. CASE n # 0
    <2>1. n - 1 \in Nat /\ (n - 1) + 1 = n /\ n - 1 \in 0 .. Cardinality(Certs)
        BY <1>2, <1>4
    <2>2. Parent[c] \in Level(p)[n - 1]
        BY <1>1, <2>1, LevelOfIssuer
    <2>3. Parent[c] \in Certs
        BY <2>1, <2>2, LevelUnfolds
    <2> QED BY <2>1, <2>2, <2>3 DEF Below
<1> QED BY <1>3, <1>4

(* A certificate is on one level of the tree. *)
LEMMA OneLevel ==
    ASSUME NEW m \in Nat, NEW n \in Nat, NEW c \in Certs, c \in Level(Root)[m], c \in Level(Root)[n]
    PROVE  m = n
<1> DEFINE S == {i \in Nat : \A j \in Nat, d \in Certs :
                    d \in Level(Root)[i] /\ d \in Level(Root)[j] => i = j}
<1>0. ASSUME NEW d \in Certs, NEW j \in Nat, j # 0, d \in Level(Root)[j]
      PROVE  /\ j - 1 \in Nat /\ Parent[d] \in Level(Root)[j - 1]
             /\ Parent[d] \in Certs /\ Parent[d] # Root
    <2>1. j - 1 \in Nat /\ (j - 1) + 1 = j
        BY <1>0
    <2>2. Parent[d] \in Level(Root)[j - 1]
        BY <1>0, <2>1, LevelOfIssuer
    <2> QED BY <2>1, <2>2, LevelUnfolds, ClusterAssumption
<1>1. 0 \in S
    <2> SUFFICES ASSUME NEW j \in Nat, NEW d \in Certs, d \in Level(Root)[0], d \in Level(Root)[j], j # 0
                 PROVE  FALSE
        OBVIOUS
    <2>1. Parent[d] = Root
        BY LevelOfIssuer
    <2> QED BY <1>0, <2>1
<1>2. ASSUME NEW i \in Nat, i \in S PROVE i + 1 \in S
    <2> SUFFICES ASSUME NEW j \in Nat, NEW d \in Certs,
                        d \in Level(Root)[i + 1], d \in Level(Root)[j]
                 PROVE  i + 1 = j
        OBVIOUS
    <2>1. Parent[d] \in Level(Root)[i] /\ Parent[d] \in Certs /\ Parent[d] # Root
        <3>1. i + 1 \in Nat /\ i + 1 # 0 /\ (i + 1) - 1 = i
            OBVIOUS
        <3> QED BY <1>0, <3>1
    <2>2. j # 0
        BY <2>1, LevelOfIssuer
    <2>3. j - 1 \in Nat /\ Parent[d] \in Level(Root)[j - 1]
        BY <1>0, <2>2
    <2>4. i = j - 1
        BY <1>2, <2>1, <2>3
    <2> QED BY <2>4
<1> HIDE DEF S
<1>3. Nat \subseteq S
    BY <1>1, <1>2, EveryNumber
<1> QED BY <1>3 DEF S

(* The depth of a certificate is that of its issuer and one. *)
LEMMA DepthOfIssuer ==
    ASSUME NEW c \in Certs, Parent[c] \in CAs
    PROVE  /\ Depth(c) \in 0 .. Cardinality(Certs) /\ Depth(Parent[c]) \in Nat
           /\ Depth(c) = Depth(Parent[c]) + 1
           /\ Parent[c] # c
<1>1. Cardinality(Certs) \in Nat
    BY TreeAssumption, FS_CardinalityType
<1>2. ASSUME NEW d \in Certs
      PROVE  Depth(d) \in 0 .. Cardinality(Certs) /\ d \in Level(Root)[Depth(d)]
    <2>1. \E n \in 0 .. Cardinality(Certs) : d \in Level(Root)[n]
        BY TreeAssumption DEF Below
    <2> QED BY <2>1 DEF Depth
<1>3. Parent[c] \in Certs /\ Parent[c] # Root
    BY ClusterAssumption DEF Certs
<1>4. Depth(c) # 0
    BY <1>2, <1>3, LevelOfIssuer
<1>5. Depth(c) - 1 \in Nat /\ (Depth(c) - 1) + 1 = Depth(c)
    BY <1>1, <1>2, <1>4
<1>6. Parent[c] \in Level(Root)[Depth(c) - 1]
    BY <1>2, <1>5, LevelOfIssuer
<1>7. Depth(Parent[c]) \in Nat
    BY <1>1, <1>2, <1>3
<1>8. Depth(Parent[c]) = Depth(c) - 1
    BY <1>2, <1>3, <1>5, <1>6, <1>7, OneLevel
<1>9. Parent[c] # c
    BY <1>5, <1>7, <1>8
<1> QED BY <1>2, <1>5, <1>7, <1>8, <1>9

---------------------------------------------------------------------------
(* Who issues. *)

(* The operator issues nothing and renews no root. *)
LEMMA HandlersIssueNothing ==
    ASSUME OperatorStep PROVE UNCHANGED <<root, rootCR, crt, pub, loaded, clock, seen>>
<1>1. CASE ReconcileRoot
    <2>1. UNCHANGED rootHandlerEnv
        BY <1>1
        DEF ReconcileRoot, InitialisePhase, IdleSKIDChanged, IdleBaseline, IdleRequestDetected, IdleQuiet,
            PreservingAbort, PreservingRenewed, DualTrustExtended, AwaitingTier1, AwaitingTier2,
            AwaitingTier2Reissued, VerifyTier1Fails, VerifyTier2Fails, VerifyLeafFails, VerifyPasses,
            Complete
    <2> QED BY <2>1 DEF rootHandlerEnv, rootVars
<1>2. CASE RootInterrupted
    <2>1. UNCHANGED rootHandlerEnv
        BY <1>2
        DEF RootInterrupted, IdleInterrupted, DualTrustBlocked, DualTrustInterrupted,
            AwaitingInterrupted, CompleteInterrupted
    <2> QED BY <2>1 DEF rootHandlerEnv, rootVars
<1>3. ASSUME NEW c \in CAs, ReconcileChild(c) \/ ChildInterrupted(c)
      PROVE  UNCHANGED <<root, rootCR, crt, pub, loaded, clock, seen>>
    BY <1>3, ChildStepFrame DEF childHandlerEnv, rootVars
<1> QED BY <1>1, <1>2, <1>3 DEF OperatorStep

(* The steps that change a certificate, the root or what an issuer signs with. *)
LEMMA IssuingSteps ==
    ASSUME [Next]_vars
    PROVE  \/ UNCHANGED <<root, crt, loaded, clock>>
           \/ \E c \in Certs : Issue(c)
           \/ \E c \in Certs : DeleteSecret(c)
           \/ \E p \in Signers : LoadIssuer(p)
           \/ WriteRootSecret \/ DeleteRoot
<1>1. CASE OperatorStep
    BY <1>1, HandlersIssueNothing
<1>2. CASE EnvironmentStep
    BY <1>2
    DEF EnvironmentStep, CertManager, Disruption, Publish, RenewCertificate, DeleteChild, RequestRoot,
        RequestAbsentRoot, SignRoot, FailRoot, RetryRoot, DeleteConfigMap, Distribute, Informers,
        CacheSync, Sync, rootVars, certVars
<1>3. CASE UNCHANGED vars
    BY <1>3 DEF vars, rootVars, certVars
<1> QED BY <1>1, <1>2, <1>3 DEF Next

(* What cert-manager writes when it issues. *)
LEMMA IssueOutcome ==
    ASSUME TypeOK, NEW c \in Certs, Issue(c)
    PROVE  /\ crt[c].nb < clock' /\ clock <= clock' /\ clock' \in Nat
           /\ "sameSecond" \notin Env => clock' = clock + 1
           /\ crt' \in [Certs -> Certificate]
           /\ crt'[c].key = crt[c].key + 1
           /\ crt'[c].akid = SigningWith(Parent[c]).key
           /\ crt'[c].anchor = SigningWith(Parent[c]).anchor
           /\ crt'[c].nb = clock' /\ crt'[c].present
           /\ \A d \in Certs : d # c => crt'[d] = crt[d]
           /\ SignerPresent(Parent[c])
           /\ issuing' = issuing \ {c}
           /\ UNCHANGED <<root, rootCR, loaded, pub, staging, bundle, distributed, status, cached, child, seen>>
<1>1. PICK now \in {clock + 1} \cup {clock : x \in Env \cap {"sameSecond"}} :
         /\ now > crt[c].nb
         /\ clock' = now
         /\ crt' = [crt EXCEPT ![c] = [key     |-> crt[c].key + 1,
                                       akid    |-> SigningWith(Parent[c]).key,
                                       anchor  |-> SigningWith(Parent[c]).anchor,
                                       nb      |-> now,
                                       present |-> TRUE]]
    BY DEF Issue
<1>2. clock \in Nat /\ crt \in [Certs -> Certificate] /\ crt[c].nb \in Nat /\ crt[c].key \in Nat
    BY DEF TypeOK, Certificate
<1>3. clock <= now /\ now \in Nat /\ ("sameSecond" \notin Env => now = clock + 1)
    BY <1>1, <1>2
<1>4. SigningWith(Parent[c]).key \in Nat /\ SigningWith(Parent[c]).anchor \in Nat
    BY ClusterAssumption, ReadTypes DEF Signer
<1>5. crt' \in [Certs -> Certificate]
    BY <1>1, <1>2, <1>3, <1>4 DEF Certificate
<1>6. /\ crt'[c].key = crt[c].key + 1
      /\ crt'[c].akid = SigningWith(Parent[c]).key
      /\ crt'[c].anchor = SigningWith(Parent[c]).anchor
      /\ crt'[c].nb = now /\ crt'[c].present
      /\ \A d \in Certs : d # c => crt'[d] = crt[d]
    BY <1>1, <1>2
<1>7. crt[c].nb < clock'
    BY <1>1, <1>2, <1>3
<1> QED BY <1>1, <1>3, <1>5, <1>6, <1>7 DEF Issue, rootVars, trustVars, crdVars

(* Somebody who deletes a Secret leaves what it held to be re-issued. *)
LEMMA DeleteOutcome ==
    ASSUME TypeOK, NEW c \in Certs, DeleteSecret(c)
    PROVE  /\ \A d \in Certs : /\ crt'[d].key = crt[d].key /\ crt'[d].akid = crt[d].akid
                                /\ crt'[d].anchor = crt[d].anchor /\ crt'[d].nb = crt[d].nb
           /\ UNCHANGED <<root, rootCR, loaded, clock, pub, staging, status, cached, seen>>
<1>1. crt \in [Certs -> Certificate] /\ crt' = [crt EXCEPT ![c].present = FALSE]
    BY DEF TypeOK, DeleteSecret
<1>2. \A d \in Certs : /\ crt'[d].key = crt[d].key /\ crt'[d].akid = crt[d].akid
                       /\ crt'[d].anchor = crt[d].anchor /\ crt'[d].nb = crt[d].nb
    BY <1>1 DEF Certificate
<1> QED BY <1>2 DEF DeleteSecret, rootVars, trustVars, crdVars

---------------------------------------------------------------------------
(* The end of a child's cascade. *)

(* No key is None. *)
LEMMA NumberedInit == Init => KeysNumbered
<1> SUFFICES ASSUME Init PROVE KeysNumbered
    OBVIOUS
<1>1. \A p \in Signers : InstalledKey(p) \in Nat /\ InstalledKey(p) >= 1
    BY DEF InstalledKey
<1>2. root.key >= 1
    BY <1>1 DEF Init, Signers
<1>3. \A p \in Signers : loaded[p].key >= 1
    BY <1>1 DEF Init
<1>4. ASSUME NEW c \in Certs PROVE crt[c].key >= 1 /\ crt[c].akid >= 1
    <2>1. crt[c].key = InstalledKey(c)
        BY DEF Init, InstalledCertificate
    <2>2. InstalledKey(c) >= 1 /\ Parent[c] \in Signers
        BY ClusterAssumption DEF InstalledKey
    <2>3. crt[c].akid \in {InstalledKey(Parent[c]), 1}
        BY DEF Init, InstalledCertificate
    <2> QED BY <1>1, <2>1, <2>2, <2>3
<1> QED BY <1>2, <1>3, <1>4 DEF KeysNumbered

(* A key is the next one after a key. *)
LEMMA NumberedNext == TypeOK /\ KeysNumbered /\ [Next]_vars => KeysNumbered'
<1> SUFFICES ASSUME TypeOK, KeysNumbered, [Next]_vars PROVE KeysNumbered'
    OBVIOUS
<1>0. /\ root \in Secret /\ crt \in [Certs -> Certificate] /\ loaded \in [Signers -> Signer]
      /\ \A p \in Signers : p = Root \/ p \in Certs
    BY DEF TypeOK, Signers, Certs
<1>1. \A p \in Signers : SigningWith(p).key >= 1 /\ LiveSigner(p).key >= 1
    BY <1>0 DEF KeysNumbered, SigningWith, LiveSigner
<1>2. CASE UNCHANGED <<root, crt, loaded, clock>>
    BY <1>2 DEF KeysNumbered
<1>3. ASSUME NEW c \in Certs, Issue(c) PROVE KeysNumbered'
    <2>1. crt'[c].key >= 1 /\ crt'[c].akid >= 1
        <3>1. crt[c].key \in Nat /\ crt[c].key >= 1 /\ Parent[c] \in Signers
            BY <1>0, ClusterAssumption DEF Certificate, KeysNumbered
        <3>2. crt'[c].key = crt[c].key + 1 /\ crt'[c].akid = SigningWith(Parent[c]).key
            BY <1>3, IssueOutcome
        <3> QED BY <1>1, <3>1, <3>2
    <2>2. UNCHANGED <<root, loaded>> /\ \A d \in Certs : d # c => crt'[d] = crt[d]
        BY <1>3, IssueOutcome
    <2> QED BY <2>1, <2>2 DEF KeysNumbered
<1>4. ASSUME NEW c \in Certs, DeleteSecret(c) PROVE KeysNumbered'
    BY <1>4, DeleteOutcome DEF KeysNumbered
<1>5. ASSUME NEW p \in Signers, LoadIssuer(p) PROVE KeysNumbered'
    <2>1. loaded' = [loaded EXCEPT ![p] = LiveSigner(p)] /\ UNCHANGED <<root, crt>>
        BY <1>5 DEF LoadIssuer, rootVars
    <2> QED BY <1>0, <1>1, <2>1 DEF KeysNumbered
<1>6. CASE WriteRootSecret
    <2>1. PICK key \in {root.serial + 1} \cup {root.key : x \in Env \cap {"sameKey"}} :
             root' = [key |-> key, serial |-> root.serial + 1, present |-> TRUE]
        BY <1>6 DEF WriteRootSecret
    <2>2. root.serial \in Nat /\ root.key >= 1
        BY <1>0 DEF Secret, KeysNumbered
    <2>3. key >= 1
        BY <2>2
    <2>4. root'.key >= 1 /\ UNCHANGED <<crt, loaded>>
        BY <1>6, <2>1, <2>3 DEF WriteRootSecret, certVars
    <2> QED BY <2>4 DEF KeysNumbered
<1>7. CASE DeleteRoot
    <2>1. root' = [root EXCEPT !.present = FALSE] /\ UNCHANGED <<crt, loaded>>
        BY <1>7 DEF DeleteRoot, certVars
    <2>2. root'.key = root.key
        BY <1>0, <2>1 DEF Secret
    <2> QED BY <2>1, <2>2 DEF KeysNumbered
<1> QED BY <1>2, <1>3, <1>4, <1>5, <1>6, <1>7, IssuingSteps

(* The order in which the certificates of the installation were issued: generation after
   generation, the rotated ones after all the others. *)
LEMMA TurnInit == Init => IssuedInTurn
<1> SUFFICES ASSUME Init PROVE IssuedInTurn
    OBVIOUS
<1> DEFINE N == Cardinality(Certs)
<1>1. N \in Nat
    BY TreeAssumption, FS_CardinalityType
<1>2. crt = [c \in Certs |-> InstalledCertificate(c)] /\ clock = 2 * N + 1
    BY DEF Init
<1>3. ASSUME NEW c \in Certs
      PROVE  /\ Depth(c) \in 0 .. N
             /\ crt[c].nb = IF c \in RotatedBeforeInstall THEN N + 1 + Depth(c) ELSE 1 + Depth(c)
             /\ crt[c].nb <= clock
    <2>1. \E n \in 0 .. N : c \in Level(Root)[n]
        BY TreeAssumption DEF Below
    <2>2. Depth(c) \in 0 .. N
        BY <2>1 DEF Depth
    <2>3. crt[c].nb = IF c \in RotatedBeforeInstall THEN N + 1 + Depth(c) ELSE 1 + Depth(c)
        BY <1>2 DEF InstalledCertificate
    <2> HIDE DEF N
    <2>4. crt[c].nb <= 2 * N + 1
        BY <1>1, <2>2, <2>3
    <2> QED BY <1>2, <2>2, <2>3, <2>4
<1>4. ASSUME NEW c \in Certs, Parent[c] \in CAs
      PROVE  /\ crt[c].nb # crt[Parent[c]].nb
             /\ crt[c].nb > crt[Parent[c]].nb =>
                    crt[c].akid = crt[Parent[c]].key /\ crt[c].anchor >= crt[Parent[c]].anchor
    <2> DEFINE p == Parent[c]
    <2>1. p \in Certs /\ p \in Signers
        BY <1>4 DEF Certs, Signers
    <2>2. Depth(c) = Depth(p) + 1 /\ p # c /\ Depth(p) \in Nat
        BY <1>4, DepthOfIssuer
    <2>3. N >= 2
        <3>1. {c, p} \subseteq Certs
            BY <2>1
        <3>2. IsFiniteSet({c}) /\ Cardinality({c}) = 1
            BY FS_Singleton
        <3>3. Cardinality({c} \cup {p}) = 2
            BY <2>2, <3>2, FS_AddElement
        <3>4. {c} \cup {p} \in SUBSET Certs
            BY <3>1
        <3> QED BY <3>3, <3>4, TreeAssumption, FS_Subset
    <2>4. /\ crt[c].nb = IF c \in RotatedBeforeInstall THEN N + 1 + Depth(c) ELSE 1 + Depth(c)
          /\ crt[p].nb = IF p \in RotatedBeforeInstall THEN N + 1 + Depth(p) ELSE 1 + Depth(p)
        BY <1>3, <2>1
    <2>5. /\ crt[c].akid = IF p \in RotatedBeforeInstall /\ c \in RotatedBeforeInstall
                           THEN InstalledKey(p) ELSE 1
          /\ crt[p].key = InstalledKey(p)
          /\ crt[c].anchor = InstalledCertificate(c).anchor
          /\ crt[p].anchor = InstalledCertificate(p).anchor
        BY <1>2, <2>1 DEF InstalledCertificate
    <2>6. crt[c].anchor \in {1, 2} /\ crt[p].anchor \in {1, 2}
        BY <2>5 DEF InstalledCertificate
    <2>7. p \notin RotatedBeforeInstall => crt[p].anchor = 1 /\ crt[p].key = 1
        BY <2>1, <2>5 DEF InstalledCertificate, InstalledKey
    <2>8. c \in RotatedBeforeInstall /\ crt[p].anchor = 2 => crt[c].anchor = 2
        <3> SUFFICES ASSUME c \in RotatedBeforeInstall, crt[p].anchor = 2 PROVE crt[c].anchor = 2
            OBVIOUS
        <3>1. \A q \in Signers : q = p \/ p \in Below(q) => q \in RotatedBeforeInstall
            BY <2>5 DEF InstalledCertificate
        <3>2. \A q \in Signers : q = c \/ c \in Below(q) => q \in RotatedBeforeInstall
            BY <3>1, BelowThroughIssuer
        <3> QED BY <2>5, <3>2 DEF InstalledCertificate
    <2> HIDE DEF N, p
    <2>9. /\ crt[c].nb # crt[p].nb
          /\ crt[c].nb > crt[p].nb => (p \in RotatedBeforeInstall => c \in RotatedBeforeInstall)
        BY <1>1, <2>2, <2>3, <2>4
    <2>10. crt[c].nb > crt[p].nb => crt[c].akid = crt[p].key
        BY <2>5, <2>7, <2>9
    <2>11. crt[c].nb > crt[p].nb => crt[c].anchor >= crt[p].anchor
        BY <2>6, <2>7, <2>8, <2>9
    <2> QED BY <2>9, <2>10, <2>11 DEF p
<1> QED BY <1>3, <1>4 DEF IssuedInTurn

(* A certificate that is issued is the youngest of all, and signed with what its issuer has. *)
LEMMA TurnNext ==
    ASSUME {"issuerLag", "sameSecond"} \cap Env = {}, TypeOK, IssuedInTurn, [Next]_vars
    PROVE  IssuedInTurn'
<1>0. crt \in [Certs -> Certificate] /\ clock \in Nat /\ \A c \in Certs : crt[c].nb \in Nat
    BY DEF TypeOK, Certificate
<1>1. CASE UNCHANGED <<root, crt, loaded, clock>>
    BY <1>1 DEF IssuedInTurn
<1>2. ASSUME NEW c \in Certs, Issue(c) PROVE IssuedInTurn'
    <2>1. /\ clock' = clock + 1
          /\ crt'[c].nb = clock'
          /\ crt'[c].akid = SigningWith(Parent[c]).key
          /\ crt'[c].anchor = SigningWith(Parent[c]).anchor
          /\ \A d \in Certs : d # c => crt'[d] = crt[d]
        BY <1>2, IssueOutcome
    <2>2. SUFFICES ASSUME NEW d \in Certs
                   PROVE  /\ crt'[d].nb <= clock'
                          /\ Parent[d] \in CAs =>
                                /\ crt'[d].nb # crt'[Parent[d]].nb
                                /\ crt'[d].nb > crt'[Parent[d]].nb =>
                                      /\ crt'[d].akid = crt'[Parent[d]].key
                                      /\ crt'[d].anchor >= crt'[Parent[d]].anchor
        BY DEF IssuedInTurn
    <2>3. crt[d].nb <= clock
        BY DEF IssuedInTurn
    <2>4. crt'[d].nb <= clock' /\ crt'[d].nb \in Nat
        BY <1>0, <2>1, <2>3
    <2>5. ASSUME Parent[d] \in CAs
          PROVE  /\ crt'[d].nb # crt'[Parent[d]].nb
                 /\ crt'[d].nb > crt'[Parent[d]].nb =>
                       /\ crt'[d].akid = crt'[Parent[d]].key
                       /\ crt'[d].anchor >= crt'[Parent[d]].anchor
        <3>1. Parent[d] \in Certs /\ Parent[d] # d /\ Parent[d] # Root
            BY <2>5, DepthOfIssuer, ClusterAssumption DEF Certs
        <3>2. crt[Parent[d]].nb <= clock /\ crt[Parent[d]].nb \in Nat
            BY <1>0, <3>1 DEF IssuedInTurn
        <3>3. CASE d = c
            <4>1. crt'[Parent[d]] = crt[Parent[d]]
                BY <2>1, <3>1, <3>3
            <4>2. SigningWith(Parent[d]) = [key |-> crt[Parent[d]].key, anchor |-> crt[Parent[d]].anchor]
                BY <3>1 DEF SigningWith, LiveSigner
            <4>3. crt'[d].akid = crt'[Parent[d]].key /\ crt'[d].anchor = crt'[Parent[d]].anchor
                BY <2>1, <3>3, <4>1, <4>2
            <4>4. crt'[d].nb > crt'[Parent[d]].nb
                BY <1>0, <2>1, <3>2, <3>3, <4>1
            <4>5. crt'[Parent[d]].anchor \in Nat
                BY <1>0, <3>1, <4>1 DEF Certificate
            <4>6. crt'[d].nb # crt'[Parent[d]].nb
                BY <1>0, <2>1, <3>2, <3>3, <4>1
            <4> QED BY <4>3, <4>4, <4>5, <4>6
        <3>4. CASE d # c /\ Parent[d] = c
            <4>1. crt'[d] = crt[d] /\ crt'[Parent[d]].nb = clock + 1
                BY <2>1, <3>4
            <4>2. crt'[d].nb < crt'[Parent[d]].nb
                BY <1>0, <2>3, <4>1
            <4>3. crt'[d].nb \in Nat /\ crt'[Parent[d]].nb \in Nat
                BY <1>0, <4>1
            <4> QED BY <4>2, <4>3
        <3>5. CASE d # c /\ Parent[d] # c
            <4>1. crt'[d] = crt[d] /\ crt'[Parent[d]] = crt[Parent[d]]
                BY <2>1, <3>1, <3>5
            <4> QED BY <2>5, <4>1 DEF IssuedInTurn
        <3> QED BY <3>3, <3>4, <3>5
    <2> QED BY <2>4, <2>5
<1>3. ASSUME NEW c \in Certs, DeleteSecret(c) PROVE IssuedInTurn'
    <2>1. /\ UNCHANGED clock
          /\ \A d \in Certs : /\ crt'[d].key = crt[d].key /\ crt'[d].akid = crt[d].akid
                               /\ crt'[d].anchor = crt[d].anchor /\ crt'[d].nb = crt[d].nb
        BY <1>3, DeleteOutcome
    <2>2. \A d \in Certs : Parent[d] \in CAs => Parent[d] \in Certs
        BY DEF Certs
    <2> QED BY <2>1, <2>2 DEF IssuedInTurn
<1>4. CASE (\E p \in Signers : LoadIssuer(p)) \/ WriteRootSecret \/ DeleteRoot
    <2>1. UNCHANGED <<crt, clock>>
        BY <1>4 DEF LoadIssuer, WriteRootSecret, DeleteRoot, certVars
    <2> QED BY <2>1 DEF IssuedInTurn
<1> QED BY <1>1, <1>2, <1>3, <1>4, IssuingSteps

(* Handlers of the root make children and correct their SKIDs, and leave phases alone. *)
LEMMA RootKeepsPhases ==
    ASSUME TypeOK, ReconcileRoot \/ RootInterrupted, NEW c \in CAs, child'[c].phase = "Complete"
    PROVE  child[c].phase = "Complete"
<1>0. child \in [CAs -> Child]
    BY DEF TypeOK
<1>1. CASE UNCHANGED child
    BY <1>1
<1>2. ASSUME NEW made, EnsureIntermediateCACRs(made) PROVE child[c].phase = "Complete"
    <2>1. NewChild(c).phase = "" /\ [NewChild(c) EXCEPT !.cur = None].phase = ""
        BY DEF NewChild
    <2>2. child'[c] \in {child[c], NewChild(c), [NewChild(c) EXCEPT !.cur = None]}
        BY <1>2 DEF EnsureIntermediateCACRs
    <2> QED BY <2>1, <2>2
<1>3. ASSUME NEW S, SyncChildSKIDs(S) PROVE child[c].phase = "Complete"
    <2>1. child'[c] \in {child[c], [child[c] EXCEPT !.cur = SKID(c)]}
        BY <1>3 DEF SyncChildSKIDs
    <2>2. [child[c] EXCEPT !.cur = SKID(c)].phase = child[c].phase
        BY <1>0 DEF Child
    <2> QED BY <2>1, <2>2
<1> QED
    BY <1>1, <1>2, <1>3
    DEF ReconcileRoot, InitialisePhase, IdleSKIDChanged, IdleBaseline, IdleRequestDetected, IdleQuiet,
        PreservingAbort, PreservingRenewed, DualTrustExtended, AwaitingTier1, AwaitingTier2,
        AwaitingTier2Reissued, VerifyTier1Fails, VerifyTier2Fails, VerifyLeafFails, VerifyPasses,
        Complete, RootInterrupted, IdleInterrupted, DualTrustBlocked, DualTrustInterrupted,
        AwaitingInterrupted, CompleteInterrupted, EnsureThenSweep

(* A child's handlers write no other child, and Complete only from VerifyingChain. *)
LEMMA ChildKeepsPhases ==
    ASSUME TypeOK, NEW d \in CAs, ReconcileChild(d) \/ ChildInterrupted(d),
           NEW c \in CAs, child'[c].phase = "Complete", child[c].phase # "Complete"
    PROVE  ChildVerified(c)
<1>0. child \in [CAs -> Child]
    BY DEF TypeOK
<1>1. ASSUME NEW new, UpdateChild(d, new), new.phase # "Complete" PROVE FALSE
    BY <1>0, <1>1 DEF UpdateChild
<1>2. CASE ChildVerified(d)
    <2>1. c = d
        BY <1>0, <1>2 DEF ChildVerified, UpdateChild
    <2> QED BY <1>2, <2>1
<1>3. CASE UNCHANGED child
    BY <1>3
<1>4. \A new \in Child :
         /\ [new EXCEPT !.cur = SKID(d), !.phase = "Idle"].phase # "Complete"
         /\ [new EXCEPT !.phase = "Idle"].phase # "Complete"
         /\ [new EXCEPT !.cur = SKID(d), !.phase = "AwaitingReissuance"].phase # "Complete"
         /\ [new EXCEPT !.reissued = "False", !.phase = "VerifyingChain"].phase # "Complete"
    BY DEF Child
<1>5. CASE ChildBaseline(d)
    BY <1>0, <1>1, <1>4, <1>5 DEF ChildBaseline
<1>6. CASE ChildQuiet(d)
    BY <1>0, <1>1, <1>4, <1>6 DEF ChildQuiet
<1>7. CASE ChildYields(d)
    BY <1>0, <1>1, <1>4, <1>7 DEF ChildYields
<1>8. CASE ChildCascades(d)
    BY <1>0, <1>1, <1>4, <1>8 DEF ChildCascades
<1>9. CASE ChildDrift(d)
    BY <1>0, <1>1, <1>4, <1>9 DEF ChildDrift
<1>10. CASE ChildTriggers(d)
    BY <1>0, <1>1, <1>4, <1>10 DEF ChildTriggers
<1>11. CASE ChildPending(d)
    <2>1. [child[d] EXCEPT !.verified = "False"].phase # "Complete"
        BY <1>0, <1>11 DEF ChildPending, ChildVerifying, Child
    <2> QED BY <1>1, <1>11, <2>1 DEF ChildPending
<1>12. CASE ChildCompletes(d)
    BY <1>0, <1>1, <1>4, <1>12 DEF ChildCompletes
<1> QED
    BY <1>2, <1>3, <1>5, <1>6, <1>7, <1>8, <1>9, <1>10, <1>11, <1>12
    DEF ReconcileChild, ChildInterrupted

(* Only the verification of its cascade takes a child to Complete. *)
LEMMA OnlyVerifiedCompletes ==
    ASSUME TypeOK, [Next]_vars, NEW c \in CAs, child'[c].phase = "Complete", child[c].phase # "Complete"
    PROVE  ChildVerified(c)
<1>1. CASE UNCHANGED child
    BY <1>1
<1>2. ASSUME NEW d \in CAs, DeleteChild(d) PROVE FALSE
    <2>1. child' = [child EXCEPT ![d] = NoChild] /\ NoChild.phase = ""
        BY <1>2 DEF DeleteChild, NoChild
    <2>2. child \in [CAs -> Child]
        BY DEF TypeOK
    <2> QED BY <2>1, <2>2
<1>3. CASE OperatorStep
    BY <1>3, RootKeepsPhases, ChildKeepsPhases DEF OperatorStep
<1>4. CASE EnvironmentStep
    BY <1>1, <1>2, <1>4
    DEF EnvironmentStep, CertManager, Disruption, Issue, Publish, LoadIssuer, RenewCertificate,
        DeleteSecret, RequestRoot, RequestAbsentRoot, SignRoot, FailRoot, RetryRoot, WriteRootSecret,
        DeleteRoot, DeleteConfigMap, Distribute, Informers, CacheSync, Sync, crdVars
<1> QED BY <1>1, <1>3, <1>4 DEF Next, vars, crdVars

(* What a verified child has checked of the certificates it signed itself: none predates its
   own, and, where their Secrets can be read, none was signed by another key. *)
LEMMA VerifiedChild ==
    ASSUME TypeOK, NEW c \in CAs, ChildVerified(c), NEW d \in Children(c), crt[d].present
    PROVE  /\ crt[c].present
           /\ NotBefore(d) \notin {None} \cup 1 .. NotBefore(c) - 1
           /\ "apiFail" \notin Env => AKID(d) \in {None, crt[c].key}
<1>1. d \in Below(c)
    BY ChildrenBelow
<1>2. crt[c].present /\ child[c].cur = crt[c].key
    BY DEF ChildVerified, ChildVerifying, Reconciled, SKID
<1>3. d \notin NotReady(c) /\ d \notin Outdated(c) /\ ("apiFail" \in Env \/ d \notin Mismatched(c))
    BY DEF ChildVerified
<1>4. NotBefore(d) \notin {None} \cup 1 .. NotBefore(c) - 1
    BY <1>1, <1>3 DEF Outdated
<1> QED BY <1>2, <1>3, <1>4 DEF Mismatched

(* A child leaves VerifyingChain for Complete only when every certificate its CA signed
   carries the CA's present key. The AKID comparison of pendingDownstreamCerts shows it where
   the Secrets can be read; where they cannot, and are passed over, the comparison of notBefore
   shows it as long as a notBefore is fresh and no two are the same. *)
THEOREM CascadesReachChildren ==
    ASSUME "apiFail" \notin Env \/ {"statusLag", "issuerLag", "sameSecond"} \cap Env = {}
    PROVE  Spec => CascadeReachedChildren
<1> DEFINE Reached == \A c \in CAs : child'[c].phase = "Complete" /\ child[c].phase # "Complete" =>
                          \A d \in Children(c) : crt[d].present => crt[d].akid = crt[c].key
<1>1. CASE "apiFail" \notin Env
    <2> DEFINE Inv == TypeOK /\ KeysNumbered
    <2>1. Init => Inv
        BY TypeInit, NumberedInit
    <2>2. Inv /\ [Next]_vars => Inv'
        BY TypeNext, NumberedNext
    <2>3. Inv /\ [Next]_vars => Reached
        <3> SUFFICES ASSUME Inv, [Next]_vars, NEW c \in CAs,
                            child'[c].phase = "Complete", child[c].phase # "Complete",
                            NEW d \in Children(c), crt[d].present
                     PROVE  crt[d].akid = crt[c].key
            OBVIOUS
        <3>1. AKID(d) \in {None, crt[c].key}
            BY <1>1, OnlyVerifiedCompletes, VerifiedChild
        <3>2. AKID(d) = crt[d].akid /\ crt[d].akid >= 1
            BY DEF AKID, KeysNumbered, Children
        <3> QED BY <3>1, <3>2 DEF None
    <2> HIDE DEF Inv
    <2>4. Inv /\ [Next]_vars => [Reached]_vars
        BY <2>3
    <2> QED BY <2>1, <2>2, <2>3, PTL DEF Spec, CascadeReachedChildren
<1>2. CASE {"statusLag", "issuerLag", "sameSecond"} \cap Env = {}
    <2> DEFINE Inv == TypeOK /\ IssuedInTurn
    <2>1. Init => Inv
        BY TypeInit, TurnInit
    <2>2. Inv /\ [Next]_vars => Inv'
        BY <1>2, TypeNext, TurnNext
    <2>3. Inv /\ [Next]_vars => Reached
        <3> SUFFICES ASSUME Inv, [Next]_vars, NEW c \in CAs,
                            child'[c].phase = "Complete", child[c].phase # "Complete",
                            NEW d \in Children(c), crt[d].present
                     PROVE  crt[d].akid = crt[c].key
            OBVIOUS
        <3>1. crt[c].present /\ NotBefore(d) \notin {None} \cup 1 .. NotBefore(c) - 1
            BY OnlyVerifiedCompletes, VerifiedChild
        <3>2. d \in Certs /\ Parent[d] = c /\ c \in Certs
            BY DEF Children, Certs
        <3>3. NotBefore(d) = crt[d].nb /\ NotBefore(c) = crt[c].nb
            BY <1>2, <3>1 DEF NotBefore, Published, LiveStatus
        <3>4. crt[d].nb \in Nat /\ crt[c].nb \in Nat
            BY <3>2 DEF TypeOK, Certificate
        <3>5. crt[d].nb >= crt[c].nb
            BY <3>1, <3>3, <3>4 DEF None
        <3>6. crt[d].nb # crt[c].nb
            BY <3>2 DEF IssuedInTurn
        <3> QED BY <3>2, <3>4, <3>5, <3>6 DEF IssuedInTurn
    <2> HIDE DEF Inv
    <2> QED BY <2>1, <2>2, <2>3, PTL DEF Spec, CascadeReachedChildren
<1> QED BY <1>1, <1>2
=============================================================================
