--------------------------- MODULE OperatorProofs ---------------------------
(***************************************************************************)
(* Theorems of the specification, for every certificate tree, every        *)
(* environment and every value of the bounds.                              *)
(***************************************************************************)
EXTENDS Operator, TLAPS, FiniteSetTheorems, SequenceTheorems

---------------------------------------------------------------------------
(* The PEM bundle. *)

(* The keys of a PEM bundle are SKIDs. *)
LEMMA KeysType ==
    ASSUME NEW pems \in Seq(PEM) PROVE Keys(pems) \subseteq Nat
<1>1. \A i \in 1 .. Len(pems) : pems[i] \in PEM
    OBVIOUS
<1>2. \A i \in DOMAIN pems : pems[i].key \in Nat
    BY <1>1 DEF PEM
<1> QED BY <1>2 DEF Keys

(* AppendPEM keeps every key and adds that of the new PEM, and nothing else. *)
LEMMA AppendPEMKeys ==
    ASSUME NEW pems \in Seq(PEM), NEW pem \in PEM
    PROVE  /\ AppendPEM(pems, pem) \in Seq(PEM)
           /\ Keys(AppendPEM(pems, pem)) = Keys(pems) \cup {pem.key}
<1>1. CASE \E i \in DOMAIN pems : pems[i] = pem
    BY <1>1 DEF AppendPEM, Keys
<1>2. CASE ~ \E i \in DOMAIN pems : pems[i] = pem
    <2>1. AppendPEM(pems, pem) = Append(pems, pem)
        BY <1>2 DEF AppendPEM
    <2>2. /\ Append(pems, pem) \in Seq(PEM)
          /\ Len(Append(pems, pem)) = Len(pems) + 1
          /\ \A i \in 1 .. Len(pems) : Append(pems, pem)[i] = pems[i]
          /\ Append(pems, pem)[Len(pems) + 1] = pem
        BY AppendProperties
    <2>3. DOMAIN pems = 1 .. Len(pems) /\ Len(pems) \in Nat
        OBVIOUS
    <2>4. DOMAIN Append(pems, pem) = 1 .. Len(pems) + 1
        BY <2>2
    <2>5. Keys(Append(pems, pem)) \subseteq Keys(pems) \cup {pem.key}
        <3> SUFFICES ASSUME NEW i \in 1 .. Len(pems) + 1
                     PROVE  Append(pems, pem)[i].key \in Keys(pems) \cup {pem.key}
            BY <2>4 DEF Keys
        <3>1. CASE i = Len(pems) + 1
            BY <2>2, <3>1
        <3>2. CASE i # Len(pems) + 1
            <4>1. i \in 1 .. Len(pems)
                BY <2>3, <3>2
            <4> QED BY <2>2, <2>3, <4>1 DEF Keys
        <3> QED BY <3>1, <3>2
    <2>6. Keys(pems) \cup {pem.key} \subseteq Keys(Append(pems, pem))
        BY <2>2, <2>3, <2>4 DEF Keys
    <2> QED BY <2>1, <2>2, <2>5, <2>6
<1> QED BY <1>1, <1>2

(* RemovePEMBySKID leaves the bundle as it is when no PEM is the first with the key, and
   otherwise takes that PEM out and closes the gap. *)
LEMMA RemovePEMShape ==
    ASSUME NEW pems \in Seq(PEM), NEW skid \in Nat
    PROVE  \/ /\ RemovePEMBySKID(pems, skid) = pems
              /\ ~ \E i \in DOMAIN pems :
                      pems[i].key = skid /\ \A j \in 1 .. i - 1 : pems[j].key # skid
           \/ \E first \in 1 .. Len(pems) :
                 /\ pems[first].key = skid
                 /\ RemovePEMBySKID(pems, skid) \in Seq(PEM)
                 /\ Len(RemovePEMBySKID(pems, skid)) = Len(pems) - 1
                 /\ \A i \in 1 .. Len(pems) - 1 :
                       RemovePEMBySKID(pems, skid)[i] = pems[IF i < first THEN i ELSE i + 1]
<1> DEFINE hits  == {i \in DOMAIN pems :
                        pems[i].key = skid /\ \A j \in 1 .. i - 1 : pems[j].key # skid}
           first == CHOOSE i \in hits : TRUE
           left  == SubSeq(pems, 1, first - 1)
           right == SubSeq(pems, first + 1, Len(pems))
<1>1. CASE hits = {}
    BY <1>1 DEF RemovePEMBySKID
<1>2. CASE hits # {}
    <2>1. DOMAIN pems = 1 .. Len(pems) /\ Len(pems) \in Nat
        OBVIOUS
    <2>2. first \in hits
        BY <1>2
    <2>3. first \in 1 .. Len(pems) /\ pems[first].key = skid
        BY <2>1, <2>2
    <2>4. RemovePEMBySKID(pems, skid) = left \o right
        BY <1>2 DEF RemovePEMBySKID
    <2> HIDE DEF first
    <2>5. /\ left \in Seq(PEM)
          /\ Len(left) = first - 1
          /\ \A i \in 1 .. first - 1 : left[i] = pems[i]
        BY <2>3, SubSeqProperties
    <2>6. /\ right \in Seq(PEM)
          /\ Len(right) = Len(pems) - first
          /\ \A i \in 1 .. Len(pems) - first : right[i] = pems[first + i]
        BY <2>3, SubSeqProperties
    <2> HIDE DEF left, right
    <2>7. /\ left \o right \in Seq(PEM)
          /\ Len(left \o right) = Len(left) + Len(right)
          /\ \A i \in 1 .. Len(left) + Len(right) :
                (left \o right)[i] = IF i <= Len(left) THEN left[i] ELSE right[i - Len(left)]
        BY <2>5, <2>6, ConcatProperties
    <2>8. Len(left) + Len(right) = Len(pems) - 1
        BY <2>1, <2>3, <2>5, <2>6
    <2>9. ASSUME NEW i \in 1 .. Len(pems) - 1
           PROVE  (left \o right)[i] = pems[IF i < first THEN i ELSE i + 1]
        <3>1. CASE i < first
            BY <2>3, <2>5, <2>7, <2>8, <3>1
        <3>2. CASE ~(i < first)
            <4>1. /\ ~(i <= first - 1)
                  /\ i - (first - 1) \in 1 .. Len(pems) - first
                  /\ first + (i - (first - 1)) = i + 1
                BY <2>1, <2>3, <3>2
            <4> QED BY <2>5, <2>6, <2>7, <2>8, <3>2, <4>1
        <3> QED BY <3>1, <3>2
    <2> QED BY <2>3, <2>4, <2>7, <2>8, <2>9
<1> QED BY <1>1, <1>2

(* RemovePEMBySKID takes away no key but the one it is given, and adds none. *)
LEMMA RemovePEMKeys ==
    ASSUME NEW pems \in Seq(PEM), NEW skid \in Nat
    PROVE  /\ RemovePEMBySKID(pems, skid) \in Seq(PEM)
           /\ Keys(pems) \ {skid} \subseteq Keys(RemovePEMBySKID(pems, skid))
           /\ Keys(RemovePEMBySKID(pems, skid)) \subseteq Keys(pems)
<1> DEFINE left == RemovePEMBySKID(pems, skid)
<1> HIDE DEF left
<1>1. CASE left = pems
    BY <1>1 DEF left
<1>2. CASE left # pems
    <2>1. PICK first \in 1 .. Len(pems) :
             /\ pems[first].key = skid
             /\ left \in Seq(PEM)
             /\ Len(left) = Len(pems) - 1
             /\ \A i \in 1 .. Len(pems) - 1 : left[i] = pems[IF i < first THEN i ELSE i + 1]
        BY <1>2, RemovePEMShape DEF left
    <2>2. /\ DOMAIN pems = 1 .. Len(pems) /\ Len(pems) \in Nat
          /\ DOMAIN left = 1 .. Len(pems) - 1
        BY <2>1
    <2>3. ASSUME NEW j \in 1 .. Len(pems), pems[j].key # skid
           PROVE  \E i \in 1 .. Len(pems) - 1 : left[i] = pems[j]
        <3>1. CASE j < first
            BY <2>1, <2>2, <3>1
        <3>2. CASE ~(j < first)
            <4>1. j # first
                BY <2>1, <2>3
            <4>2. j - 1 \in 1 .. Len(pems) - 1 /\ ~(j - 1 < first) /\ (j - 1) + 1 = j
                BY <2>1, <2>2, <3>2, <4>1
            <4> QED BY <2>1, <4>2
        <3> QED BY <3>1, <3>2
    <2>4. Keys(pems) \ {skid} \subseteq Keys(left)
        BY <2>2, <2>3 DEF Keys
    <2>5. \A i \in 1 .. Len(pems) - 1 : \E j \in 1 .. Len(pems) : left[i] = pems[j]
        BY <2>1, <2>2
    <2>6. Keys(left) \subseteq Keys(pems)
        BY <2>2, <2>5 DEF Keys
    <2> QED BY <2>1, <2>4, <2>6 DEF left
<1> QED BY <1>1, <1>2

---------------------------------------------------------------------------
(* Types. *)

(* The certificates found at installation are certificates. *)
LEMMA InstalledCertificateType ==
    ASSUME NEW c \in Certs
    PROVE  /\ InstalledCertificate(c) \in Certificate
           /\ InstalledKey(c) \in Nat
<1>1. Cardinality(Certs) \in Nat
    BY TreeAssumption, FS_CardinalityType
<1>2. \E n \in 0 .. Cardinality(Certs) : c \in Level(Root)[n]
    BY TreeAssumption DEF Below
<1>3. Depth(c) \in Nat
    BY <1>1, <1>2 DEF Depth
<1> QED BY <1>1, <1>3 DEF InstalledCertificate, InstalledKey, Certificate

(* The installation is of the right type. *)
LEMMA TypeInit == Init => TypeOK
<1> SUFFICES ASSUME Init PROVE TypeOK
    OBVIOUS
<1>1. Cardinality(Certs) \in Nat
    BY TreeAssumption, FS_CardinalityType
<1>2. ASSUME NEW k \in Nat PROVE InstalledPEM(k) \in Seq(PEM)
    <2>1. [key |-> k, serial |-> k] \in PEM
        BY DEF PEM
    <2> QED BY <2>1 DEF InstalledPEM
<1>3. InstalledStaging \in ConfigMap
    BY <1>2, ConcatProperties DEF InstalledStaging, ConfigMap
<1>4. crt \in [Certs -> Certificate]
    BY InstalledCertificateType DEF Init
<1>5. pub \in [Certs -> [nb : Nat, ready : BOOLEAN]]
    BY InstalledCertificateType DEF Init, Certificate
<1>6. loaded \in [Signers -> Signer]
    <2>1. ASSUME NEW p \in Signers
          PROVE  /\ InstalledKey(p) \in Nat
                 /\ p # Root => InstalledCertificate(p).anchor \in Nat
        BY InstalledCertificateType, ClusterAssumption DEF InstalledKey, Signers, Certs, Certificate
    <2> QED BY <2>1 DEF Init, Signer
<1>7. root \in Secret
    BY DEF Init, InstalledKey, Secret
<1>8. distributed \subseteq Nat
    <2>1. distributed = {InstalledKey(Root)}
        BY DEF Init
    <2>2. InstalledKey(Root) \in Nat
        BY DEF InstalledKey
    <2> QED BY <2>1, <2>2
<1>9. status \in RootStatus /\ cached \in RootStatus
    BY DEF Init, RootStatus, RootPhases, Conditions, None
<1>10. child \in [CAs -> Child]
    BY DEF Init, NoChild, Child, ChildPhases, Conditions, None
<1>11. rootCR \in {"none", "pending", "failed", "signed"}
    BY DEF Init
<1>12. issuing \subseteq Certs
    BY DEF Init
<1>13. clock \in Nat /\ disruptions \in Nat
    <2>1. clock = 2 * Cardinality(Certs) + 1 /\ disruptions = 0
        BY DEF Init
    <2> QED BY <1>1, <2>1
<1>14. staging \in ConfigMap /\ bundle \in BOOLEAN
    BY <1>3 DEF Init
<1>15. seen \in [root : Secret, issuing : SUBSET Certs, staging : ConfigMap]
    BY <1>7, <1>12, <1>14 DEF Init
<1> QED
    BY <1>4, <1>5, <1>6, <1>7, <1>8, <1>9, <1>10, <1>11, <1>12, <1>13, <1>14, <1>15
    DEF TypeOK

(* What the handlers and the environment read has its type. *)
LEMMA ReadTypes ==
    ASSUME TypeOK
    PROVE  /\ RootPEM \in PEM
           /\ \A p \in Signers : LiveSigner(p) \in Signer /\ SigningWith(p) \in Signer
           /\ \A c \in Certs : LiveStatus(c) \in [nb : Nat, ready : BOOLEAN]
           /\ \A c \in CAs : SKID(c) \in Nat
           /\ StagedKeys \subseteq Nat /\ Sourced \subseteq Nat
           /\ RootSecret \in Secret /\ RootSecret.key \in Nat
           /\ StagingSeen \in ConfigMap /\ StagingSeen.pems \in Seq(PEM)
<1>0. /\ RootSecret \in Secret /\ RootSecret.key \in Nat
      /\ StagingSeen \in ConfigMap /\ StagingSeen.pems \in Seq(PEM)
    BY DEF TypeOK, RootSecret, StagingSeen, Secret, ConfigMap
<1>1. RootPEM \in PEM
    BY <1>0 DEF RootPEM, PEM, Secret
<1>2. ASSUME NEW p \in Signers PROVE LiveSigner(p) \in Signer /\ SigningWith(p) \in Signer
    <2>1. p = Root \/ p \in Certs
        BY DEF Signers, Certs
    <2>2. LiveSigner(p) \in Signer
        BY <2>1 DEF TypeOK, LiveSigner, Signer, Certificate, Secret
    <2> QED BY <2>2 DEF TypeOK, SigningWith
<1>3. ASSUME NEW c \in Certs PROVE LiveStatus(c) \in [nb : Nat, ready : BOOLEAN]
    BY DEF TypeOK, LiveStatus, Certificate, None
<1>4. ASSUME NEW c \in CAs PROVE SKID(c) \in Nat
    BY DEF TypeOK, SKID, Certificate, None, Certs
<1>5. StagedKeys \subseteq Nat
    BY KeysType DEF TypeOK, StagedKeys, ConfigMap
<1>6. Sourced \subseteq Nat
    BY <1>5 DEF TypeOK, Sourced, Secret
<1> QED BY <1>0, <1>1, <1>2, <1>3, <1>4, <1>5, <1>6

(* An informer that catches up brings one of the three copies up to date, and no more. *)
LEMMA SyncStep ==
    ASSUME NEW copy \in DOMAIN Lag, Sync(copy)
    PROVE  /\ \/ seen' = [seen EXCEPT !.root = root]
              \/ seen' = [seen EXCEPT !.issuing = issuing]
              \/ seen' = [seen EXCEPT !.staging = staging]
           /\ UNCHANGED <<rootVars, certVars, trustVars, crdVars, disruptions>>
<1>1. copy \in {"root", "issuing", "staging"}
    BY DEF Lag
<1>2. /\ seen' = [seen EXCEPT ![copy] = Live[copy]]
      /\ UNCHANGED <<rootVars, certVars, trustVars, crdVars, disruptions>>
    BY DEF Sync
<1>3. CASE copy = "root"
    BY <1>2, <1>3 DEF Live
<1>4. CASE copy = "issuing"
    BY <1>2, <1>4 DEF Live
<1>5. CASE copy = "staging"
    BY <1>2, <1>5 DEF Live
<1> QED BY <1>1, <1>3, <1>4, <1>5

(* Issuing, publishing, loading, renewing, deleting and distributing keep the types. *)
LEMMA TypeEnvironment == TypeOK /\ EnvironmentStep => TypeOK'
<1> SUFFICES ASSUME TypeOK, EnvironmentStep PROVE TypeOK'
    OBVIOUS
<1> USE DEF rootVars, certVars, trustVars, crdVars
<1>1. ASSUME NEW c \in Certs, Issue(c) PROVE TypeOK'
    <2>1. PICK now \in {clock + 1} \cup {clock : x \in Env \cap {"sameSecond"}} :
             /\ clock' = now
             /\ crt' = [crt EXCEPT ![c] = [key     |-> crt[c].key + 1,
                                           akid    |-> SigningWith(Parent[c]).key,
                                           anchor  |-> SigningWith(Parent[c]).anchor,
                                           nb      |-> now,
                                           present |-> TRUE]]
        BY <1>1 DEF Issue
    <2>2. now \in Nat
        BY <2>1 DEF TypeOK
    <2>3. Parent[c] \in Signers
        BY ClusterAssumption
    <2>4. SigningWith(Parent[c]).key \in Nat /\ SigningWith(Parent[c]).anchor \in Nat
        BY <2>3, ReadTypes DEF Signer
    <2>5. crt[c].key + 1 \in Nat
        BY DEF TypeOK, Certificate
    <2>6. crt' \in [Certs -> Certificate]
        BY <2>1, <2>2, <2>4, <2>5 DEF TypeOK, Certificate
    <2> QED BY <1>1, <2>1, <2>2, <2>6 DEF Issue, TypeOK
<1>2. ASSUME NEW c \in Certs, Publish(c) PROVE TypeOK'
    <2>1. pub' \in [Certs -> [nb : Nat, ready : BOOLEAN]]
        BY <1>2, ReadTypes DEF Publish, TypeOK
    <2> QED BY <1>2, <2>1 DEF Publish, TypeOK
<1>3. ASSUME NEW p \in Signers, LoadIssuer(p) PROVE TypeOK'
    <2>1. loaded' \in [Signers -> Signer]
        BY <1>3, ReadTypes DEF LoadIssuer, TypeOK
    <2> QED BY <1>3, <2>1 DEF LoadIssuer, TypeOK
<1>4. ASSUME NEW c \in Certs, RenewCertificate(c) PROVE TypeOK'
    <2>1. issuing' \subseteq Certs /\ disruptions' \in Nat
        BY <1>4 DEF RenewCertificate, Disrupt, TypeOK
    <2> QED BY <1>4, <2>1 DEF RenewCertificate, TypeOK
<1>5. ASSUME NEW c \in Certs, DeleteSecret(c) PROVE TypeOK'
    <2>1. issuing' \subseteq Certs /\ disruptions' \in Nat
        BY <1>5 DEF DeleteSecret, Disrupt, TypeOK
    <2>2. crt' \in [Certs -> Certificate]
        BY <1>5 DEF DeleteSecret, TypeOK, Certificate
    <2> QED BY <1>5, <2>1, <2>2 DEF DeleteSecret, TypeOK
<1>6. CASE RequestRoot
    BY <1>6 DEF RequestRoot, TypeOK
<1>7. CASE RequestAbsentRoot
    BY <1>7 DEF RequestAbsentRoot, TypeOK
<1>8. CASE SignRoot
    BY <1>8 DEF SignRoot, TypeOK
<1>9. CASE FailRoot
    BY <1>9 DEF FailRoot, Disrupt, TypeOK
<1>10. CASE RetryRoot
    BY <1>10 DEF RetryRoot, TypeOK
<1>11. CASE WriteRootSecret
    BY <1>11 DEF WriteRootSecret, TypeOK, Secret
<1>12. CASE DeleteRoot
    <2>1. disruptions' \in Nat
        BY <1>12 DEF DeleteRoot, Disrupt, TypeOK
    <2>2. root' \in Secret
        BY <1>12 DEF DeleteRoot, TypeOK, Secret
    <2> QED BY <1>12, <2>1, <2>2 DEF DeleteRoot, TypeOK
<1>13. CASE Distribute
    <2>1. distributed' \subseteq Nat
        BY <1>13, ReadTypes DEF Distribute
    <2> QED BY <1>13, <2>1 DEF Distribute, TypeOK
<1>14. CASE CacheSync
    BY <1>14 DEF CacheSync, TypeOK
<1>15. ASSUME NEW copy \in DOMAIN Lag, Sync(copy) PROVE TypeOK'
    BY <1>15, SyncStep DEF TypeOK
<1>16. CASE DeleteConfigMap
    <2>1. staging' \in ConfigMap /\ disruptions' \in Nat
        BY <1>16 DEF DeleteConfigMap, Disrupt, TypeOK, ConfigMap
    <2> QED BY <1>16, <2>1 DEF DeleteConfigMap, TypeOK
<1>17. ASSUME NEW c \in CAs, DeleteChild(c) PROVE TypeOK'
    <2>1. NoChild \in Child
        BY DEF NoChild, Child, ChildPhases, Conditions, None
    <2>2. child' \in [CAs -> Child] /\ disruptions' \in Nat
        BY <1>17, <2>1 DEF DeleteChild, Disrupt, TypeOK
    <2> QED BY <1>17, <2>2 DEF DeleteChild, TypeOK
<1> QED
    BY <1>1, <1>2, <1>3, <1>4, <1>5, <1>6, <1>7, <1>8, <1>9, <1>10, <1>11, <1>12, <1>13, <1>14,
       <1>15, <1>16, <1>17
    DEF EnvironmentStep, CertManager, Disruption, Informers
---------------------------------------------------------------------------
(* The root's handlers. *)

(* A status write leaves a status, and a copy of it, of the right type. *)
LEMMA UpdateType ==
    ASSUME TypeOK, NEW new \in RootStatus, Update(new)
    PROVE  status' \in RootStatus /\ cached' \in RootStatus /\ disruptions' \in Nat
<1>1. CASE Written(new)
    BY <1>1 DEF Written, TypeOK
<1>2. CASE Conflicted
    BY <1>2 DEF Conflicted, Disrupt, TypeOK
<1> QED BY <1>1, <1>2 DEF Update

(* What a handler of the root does not touch keeps its type. *)
LEMMA RootFrame ==
    ASSUME TypeOK, UNCHANGED rootHandlerEnv, issuing' \subseteq Certs,
           staging' \in ConfigMap, bundle' \in BOOLEAN, child' \in [CAs -> Child],
           status' \in RootStatus, cached' \in RootStatus, disruptions' \in Nat
    PROVE  TypeOK'
BY DEF TypeOK, ConfigMap, rootHandlerEnv, rootVars

(* The sweep picks Certificates (sweepStaleDirectChildren). *)
LEMMA StaleChildrenType ==
    ASSUME NEW p, NEW skid PROVE StaleChildren(p, skid) \subseteq Certs
BY DEF StaleChildren, Children

(* A loop that failed somewhere has done a part of its work. *)
LEMMA AttemptsSubset ==
    ASSUME NEW S, NEW T \in Attempts(S) PROVE T \subseteq S
BY DEF Attempts

(* ensureStagingConfigMap leaves a sequence of PEMs. *)
LEMMA EnsureStagingType ==
    ASSUME TypeOK, EnsureStagingConfigMap PROVE staging' \in ConfigMap
<1>1. <<RootPEM>> \in Seq(PEM)
    BY ReadTypes
<1>2. [exists |-> TRUE, pems |-> <<RootPEM>>] \in ConfigMap
    BY <1>1 DEF ConfigMap
<1>3. staging \in ConfigMap
    BY DEF TypeOK
<1> QED BY <1>2, <1>3 DEF EnsureStagingConfigMap

(* ensureIntermediateCACRs leaves well-formed children. *)
LEMMA EnsureIntermediateType ==
    ASSUME TypeOK, NEW made, EnsureIntermediateCACRs(made) PROVE child' \in [CAs -> Child]
<1>1. ASSUME NEW c \in CAs
      PROVE  NewChild(c) \in Child /\ [NewChild(c) EXCEPT !.cur = None] \in Child
    BY ReadTypes DEF NewChild, Child, ChildPhases, Conditions, None
<1> QED BY <1>1 DEF EnsureIntermediateCACRs, TypeOK

(* syncChildSKIDs leaves well-formed children. *)
LEMMA SyncType ==
    ASSUME TypeOK, NEW S, SyncChildSKIDs(S) PROVE child' \in [CAs -> Child]
<1>1. ASSUME NEW c \in CAs PROVE [child[c] EXCEPT !.cur = SKID(c)] \in Child
    BY ReadTypes DEF TypeOK, Child
<1> QED BY <1>1 DEF SyncChildSKIDs, TypeOK

(* The root's sweep triggers Certificates only. *)
LEMMA SweepRootType ==
    ASSUME TypeOK, SweepRootChildren PROVE issuing' \subseteq Certs
BY StaleChildrenType, AttemptsSubset DEF SweepRootChildren, Trigger, TypeOK

(* The last steps of reconcileIdle keep the types of what they write. *)
LEMMA EnsureThenSweepType ==
    ASSUME TypeOK, EnsureThenSweep
    PROVE  child' \in [CAs -> Child] /\ issuing' \subseteq Certs
BY EnsureIntermediateType, SweepRootType DEF EnsureThenSweep, TypeOK

(* Trimming, in Complete, by the recorded previous SKID. *)
LEMMA TrimType ==
    ASSUME TypeOK, TrimStagingConfigMap PROVE staging' \in ConfigMap
<1>1. cached.prev \in Nat /\ StagingSeen.pems \in Seq(PEM)
    BY ReadTypes DEF TypeOK, RootStatus
<1>2. RemovePEMBySKID(StagingSeen.pems, cached.prev) \in Seq(PEM)
    BY <1>1, RemovePEMKeys
<1> QED BY <1>2 DEF TrimStagingConfigMap, PatchStaging, TypeOK, ConfigMap

(* extendStagingConfigMap leaves a sequence of PEMs. *)
LEMMA ExtendType ==
    ASSUME TypeOK, ExtendStagingConfigMap PROVE staging' \in ConfigMap
<1>1. AppendPEM(StagingSeen.pems, RootPEM) \in Seq(PEM)
    BY ReadTypes, AppendPEMKeys
<1> QED BY <1>1 DEF ExtendStagingConfigMap, PatchStaging, TypeOK, ConfigMap

(* Every handler of the root keeps the types, its phase among them. *)
LEMMA TypeReconcileRoot == TypeOK /\ ReconcileRoot => TypeOK'
<1> SUFFICES ASSUME TypeOK, ReconcileRoot PROVE TypeOK'
    OBVIOUS
<1>1. CASE InitialisePhase
    <2>1. [cached EXCEPT !.phase = "Idle"] \in RootStatus
        BY DEF TypeOK, RootStatus, RootPhases, Conditions, None
    <2>2. status' \in RootStatus /\ cached' \in RootStatus /\ disruptions' \in Nat
        BY <1>1, <2>1, UpdateType DEF InitialisePhase
    <2> QED BY <1>1, <2>1, <2>2, RootFrame DEF InitialisePhase, TypeOK, ConfigMap
<1>2. CASE IdleSKIDChanged
    <2>1. [cached EXCEPT !.prev = cached.cur, !.cur = RootSecret.key, !.phase = "PreservingOldRoot"] \in RootStatus
        BY ReadTypes DEF TypeOK, RootStatus, RootPhases, Conditions, None
    <2>2. status' \in RootStatus /\ cached' \in RootStatus /\ disruptions' \in Nat
        BY <1>2, <2>1, UpdateType DEF IdleSKIDChanged
    <2>3. staging' \in ConfigMap
        BY <1>2, EnsureStagingType DEF IdleSKIDChanged, EnsureTrustAnchors
    <2> QED BY <1>2, <2>1, <2>2, <2>3, RootFrame DEF IdleSKIDChanged, EnsureTrustAnchors, TypeOK, ConfigMap
<1>3. CASE IdleBaseline
    <2>1. [cached EXCEPT !.cur = RootSecret.key] \in RootStatus
        BY ReadTypes DEF TypeOK, RootStatus, RootPhases, Conditions, None
    <2>2. status' \in RootStatus /\ cached' \in RootStatus /\ disruptions' \in Nat
        BY <1>3, <2>1, UpdateType DEF IdleBaseline
    <2>3. staging' \in ConfigMap
        BY <1>3, EnsureStagingType DEF IdleBaseline, EnsureTrustAnchors
    <2>4. child' \in [CAs -> Child] /\ issuing' \subseteq Certs
        BY <1>3, EnsureThenSweepType DEF IdleBaseline, TypeOK
    <2> QED BY <1>3, <2>1, <2>2, <2>3, <2>4, RootFrame DEF IdleBaseline, EnsureTrustAnchors, TypeOK, ConfigMap
<1>4. CASE IdleRequestDetected
    <2>1. [cached EXCEPT !.prev = RootSecret.key, !.phase = "PreservingOldRoot"] \in RootStatus
        BY ReadTypes DEF TypeOK, RootStatus, RootPhases, Conditions, None
    <2>2. status' \in RootStatus /\ cached' \in RootStatus /\ disruptions' \in Nat
        BY <1>4, <2>1, UpdateType DEF IdleRequestDetected
    <2>3. staging' \in ConfigMap
        BY <1>4, EnsureStagingType DEF IdleRequestDetected, EnsureTrustAnchors
    <2> QED BY <1>4, <2>1, <2>2, <2>3, RootFrame DEF IdleRequestDetected, EnsureTrustAnchors, TypeOK, ConfigMap
<1>5. CASE IdleQuiet
    <2>1. staging' \in ConfigMap
        BY <1>5, EnsureStagingType DEF IdleQuiet, EnsureTrustAnchors
    <2>2. child' \in [CAs -> Child] /\ issuing' \subseteq Certs
        BY <1>5, EnsureThenSweepType DEF IdleQuiet, TypeOK
    <2> QED BY <1>5, <2>1, <2>2, RootFrame DEF IdleQuiet, EnsureTrustAnchors, TypeOK, ConfigMap
<1>6. CASE PreservingAbort
    <2>1. [cached EXCEPT !.prev = None, !.phase = "Idle"] \in RootStatus
        BY DEF TypeOK, RootStatus, RootPhases, Conditions, None
    <2>2. status' \in RootStatus /\ cached' \in RootStatus /\ disruptions' \in Nat
        BY <1>6, <2>1, UpdateType DEF PreservingAbort
    <2> QED BY <1>6, <2>1, <2>2, RootFrame DEF PreservingAbort, TypeOK, ConfigMap
<1>7. CASE PreservingRenewed
    <2>1. [cached EXCEPT !.cur = RootSecret.key, !.phase = "DualTrustActive"] \in RootStatus
        BY ReadTypes DEF TypeOK, RootStatus, RootPhases, Conditions, None
    <2>2. status' \in RootStatus /\ cached' \in RootStatus /\ disruptions' \in Nat
        BY <1>7, <2>1, UpdateType DEF PreservingRenewed
    <2> QED BY <1>7, <2>1, <2>2, RootFrame DEF PreservingRenewed, TypeOK, ConfigMap
<1>8. CASE DualTrustExtended
    <2>1. [cached EXCEPT !.dual = "True", !.reissued = "False", !.phase = "AwaitingReissuance"] \in RootStatus
        BY DEF TypeOK, RootStatus, RootPhases, Conditions, None
    <2>2. status' \in RootStatus /\ cached' \in RootStatus /\ disruptions' \in Nat
        BY <1>8, <2>1, UpdateType DEF DualTrustExtended
    <2>3. staging' \in ConfigMap
        BY <1>8, ExtendType DEF DualTrustExtended
    <2>4. issuing' \subseteq Certs
        BY <1>8 DEF DualTrustExtended, Trigger, Certs, TypeOK, Tier1
    <2> QED BY <1>8, <2>1, <2>2, <2>3, <2>4, RootFrame DEF DualTrustExtended, TypeOK, ConfigMap
<1>9. CASE AwaitingTier1
    <2>1. [cached EXCEPT !.reissued = "False"] \in RootStatus
        BY DEF TypeOK, RootStatus, RootPhases, Conditions, None
    <2>2. status' \in RootStatus /\ cached' \in RootStatus /\ disruptions' \in Nat
        BY <1>9, <2>1, UpdateType DEF AwaitingTier1, Condition
    <2> QED BY <1>9, <2>1, <2>2, RootFrame DEF AwaitingTier1, TypeOK, ConfigMap
<1>10. CASE AwaitingTier2
    <2>1. [cached EXCEPT !.reissued = "False"] \in RootStatus
        BY DEF TypeOK, RootStatus, RootPhases, Conditions, None
    <2>2. status' \in RootStatus /\ cached' \in RootStatus /\ disruptions' \in Nat
        BY <1>10, <2>1, UpdateType DEF AwaitingTier2, Condition
    <2>3. issuing' \subseteq Certs
        BY <1>10 DEF AwaitingTier2, Trigger, Certs, TypeOK, Tier2Predating, Tier2
    <2> QED BY <1>10, <2>1, <2>2, <2>3, RootFrame DEF AwaitingTier2, TypeOK, ConfigMap
<1>11. CASE AwaitingTier2Reissued
    <2>1. [cached EXCEPT !.reissued = "True", !.phase = "VerifyingChain"] \in RootStatus
        BY DEF TypeOK, RootStatus, RootPhases, Conditions, None
    <2>2. status' \in RootStatus /\ cached' \in RootStatus /\ disruptions' \in Nat
        BY <1>11, <2>1, UpdateType DEF AwaitingTier2Reissued
    <2>3. issuing' \subseteq Certs
        BY <1>11 DEF AwaitingTier2Reissued, Trigger, Certs, TypeOK, TrackedLeaves
    <2> QED BY <1>11, <2>1, <2>2, <2>3, RootFrame DEF AwaitingTier2Reissued, TypeOK, ConfigMap
<1>12. CASE VerifyTier1Fails
    <2>1. [cached EXCEPT !.verified = "False"] \in RootStatus
        BY DEF TypeOK, RootStatus, RootPhases, Conditions, None
    <2>2. status' \in RootStatus /\ cached' \in RootStatus /\ disruptions' \in Nat
        BY <1>12, <2>1, UpdateType DEF VerifyTier1Fails, Condition
    <2> QED BY <1>12, <2>1, <2>2, RootFrame DEF VerifyTier1Fails, TypeOK, ConfigMap
<1>13. ASSUME NEW c \in Tier2, VerifyTier2Fails(c) PROVE TypeOK'
    <2>1. [cached EXCEPT !.verified = "False"] \in RootStatus
        BY DEF TypeOK, RootStatus, RootPhases, Conditions, None
    <2>2. status' \in RootStatus /\ cached' \in RootStatus /\ disruptions' \in Nat
        BY <1>13, <2>1, UpdateType DEF VerifyTier2Fails, Condition
    <2>3. issuing' \subseteq Certs
        BY <1>13, AttemptsSubset DEF VerifyTier2Fails, Trigger, Certs, TypeOK, Tier2, Retrigger
    <2> QED BY <1>13, <2>1, <2>2, <2>3, RootFrame DEF VerifyTier2Fails, TypeOK, ConfigMap
<1>14. ASSUME NEW l \in TrackedLeaves, VerifyLeafFails(l) PROVE TypeOK'
    <2>1. [cached EXCEPT !.verified = "False"] \in RootStatus
        BY DEF TypeOK, RootStatus, RootPhases, Conditions, None
    <2>2. status' \in RootStatus /\ cached' \in RootStatus /\ disruptions' \in Nat
        BY <1>14, <2>1, UpdateType DEF VerifyLeafFails, Condition
    <2>3. issuing' \subseteq Certs
        BY <1>14, AttemptsSubset DEF VerifyLeafFails, Trigger, Certs, TypeOK, TrackedLeaves, Retrigger
    <2> QED BY <1>14, <2>1, <2>2, <2>3, RootFrame DEF VerifyLeafFails, TypeOK, ConfigMap
<1>15. CASE VerifyPasses
    <2>1. [cached EXCEPT !.verified = "True", !.phase = "Complete"] \in RootStatus
        BY DEF TypeOK, RootStatus, RootPhases, Conditions, None
    <2>2. status' \in RootStatus /\ cached' \in RootStatus /\ disruptions' \in Nat
        BY <1>15, <2>1, UpdateType DEF VerifyPasses
    <2> QED BY <1>15, <2>1, <2>2, RootFrame DEF VerifyPasses, TypeOK, ConfigMap
<1>16. CASE Complete
    <2>1. [cached EXCEPT !.prev = None, !.phase = "Idle"] \in RootStatus
        BY DEF TypeOK, RootStatus, RootPhases, Conditions, None
    <2>2. status' \in RootStatus /\ cached' \in RootStatus /\ disruptions' \in Nat
        BY <1>16, <2>1, UpdateType DEF Complete
    <2>3. staging' \in ConfigMap
        BY <1>16, TrimType DEF Complete
    <2>4. child' \in [CAs -> Child]
        BY <1>16, SyncType DEF Complete
    <2> QED BY <1>16, <2>1, <2>2, <2>3, <2>4, RootFrame DEF Complete, TypeOK, ConfigMap
<1> QED
    BY <1>1, <1>2, <1>3, <1>4, <1>5, <1>6, <1>7, <1>8, <1>9, <1>10, <1>11, <1>12, <1>13, <1>14, <1>15, <1>16 DEF ReconcileRoot

(* So does a handler of the root that was cut off. *)
LEMMA TypeRootInterrupted == TypeOK /\ RootInterrupted => TypeOK'
<1> SUFFICES ASSUME TypeOK, RootInterrupted PROVE TypeOK'
    OBVIOUS
<1>1. CASE IdleInterrupted
    <2>1. staging' \in ConfigMap
        BY <1>1, EnsureStagingType DEF IdleInterrupted, TypeOK, ConfigMap
    <2>2. disruptions' \in Nat
        BY <1>1 DEF IdleInterrupted, Disrupt, TypeOK
    <2> QED BY <1>1, <2>1, <2>2, RootFrame DEF IdleInterrupted, TypeOK
<1>2. CASE DualTrustBlocked
    <2>1. [cached EXCEPT !.dual = "False"] \in RootStatus
        BY DEF TypeOK, RootStatus, Conditions
    <2>2. status' \in RootStatus /\ cached' \in RootStatus /\ disruptions' \in Nat
        BY <1>2, <2>1, UpdateType DEF DualTrustBlocked, Condition
    <2> QED BY <1>2, <2>2, RootFrame DEF DualTrustBlocked, TypeOK, ConfigMap
<1>3. CASE DualTrustInterrupted
    <2>1. staging' \in ConfigMap
        BY <1>3, ExtendType DEF DualTrustInterrupted
    <2>2. disruptions' \in Nat
        BY <1>3 DEF DualTrustInterrupted, Disrupt, TypeOK
    <2>3. issuing' \subseteq Certs
        BY <1>3 DEF DualTrustInterrupted, Trigger, Tier1, Certs, TypeOK
    <2> QED BY <1>3, <2>1, <2>2, <2>3, RootFrame DEF DualTrustInterrupted, TypeOK
<1>4. CASE AwaitingInterrupted
    <2>1. disruptions' \in Nat
        BY <1>4 DEF AwaitingInterrupted, Disrupt, TypeOK
    <2>2. issuing' \subseteq Certs
        BY <1>4 DEF AwaitingInterrupted, Trigger, Tier2Predating, Tier2, TrackedLeaves, Certs, TypeOK
    <2> QED BY <1>4, <2>1, <2>2, RootFrame DEF AwaitingInterrupted, TypeOK, ConfigMap
<1>5. CASE CompleteInterrupted
    <2>1. staging' \in ConfigMap
        BY <1>5, TrimType DEF CompleteInterrupted
    <2>2. disruptions' \in Nat
        BY <1>5 DEF CompleteInterrupted, Disrupt, TypeOK
    <2>3. child' \in [CAs -> Child]
        BY <1>5, SyncType DEF CompleteInterrupted
    <2> QED BY <1>5, <2>1, <2>2, <2>3, RootFrame DEF CompleteInterrupted, TypeOK
<1> QED BY <1>1, <1>2, <1>3, <1>4, <1>5 DEF RootInterrupted

---------------------------------------------------------------------------
(* The children's handlers. *)

(* What a handler of a child does not touch keeps its type. *)
LEMMA ChildFrame ==
    ASSUME TypeOK, NEW c \in CAs, UNCHANGED childHandlerEnv, issuing' \subseteq Certs,
           NEW new \in Child, child' = child \/ UpdateChild(c, new), disruptions' \in Nat
    PROVE  TypeOK'
<1>1. child' \in [CAs -> Child]
    BY DEF UpdateChild, TypeOK
<1> QED BY <1>1 DEF TypeOK, childHandlerEnv, rootVars, trustVars

(* A child's sweep triggers Certificates only. *)
LEMMA SweepChildType ==
    ASSUME TypeOK, NEW c, SweepIntermediateChildren(c) PROVE issuing' \subseteq Certs
BY StaleChildrenType, AttemptsSubset DEF SweepIntermediateChildren, Trigger, TypeOK

(* The downstream search finds Certificates. *)
LEMMA BelowSubset == ASSUME NEW p PROVE Below(p) \subseteq Certs
BY DEF Below

(* A child writes only phases of its own role. *)
LEMMA TypeReconcileChild ==
    ASSUME TypeOK, NEW c \in CAs, ReconcileChild(c) PROVE TypeOK'
<1>1. CASE ChildBaseline(c)
    <2>1. [child[c] EXCEPT !.cur = SKID(c), !.phase = "Idle"] \in Child
        BY ReadTypes DEF TypeOK, Child, ChildPhases, Conditions
    <2>2. issuing' \subseteq Certs
        BY <1>1, SweepChildType DEF ChildBaseline
    <2> QED BY <1>1, <2>1, <2>2, ChildFrame DEF ChildBaseline, TypeOK
<1>2. CASE ChildQuiet(c)
    <2>1. [child[c] EXCEPT !.phase = "Idle"] \in Child
        BY ReadTypes DEF TypeOK, Child, ChildPhases, Conditions
    <2>2. issuing' \subseteq Certs
        BY <1>2, SweepChildType DEF ChildQuiet
    <2> QED BY <1>2, <2>1, <2>2, ChildFrame DEF ChildQuiet, TypeOK
<1>3. CASE ChildYields(c)
    <2>1. [child[c] EXCEPT !.cur = SKID(c), !.phase = "Idle"] \in Child
        BY ReadTypes DEF TypeOK, Child, ChildPhases, Conditions
    <2> QED BY <1>3, <2>1, ChildFrame DEF ChildYields, TypeOK
<1>4. CASE ChildCascades(c)
    <2>1. [child[c] EXCEPT !.cur = SKID(c), !.phase = "AwaitingReissuance"] \in Child
        BY ReadTypes DEF TypeOK, Child, ChildPhases, Conditions
    <2> QED BY <1>4, <2>1, ChildFrame DEF ChildCascades, TypeOK
<1>5. CASE ChildDrift(c)
    <2>1. [child[c] EXCEPT !.phase = "Idle"] \in Child
        BY ReadTypes DEF TypeOK, Child, ChildPhases, Conditions
    <2> QED BY <1>5, <2>1, ChildFrame DEF ChildDrift, TypeOK
<1>6. CASE ChildTriggers(c)
    <2>1. [child[c] EXCEPT !.reissued = "False", !.phase = "VerifyingChain"] \in Child
        BY ReadTypes DEF TypeOK, Child, ChildPhases, Conditions
    <2>2. issuing' \subseteq Certs
        BY <1>6, BelowSubset DEF ChildTriggers, Trigger, TypeOK, Signers
    <2> QED BY <1>6, <2>1, <2>2, ChildFrame DEF ChildTriggers, TypeOK
<1>7. CASE ChildPending(c)
    <2>1. [child[c] EXCEPT !.verified = "False"] \in Child
        BY ReadTypes DEF TypeOK, Child, ChildPhases, Conditions
    <2>2. Outdated(c) \cup Mismatched(c) \subseteq Certs
        BY BelowSubset DEF Outdated, Mismatched, Children, Signers
    <2>3. issuing' \subseteq Certs
        BY <1>7, <2>2, AttemptsSubset DEF ChildPending, Retrigger, Trigger, TypeOK
    <2> QED BY <1>7, <2>1, <2>3, ChildFrame DEF ChildPending, TypeOK
<1>8. CASE ChildVerified(c)
    <2>1. [child[c] EXCEPT !.reissued = "True", !.verified = "True", !.phase = "Complete"] \in Child
        BY ReadTypes DEF TypeOK, Child, ChildPhases, Conditions
    <2> QED BY <1>8, <2>1, ChildFrame DEF ChildVerified, TypeOK
<1>9. CASE ChildCompletes(c)
    <2>1. [child[c] EXCEPT !.phase = "Idle"] \in Child
        BY ReadTypes DEF TypeOK, Child, ChildPhases, Conditions
    <2> QED BY <1>9, <2>1, ChildFrame DEF ChildCompletes, TypeOK
<1> QED BY <1>1, <1>2, <1>3, <1>4, <1>5, <1>6, <1>7, <1>8, <1>9 DEF ReconcileChild

(* A child that was cut off keeps the types. *)
LEMMA TypeChildInterrupted ==
    ASSUME TypeOK, NEW c \in CAs, ChildInterrupted(c) PROVE TypeOK'
<1>1. disruptions' \in Nat
    BY DEF ChildInterrupted, Disrupt, TypeOK
<1>2. issuing' \subseteq Certs
    BY BelowSubset DEF ChildInterrupted, Trigger, TypeOK, Signers
<1>3. child[c] \in Child
    BY DEF TypeOK
<1> QED BY <1>1, <1>2, <1>3, ChildFrame DEF ChildInterrupted

---------------------------------------------------------------------------
(* Every step keeps the type invariant. *)
LEMMA TypeNext == TypeOK /\ [Next]_vars => TypeOK'
<1> SUFFICES ASSUME TypeOK, [Next]_vars PROVE TypeOK'
    OBVIOUS
<1>1. CASE OperatorStep
    BY <1>1, TypeReconcileRoot, TypeRootInterrupted, TypeReconcileChild, TypeChildInterrupted
    DEF OperatorStep
<1>2. CASE EnvironmentStep
    BY <1>2, TypeEnvironment
<1>3. CASE UNCHANGED vars
    BY <1>3 DEF vars, rootVars, certVars, trustVars, crdVars, TypeOK
<1> QED BY <1>1, <1>2, <1>3 DEF Next

(* Every variable keeps its type: the phases a handler writes are phases of its role, and
   the staging ConfigMap stays a sequence of PEMs through every append and trim. *)
THEOREM TypeCorrect == Spec => []TypeOK
BY TypeInit, TypeNext, PTL DEF Spec

---------------------------------------------------------------------------
(* The inductive invariant behind TrimKeepsTier1Anchors. *)

(* More keys and younger certificates do not undo what a status says. *)
LEMMA LeavesBehindMonotone ==
    ASSUME NEW st \in RootStatus, NEW key \in Nat, NEW key2 \in Nat, key <= key2,
           NEW cs \in [Certs -> Certificate], NEW cs2 \in [Certs -> Certificate],
           \A t \in Tier1 : cs[t].akid <= cs2[t].akid,
           LeavesBehind(st, key, cs)
    PROVE  LeavesBehind(st, key2, cs2)
<1>1. st.cur \in Nat /\ st.prev \in Nat
    BY DEF RootStatus
<1>2. \A t \in Tier1 : cs[t].akid \in Nat /\ cs2[t].akid \in Nat
    BY DEF Tier1, Certs, Certificate
<1> QED BY <1>1, <1>2 DEF LeavesBehind

(* An adopted ConfigMap holds the keys StagingAtInstall names. *)
LEMMA InstalledStagingKeys ==
    /\ Keys(InstalledPEM(1) \o InstalledPEM(2)) \subseteq StagingAtInstall
    /\ StagingAtInstall # {} => Keys(InstalledPEM(1) \o InstalledPEM(2)) # {}
<1> DEFINE pems == InstalledPEM(1) \o InstalledPEM(2)
<1>1. ASSUME NEW k \in Nat
      PROVE  /\ InstalledPEM(k) \in Seq(PEM)
             /\ Len(InstalledPEM(k)) = IF k \in StagingAtInstall THEN 1 ELSE 0
             /\ \A i \in 1 .. Len(InstalledPEM(k)) :
                   InstalledPEM(k)[i].key = k /\ k \in StagingAtInstall
    <2>1. [key |-> k, serial |-> k] \in PEM
        BY DEF PEM
    <2> QED BY <2>1 DEF InstalledPEM
<1>2. /\ pems \in Seq(PEM)
      /\ Len(pems) = Len(InstalledPEM(1)) + Len(InstalledPEM(2))
      /\ \A i \in 1 .. Len(InstalledPEM(1)) + Len(InstalledPEM(2)) :
            pems[i] = IF i <= Len(InstalledPEM(1)) THEN InstalledPEM(1)[i]
                      ELSE InstalledPEM(2)[i - Len(InstalledPEM(1))]
    BY <1>1, ConcatProperties
<1>3. DOMAIN pems = 1 .. Len(pems)
    BY <1>2
<1> HIDE DEF pems
<1>4. ASSUME NEW i \in 1 .. Len(pems) PROVE pems[i].key \in StagingAtInstall
    <2>1. /\ InstalledPEM(1) \in Seq(PEM) /\ InstalledPEM(2) \in Seq(PEM)
          /\ Len(InstalledPEM(1)) \in Nat /\ Len(InstalledPEM(2)) \in Nat
        BY <1>1
    <2>2. CASE i <= Len(InstalledPEM(1))
        <3>1. i \in 1 .. Len(InstalledPEM(1)) /\ pems[i] = InstalledPEM(1)[i]
            BY <1>2, <2>1, <2>2
        <3> QED BY <1>1, <3>1
    <2>3. CASE ~(i <= Len(InstalledPEM(1)))
        <3>1. /\ i - Len(InstalledPEM(1)) \in 1 .. Len(InstalledPEM(2))
              /\ pems[i] = InstalledPEM(2)[i - Len(InstalledPEM(1))]
            BY <1>2, <2>1, <2>3
        <3>2. InstalledPEM(2)[i - Len(InstalledPEM(1))].key = 2 /\ 2 \in StagingAtInstall
            BY <1>1, <3>1
        <3> QED BY <3>1, <3>2
    <2> QED BY <2>2, <2>3
<1>5. Keys(pems) \subseteq StagingAtInstall
    BY <1>3, <1>4 DEF Keys
<1>6. ASSUME StagingAtInstall # {} PROVE Keys(pems) # {}
    <2>1. 1 \in StagingAtInstall \/ 2 \in StagingAtInstall
        BY <1>6, StagingAssumption
    <2>2. /\ Len(InstalledPEM(1)) = IF 1 \in StagingAtInstall THEN 1 ELSE 0
          /\ Len(InstalledPEM(2)) = IF 2 \in StagingAtInstall THEN 1 ELSE 0
        BY <1>1
    <2>3. Len(pems) > 0 /\ Len(pems) \in Nat
        BY <1>2, <2>1, <2>2
    <2>4. 1 \in DOMAIN pems
        BY <1>3, <2>3
    <2> QED BY <2>4 DEF Keys
<1> QED BY <1>5, <1>6 DEF pems

(* Nothing is left behind at installation. *)
LEMMA TrimInit ==
    ASSUME "configMapLag" \notin Env, Init PROVE TrimInv
<1>1. TypeOK
    BY TypeInit
<1>2. root.key = InstalledKey(Root) /\ root.serial = InstalledKey(Root)
    BY DEF Init
<1>3. loaded[Root].key = InstalledKey(Root)
    BY DEF Init, Signers
<1>4. InstalledKey(Root) \in Nat
    BY DEF InstalledKey
<1>5. SigningWith(Root).key = InstalledKey(Root) /\ RootSecret.key = InstalledKey(Root)
    BY <1>2, <1>3 DEF SigningWith, LiveSigner, RootSecret, Init
<1>6. ASSUME NEW t \in Tier1 PROVE crt[t].akid <= InstalledKey(Root)
    <2>1. t \in Certs /\ Parent[t] = Root
        BY DEF Tier1, Certs
    <2>2. crt[t].akid = InstalledCertificate(t).akid
        BY <2>1 DEF Init
    <2> QED BY <2>1, <2>2 DEF InstalledCertificate, InstalledKey
<1>7. SignedUpTo
    BY <1>2, <1>3, <1>4, <1>5, <1>6 DEF SignedUpTo
<1>8. status.phase = "" /\ status.cur = None /\ status.prev = None /\ cached = status
    BY DEF Init
<1>9. LeavesBehind(status, RootSecret.key, crt) /\ LeavesBehind(cached, RootSecret.key, crt)
    <2>1. status.cur <= RootSecret.key /\ status.prev <= RootSecret.key
        <3>1. RootSecret.key \in Nat
            BY <1>4, <1>5
        <3>2. status.cur = 0 /\ status.prev = 0
            BY <1>8 DEF None
        <3> QED BY <3>1, <3>2
    <2>2. LeavesBehind(status, RootSecret.key, crt)
        BY <2>1, <1>8 DEF LeavesBehind
    <2> QED BY <2>2, <1>8
<1>10. StagedWithin(staging, RootSecret.key)
    <2>1. staging = InstalledStaging
        BY DEF Init
    <2>2. CASE StagingAtInstall = {}
        <3>1. InstalledPEM(1) = <<>> /\ InstalledPEM(2) = <<>>
            BY <2>2 DEF InstalledPEM
        <3>2. staging.pems = <<>>
            BY <2>1, <3>1 DEF InstalledStaging
        <3> QED BY <3>2 DEF StagedWithin, Keys
    <2>3. CASE StagingAtInstall # {}
        <3>1. Keys(staging.pems) \subseteq StagingAtInstall
            BY <2>1, InstalledStagingKeys DEF InstalledStaging
        <3>2. \A k \in StagingAtInstall : k <= InstalledKey(Root)
            BY StagingAssumption DEF InstalledKey
        <3> QED BY <1>5, <2>1, <2>3, <3>1, <3>2 DEF InstalledStaging, StagedWithin
    <2> QED BY <2>2, <2>3
<1> QED BY <1>1, <1>7, <1>9, <1>10 DEF TrimInv

(* The operator issues nothing and renews no root: its steps keep what was signed, and a
   handler's invariant is that of the statuses it writes. *)
LEMMA OperatorTrimFrame ==
    ASSUME TrimInv, TypeOK', UNCHANGED <<root, crt, loaded, seen>>,
           StagedWithin(staging', RootSecret.key),
           LeavesBehind(status', RootSecret.key, crt), LeavesBehind(cached', RootSecret.key, crt)
    PROVE  TrimInv'
BY DEF TrimInv, SignedUpTo, SigningWith, LiveSigner, RootSecret

(* After an update both the object and the copy are what they were or what was
   written. *)
LEMMA UpdateOutcome ==
    ASSUME NEW new, Update(new)
    PROVE  \/ cached = status /\ status' = new /\ cached' \in {new, cached}
           \/ status' = status /\ cached' = cached
BY DEF Update, Written, Conflicted

(* A created ConfigMap holds the root PEM, and one that is there is left alone. *)
LEMMA EnsureKeepsKeys ==
    ASSUME TrimInv, EnsureStagingConfigMap
    PROVE  /\ staging'.exists
           /\ StagedKeys' = IF staging.exists THEN StagedKeys ELSE {RootSecret.key}
           /\ StagedKeys \subseteq StagedKeys'
           /\ StagedWithin(staging', RootSecret.key)
<1>0. StagingSeen = staging /\ RootSecret.key \in Nat
    BY ReadTypes DEF TrimInv, StagingSeen
<1>1. CASE staging.exists
    BY <1>0, <1>1 DEF EnsureStagingConfigMap, StagedKeys, TrimInv
<1>2. CASE ~staging.exists
    <2>1. staging' = [exists |-> TRUE, pems |-> <<RootPEM>>]
        BY <1>0, <1>2 DEF EnsureStagingConfigMap
    <2>2. Keys(staging'.pems) = {RootSecret.key}
        BY <2>1 DEF Keys, RootPEM
    <2>3. StagedKeys = {}
        BY <1>2 DEF TrimInv, StagedWithin, StagedKeys
    <2> QED BY <1>0, <1>2, <2>1, <2>2, <2>3 DEF StagedKeys, StagedWithin
<1> QED BY <1>1, <1>2

(* A patch of a current copy replaces the PEMs. *)
LEMMA PatchOutcome ==
    ASSUME TrimInv, NEW pems, PatchStaging(pems)
    PROVE  staging.exists /\ staging'.exists /\ staging'.pems = pems
<1>1. StagingSeen = staging
    BY DEF TrimInv, StagingSeen
<1> QED BY <1>1 DEF PatchStaging, TrimInv, TypeOK, ConfigMap

(* extendStagingConfigMap takes no root away and adds the present one. *)
LEMMA ExtendKeepsKeys ==
    ASSUME TrimInv, ExtendStagingConfigMap
    PROVE  /\ staging.exists /\ staging'.exists
           /\ StagedKeys' = StagedKeys \cup {RootSecret.key}
           /\ StagedWithin(staging', RootSecret.key)
<1>1. StagingSeen = staging /\ staging.pems \in Seq(PEM)
    BY DEF TrimInv, TypeOK, StagingSeen, ConfigMap
<1>2. RootPEM \in PEM /\ RootPEM.key = RootSecret.key /\ RootSecret.key \in Nat
    BY ReadTypes DEF TrimInv, RootPEM
<1>3. /\ staging.exists /\ staging'.exists
      /\ staging'.pems = AppendPEM(staging.pems, RootPEM)
    BY <1>1, PatchOutcome DEF ExtendStagingConfigMap
<1>4. Keys(staging'.pems) = Keys(staging.pems) \cup {RootSecret.key}
    BY <1>1, <1>2, <1>3, AppendPEMKeys
<1> QED BY <1>2, <1>3, <1>4 DEF StagedKeys, StagedWithin, TrimInv

(* trimStagingConfigMap takes away no root but the previous one, and adds none. *)
LEMMA TrimKeepsOtherKeys ==
    ASSUME TrimInv, TrimStagingConfigMap
    PROVE  /\ StagedWithin(staging', RootSecret.key)
           /\ StagedKeys \ {cached.prev} \subseteq StagedKeys'
           /\ StagedKeys' \subseteq StagedKeys
           /\ UNCHANGED staging \/ (staging.exists /\ staging'.exists)
<1>0. StagedWithin(staging, RootSecret.key)
    BY DEF TrimInv
<1>1. CASE cached.prev = None /\ UNCHANGED staging
    BY <1>0, <1>1 DEF StagedKeys
<1>2. CASE PatchStaging(RemovePEMBySKID(StagingSeen.pems, cached.prev))
    <2>1. /\ StagingSeen = staging /\ staging.pems \in Seq(PEM) /\ cached.prev \in Nat
        BY DEF TrimInv, TypeOK, RootStatus, StagingSeen, ConfigMap
    <2>2. /\ staging.exists /\ staging'.exists
          /\ staging'.pems = RemovePEMBySKID(staging.pems, cached.prev)
        BY <1>2, <2>1, PatchOutcome
    <2>3. /\ Keys(staging.pems) \ {cached.prev} \subseteq Keys(staging'.pems)
          /\ Keys(staging'.pems) \subseteq Keys(staging.pems)
        BY <2>1, <2>2, RemovePEMKeys
    <2> QED BY <1>0, <2>2, <2>3 DEF StagedKeys, StagedWithin
<1> QED BY <1>1, <1>2 DEF TrimStagingConfigMap

(* The handlers of the root preserve what the trim relies on. *)
LEMMA TrimReconcileRoot == TrimInv /\ TypeOK' /\ ReconcileRoot => TrimInv'
<1> SUFFICES ASSUME TrimInv, TypeOK', ReconcileRoot PROVE TrimInv'
    OBVIOUS
<1>0. /\ LeavesBehind(status, RootSecret.key, crt)
      /\ LeavesBehind(cached, RootSecret.key, crt)
      /\ cached \in RootStatus /\ RootSecret.key \in Nat
    BY ReadTypes DEF TrimInv, TypeOK
<1>1. CASE InitialisePhase
    <2>1. LeavesBehind([cached EXCEPT !.phase = "Idle"], RootSecret.key, crt)
        BY <1>1, <1>0 DEF InitialisePhase, LeavesBehind, RootStatus, None
    <2>2. LeavesBehind(status', RootSecret.key, crt) /\ LeavesBehind(cached', RootSecret.key, crt)
        BY <1>1, <1>0, <2>1, UpdateOutcome DEF InitialisePhase
    <2>3. StagedWithin(staging', RootSecret.key)
        BY <1>1 DEF InitialisePhase, TrimInv, StagedKeys
    <2> QED BY <1>1, <2>2, <2>3, OperatorTrimFrame DEF InitialisePhase, rootHandlerEnv, rootVars
<1>2. CASE IdleSKIDChanged
    <2>1. LeavesBehind([cached EXCEPT !.prev = cached.cur, !.cur = RootSecret.key, !.phase = "PreservingOldRoot"], RootSecret.key, crt)
        BY <1>2, <1>0 DEF IdleSKIDChanged, Idle, LeavesBehind, RootStatus, None
    <2>2. LeavesBehind(status', RootSecret.key, crt) /\ LeavesBehind(cached', RootSecret.key, crt)
        BY <1>2, <1>0, <2>1, UpdateOutcome DEF IdleSKIDChanged
    <2>3. StagedWithin(staging', RootSecret.key)
        BY <1>2, EnsureKeepsKeys DEF IdleSKIDChanged, EnsureTrustAnchors
    <2> QED BY <1>2, <2>2, <2>3, OperatorTrimFrame DEF IdleSKIDChanged, rootHandlerEnv, rootVars
<1>3. CASE IdleBaseline
    <2>1. LeavesBehind([cached EXCEPT !.cur = RootSecret.key], RootSecret.key, crt)
        BY <1>3, <1>0 DEF IdleBaseline, Idle, LeavesBehind, RootStatus, None
    <2>2. LeavesBehind(status', RootSecret.key, crt) /\ LeavesBehind(cached', RootSecret.key, crt)
        BY <1>3, <1>0, <2>1, UpdateOutcome DEF IdleBaseline
    <2>3. StagedWithin(staging', RootSecret.key)
        BY <1>3, EnsureKeepsKeys DEF IdleBaseline, EnsureTrustAnchors
    <2> QED BY <1>3, <2>2, <2>3, OperatorTrimFrame DEF IdleBaseline, rootHandlerEnv, rootVars
<1>4. CASE IdleRequestDetected
    <2>1. LeavesBehind([cached EXCEPT !.prev = RootSecret.key, !.phase = "PreservingOldRoot"], RootSecret.key, crt)
        BY <1>4, <1>0 DEF IdleRequestDetected, LeavesBehind, RootStatus, None
    <2>2. LeavesBehind(status', RootSecret.key, crt) /\ LeavesBehind(cached', RootSecret.key, crt)
        BY <1>4, <1>0, <2>1, UpdateOutcome DEF IdleRequestDetected
    <2>3. StagedWithin(staging', RootSecret.key)
        BY <1>4, EnsureKeepsKeys DEF IdleRequestDetected, EnsureTrustAnchors
    <2> QED BY <1>4, <2>2, <2>3, OperatorTrimFrame DEF IdleRequestDetected, rootHandlerEnv, rootVars
<1>5. CASE IdleQuiet
    <2>1. LeavesBehind(status', RootSecret.key, crt) /\ LeavesBehind(cached', RootSecret.key, crt)
        BY <1>5, <1>0 DEF IdleQuiet
    <2>2. StagedWithin(staging', RootSecret.key)
        BY <1>5, EnsureKeepsKeys DEF IdleQuiet, EnsureTrustAnchors
    <2> QED BY <1>5, <2>1, <2>2, OperatorTrimFrame DEF IdleQuiet, rootHandlerEnv, rootVars
<1>6. CASE PreservingAbort
    <2>1. LeavesBehind([cached EXCEPT !.prev = None, !.phase = "Idle"], RootSecret.key, crt)
        BY <1>6, <1>0 DEF PreservingAbort, LeavesBehind, RootStatus, None
    <2>2. LeavesBehind(status', RootSecret.key, crt) /\ LeavesBehind(cached', RootSecret.key, crt)
        BY <1>6, <1>0, <2>1, UpdateOutcome DEF PreservingAbort
    <2>3. StagedWithin(staging', RootSecret.key)
        BY <1>6 DEF PreservingAbort, TrimInv, StagedKeys
    <2> QED BY <1>6, <2>2, <2>3, OperatorTrimFrame DEF PreservingAbort, rootHandlerEnv, rootVars
<1>7. CASE PreservingRenewed
    <2>1. LeavesBehind([cached EXCEPT !.cur = RootSecret.key, !.phase = "DualTrustActive"], RootSecret.key, crt)
        BY <1>7, <1>0 DEF PreservingRenewed, Preserving, LeavesBehind, RootStatus, None
    <2>2. LeavesBehind(status', RootSecret.key, crt) /\ LeavesBehind(cached', RootSecret.key, crt)
        BY <1>7, <1>0, <2>1, UpdateOutcome DEF PreservingRenewed
    <2>3. StagedWithin(staging', RootSecret.key)
        BY <1>7 DEF PreservingRenewed, TrimInv, StagedKeys
    <2> QED BY <1>7, <2>2, <2>3, OperatorTrimFrame DEF PreservingRenewed, rootHandlerEnv, rootVars
<1>8. CASE DualTrustExtended
    <2>1. LeavesBehind([cached EXCEPT !.dual = "True", !.reissued = "False", !.phase = "AwaitingReissuance"], RootSecret.key, crt)
        BY <1>8, <1>0 DEF DualTrustExtended, LeavesBehind, RootStatus, None
    <2>2. LeavesBehind(status', RootSecret.key, crt) /\ LeavesBehind(cached', RootSecret.key, crt)
        BY <1>8, <1>0, <2>1, UpdateOutcome DEF DualTrustExtended
    <2>3. StagedWithin(staging', RootSecret.key)
        BY <1>8, ExtendKeepsKeys DEF DualTrustExtended
    <2> QED BY <1>8, <2>2, <2>3, OperatorTrimFrame DEF DualTrustExtended, rootHandlerEnv, rootVars
<1>9. CASE AwaitingTier1
    <2>1. LeavesBehind([cached EXCEPT !.reissued = "False"], RootSecret.key, crt)
        BY <1>9, <1>0 DEF AwaitingTier1, Awaiting, LeavesBehind, RootStatus, None
    <2>2. LeavesBehind(status', RootSecret.key, crt) /\ LeavesBehind(cached', RootSecret.key, crt)
        BY <1>9, <1>0, <2>1, UpdateOutcome DEF AwaitingTier1, Condition
    <2>3. StagedWithin(staging', RootSecret.key)
        BY <1>9 DEF AwaitingTier1, TrimInv, StagedKeys
    <2> QED BY <1>9, <2>2, <2>3, OperatorTrimFrame DEF AwaitingTier1, rootHandlerEnv, rootVars
<1>10. CASE AwaitingTier2
    <2>1. LeavesBehind([cached EXCEPT !.reissued = "False"], RootSecret.key, crt)
        BY <1>10, <1>0 DEF AwaitingTier2, Awaiting, LeavesBehind, RootStatus, None
    <2>2. LeavesBehind(status', RootSecret.key, crt) /\ LeavesBehind(cached', RootSecret.key, crt)
        BY <1>10, <1>0, <2>1, UpdateOutcome DEF AwaitingTier2, Condition
    <2>3. StagedWithin(staging', RootSecret.key)
        BY <1>10 DEF AwaitingTier2, TrimInv, StagedKeys
    <2> QED BY <1>10, <2>2, <2>3, OperatorTrimFrame DEF AwaitingTier2, rootHandlerEnv, rootVars
<1>11. CASE AwaitingTier2Reissued
    <2>1. LeavesBehind([cached EXCEPT !.reissued = "True", !.phase = "VerifyingChain"], RootSecret.key, crt)
        BY <1>11, <1>0 DEF AwaitingTier2Reissued, Awaiting, LeavesBehind, RootStatus, None
    <2>2. LeavesBehind(status', RootSecret.key, crt) /\ LeavesBehind(cached', RootSecret.key, crt)
        BY <1>11, <1>0, <2>1, UpdateOutcome DEF AwaitingTier2Reissued
    <2>3. StagedWithin(staging', RootSecret.key)
        BY <1>11 DEF AwaitingTier2Reissued, TrimInv, StagedKeys
    <2> QED BY <1>11, <2>2, <2>3, OperatorTrimFrame DEF AwaitingTier2Reissued, rootHandlerEnv, rootVars
<1>12. CASE VerifyTier1Fails
    <2>1. LeavesBehind([cached EXCEPT !.verified = "False"], RootSecret.key, crt)
        BY <1>12, <1>0 DEF VerifyTier1Fails, Verifying, LeavesBehind, RootStatus, None
    <2>2. LeavesBehind(status', RootSecret.key, crt) /\ LeavesBehind(cached', RootSecret.key, crt)
        BY <1>12, <1>0, <2>1, UpdateOutcome DEF VerifyTier1Fails, Condition
    <2>3. StagedWithin(staging', RootSecret.key)
        BY <1>12 DEF VerifyTier1Fails, TrimInv, StagedKeys
    <2> QED BY <1>12, <2>2, <2>3, OperatorTrimFrame DEF VerifyTier1Fails, rootHandlerEnv, rootVars
<1>13. ASSUME NEW c \in Tier2, VerifyTier2Fails(c) PROVE TrimInv'
    <2>1. LeavesBehind([cached EXCEPT !.verified = "False"], RootSecret.key, crt)
        BY <1>13, <1>0 DEF VerifyTier2Fails, Verifying, LeavesBehind, RootStatus, None
    <2>2. LeavesBehind(status', RootSecret.key, crt) /\ LeavesBehind(cached', RootSecret.key, crt)
        BY <1>13, <1>0, <2>1, UpdateOutcome DEF VerifyTier2Fails, Condition
    <2>3. StagedWithin(staging', RootSecret.key)
        BY <1>13 DEF VerifyTier2Fails, TrimInv, StagedKeys
    <2> QED BY <1>13, <2>2, <2>3, OperatorTrimFrame DEF VerifyTier2Fails, rootHandlerEnv, rootVars
<1>14. ASSUME NEW l \in TrackedLeaves, VerifyLeafFails(l) PROVE TrimInv'
    <2>1. LeavesBehind([cached EXCEPT !.verified = "False"], RootSecret.key, crt)
        BY <1>14, <1>0 DEF VerifyLeafFails, Verifying, LeavesBehind, RootStatus, None
    <2>2. LeavesBehind(status', RootSecret.key, crt) /\ LeavesBehind(cached', RootSecret.key, crt)
        BY <1>14, <1>0, <2>1, UpdateOutcome DEF VerifyLeafFails, Condition
    <2>3. StagedWithin(staging', RootSecret.key)
        BY <1>14 DEF VerifyLeafFails, TrimInv, StagedKeys
    <2> QED BY <1>14, <2>2, <2>3, OperatorTrimFrame DEF VerifyLeafFails, rootHandlerEnv, rootVars
<1>15. CASE VerifyPasses
    <2>1. \A t \in Tier1 : crt[t].akid > cached.prev
        BY <1>15, <1>0 DEF VerifyPasses, Verifying, Tier1Reissued, AKID, LeavesBehind
    <2>2. LeavesBehind([cached EXCEPT !.verified = "True", !.phase = "Complete"], RootSecret.key, crt)
        BY <1>15, <1>0, <2>1 DEF VerifyPasses, Verifying, LeavesBehind, RootStatus
    <2>3. LeavesBehind(status', RootSecret.key, crt) /\ LeavesBehind(cached', RootSecret.key, crt)
        BY <1>15, <1>0, <2>2, UpdateOutcome DEF VerifyPasses
    <2>4. StagedWithin(staging', RootSecret.key)
        BY <1>15 DEF VerifyPasses, TrimInv, StagedKeys
    <2> QED BY <1>15, <2>3, <2>4, OperatorTrimFrame DEF VerifyPasses, rootHandlerEnv, rootVars
<1>16. CASE Complete
    <2>1. LeavesBehind([cached EXCEPT !.prev = None, !.phase = "Idle"], RootSecret.key, crt)
        BY <1>16, <1>0 DEF Complete, LeavesBehind, RootStatus, None
    <2>2. LeavesBehind(status', RootSecret.key, crt) /\ LeavesBehind(cached', RootSecret.key, crt)
        BY <1>16, <1>0, <2>1, UpdateOutcome DEF Complete
    <2>3. StagedWithin(staging', RootSecret.key)
        BY <1>16, TrimKeepsOtherKeys DEF Complete
    <2> QED BY <1>16, <2>2, <2>3, OperatorTrimFrame DEF Complete, rootHandlerEnv, rootVars
<1> QED
    BY <1>1, <1>2, <1>3, <1>4, <1>5, <1>6, <1>7, <1>8, <1>9, <1>10, <1>11, <1>12, <1>13, <1>14, <1>15, <1>16 DEF ReconcileRoot

(* So does a handler of the root that was cut off, at any point. *)
LEMMA TrimRootInterrupted == TrimInv /\ TypeOK' /\ RootInterrupted => TrimInv'
<1> SUFFICES ASSUME TrimInv, TypeOK', RootInterrupted PROVE TrimInv'
    OBVIOUS
<1>0. /\ LeavesBehind(status, RootSecret.key, crt)
      /\ LeavesBehind(cached, RootSecret.key, crt)
      /\ cached \in RootStatus /\ RootSecret.key \in Nat
    BY ReadTypes DEF TrimInv, TypeOK
<1>1. CASE IdleInterrupted
    <2>1. StagedWithin(staging', RootSecret.key)
        BY <1>1, EnsureKeepsKeys DEF IdleInterrupted, TrimInv, StagedKeys
    <2> QED BY <1>0, <1>1, <2>1, OperatorTrimFrame DEF IdleInterrupted, rootHandlerEnv, rootVars
<1>2. CASE DualTrustBlocked
    <2>1. LeavesBehind([cached EXCEPT !.dual = "False"], RootSecret.key, crt)
        BY <1>0 DEF LeavesBehind, RootStatus
    <2>2. LeavesBehind(status', RootSecret.key, crt) /\ LeavesBehind(cached', RootSecret.key, crt)
        BY <1>0, <1>2, <2>1, UpdateOutcome DEF DualTrustBlocked, Condition
    <2>3. StagedWithin(staging', RootSecret.key)
        BY <1>2 DEF DualTrustBlocked, TrimInv, StagedKeys
    <2> QED BY <1>2, <2>2, <2>3, OperatorTrimFrame DEF DualTrustBlocked, rootHandlerEnv, rootVars
<1>3. CASE DualTrustInterrupted
    <2>1. StagedWithin(staging', RootSecret.key)
        BY <1>3, ExtendKeepsKeys DEF DualTrustInterrupted
    <2> QED BY <1>0, <1>3, <2>1, OperatorTrimFrame
            DEF DualTrustInterrupted, rootHandlerEnv, rootVars
<1>4. CASE AwaitingInterrupted
    <2>1. StagedWithin(staging', RootSecret.key)
        BY <1>4 DEF AwaitingInterrupted, TrimInv, StagedKeys
    <2> QED BY <1>0, <1>4, <2>1, OperatorTrimFrame
            DEF AwaitingInterrupted, rootHandlerEnv, rootVars
<1>5. CASE CompleteInterrupted
    <2>1. StagedWithin(staging', RootSecret.key)
        BY <1>5, TrimKeepsOtherKeys DEF CompleteInterrupted
    <2> QED BY <1>0, <1>5, <2>1, OperatorTrimFrame
            DEF CompleteInterrupted, rootHandlerEnv, rootVars
<1> QED BY <1>1, <1>2, <1>3, <1>4, <1>5 DEF RootInterrupted

(* A child touches neither the root, nor the ConfigMap, nor the root's status. *)
LEMMA ChildStepFrame ==
    ASSUME NEW c \in CAs, ReconcileChild(c) \/ ChildInterrupted(c)
    PROVE  UNCHANGED childHandlerEnv
BY DEF ReconcileChild, ChildInterrupted, ChildBaseline, ChildQuiet, ChildYields, ChildCascades,
       ChildDrift, ChildTriggers, ChildPending, ChildVerified, ChildCompletes

(* The children's handlers do not touch what the trim relies on. *)
LEMMA TrimChild ==
    ASSUME TrimInv, TypeOK', UNCHANGED childHandlerEnv PROVE TrimInv'
<1>1. /\ LeavesBehind(status, RootSecret.key, crt)
      /\ LeavesBehind(cached, RootSecret.key, crt)
      /\ StagedWithin(staging, RootSecret.key)
    BY DEF TrimInv
<1>2. UNCHANGED <<root, crt, loaded, seen, staging, status, cached>>
    BY DEF childHandlerEnv, rootVars, trustVars
<1> QED BY <1>1, <1>2, OperatorTrimFrame DEF StagedKeys

(* The environment issues certificates with the key the root's issuer has loaded, and that
   key is never older than those it signed with before. *)
LEMMA EnvironmentTrimFrame ==
    ASSUME TrimInv, TypeOK', StagedWithin(staging', RootSecret.key),
           status' = status, cached' \in {status, cached},
           RootSecret.key <= RootSecret'.key, SignedUpTo',
           \A t \in Tier1 : crt[t].akid <= crt'[t].akid
    PROVE  TrimInv'
<1>1. /\ status \in RootStatus /\ cached \in RootStatus
      /\ RootSecret.key \in Nat
      /\ crt \in [Certs -> Certificate] /\ crt' \in [Certs -> Certificate]
      /\ \A k \in Keys(staging'.pems) : k \in Nat
    BY ReadTypes, KeysType DEF TrimInv, TypeOK, ConfigMap
<1>2. RootSecret'.key \in Nat
    BY DEF TypeOK, RootSecret, Secret
<1>3. LeavesBehind(status, RootSecret'.key, crt') /\ LeavesBehind(cached, RootSecret'.key, crt')
    BY <1>1, <1>2, LeavesBehindMonotone DEF TrimInv
<1>4. LeavesBehind(status', RootSecret'.key, crt') /\ LeavesBehind(cached', RootSecret'.key, crt')
    BY <1>3
<1>5. StagedWithin(staging', RootSecret'.key)
    BY <1>1, <1>2 DEF StagedWithin
<1> QED BY <1>4, <1>5 DEF TrimInv

(* Issues and renewals only move keys up, which preserves it. *)
LEMMA TrimEnvironment == TrimInv /\ TypeOK' /\ EnvironmentStep => TrimInv'
<1> SUFFICES ASSUME TrimInv, TypeOK', EnvironmentStep PROVE TrimInv'
    OBVIOUS
<1> USE DEF rootVars, certVars, trustVars, crdVars
<1>0. /\ root.key \in Nat /\ root.serial \in Nat /\ root.key <= root.serial
      /\ loaded \in [Signers -> Signer] /\ loaded[Root].key \in Nat
      /\ loaded[Root].key <= root.key
      /\ SigningWith(Root).key \in Nat /\ SigningWith(Root).key <= root.key
      /\ RootSecret.key \in Nat /\ RootSecret.key <= root.key
      /\ crt \in [Certs -> Certificate]
      /\ \A t \in Tier1 : t \in Certs /\ crt[t].akid \in Nat
      /\ \A t \in Tier1 : crt[t].akid <= SigningWith(Root).key
      /\ StagedWithin(staging, RootSecret.key)
    <2>1. Root \in Signers
        BY DEF Signers
    <2>2. /\ root.key \in Nat /\ root.serial \in Nat /\ loaded[Root].key \in Nat
          /\ RootSecret.key \in Nat
        BY <2>1, ReadTypes DEF TrimInv, TypeOK, Signer, Secret
    <2>3. \A t \in Tier1 : t \in Certs /\ crt[t].akid \in Nat
        BY DEF TrimInv, TypeOK, Tier1, Certs, Certificate
    <2> QED BY <2>2, <2>3 DEF TrimInv, TypeOK, SignedUpTo, SigningWith, LiveSigner
<1>1. ASSUME NEW c \in Certs, Issue(c) PROVE TrimInv'
    <2>1. ASSUME NEW t \in Tier1
          PROVE  crt'[t].akid = crt[t].akid \/ crt'[t].akid = SigningWith(Root).key
        BY <1>0, <1>1 DEF Issue, Tier1
    <2>2. \A t \in Tier1 : crt[t].akid <= crt'[t].akid /\ crt'[t].akid <= SigningWith(Root).key
        BY <1>0, <2>1
    <2>3. UNCHANGED <<root, loaded, seen, staging, status, cached>>
        BY <1>1 DEF Issue
    <2>4. SignedUpTo' /\ RootSecret' = RootSecret
        BY <1>0, <2>2, <2>3 DEF SignedUpTo, SigningWith, LiveSigner, RootSecret
    <2> QED BY <1>0, <2>2, <2>3, <2>4, EnvironmentTrimFrame
<1>2. ASSUME UNCHANGED <<root, crt, loaded, seen, status>>, cached' \in {status, cached},
             StagedWithin(staging', RootSecret.key)
      PROVE  TrimInv'
    <2>1. SignedUpTo' /\ RootSecret' = RootSecret
        BY <1>0, <1>2 DEF SignedUpTo, SigningWith, LiveSigner, RootSecret
    <2> QED BY <1>0, <1>2, <2>1, EnvironmentTrimFrame
<1>3. ASSUME NEW c \in Certs, Publish(c) \/ RenewCertificate(c) PROVE TrimInv'
    BY <1>0, <1>2, <1>3 DEF Publish, RenewCertificate
<1>4. CASE RequestRoot \/ RequestAbsentRoot \/ SignRoot \/ FailRoot \/ RetryRoot
    BY <1>0, <1>2, <1>4 DEF RequestRoot, RequestAbsentRoot, SignRoot, FailRoot, RetryRoot
<1>5. CASE Distribute \/ CacheSync
    BY <1>0, <1>2, <1>5 DEF Distribute, CacheSync
<1>6. ASSUME NEW p \in Signers, LoadIssuer(p) PROVE TrimInv'
    <2>1. UNCHANGED <<root, crt, seen, staging, status, cached>>
        BY <1>6 DEF LoadIssuer
    <2>2. loaded'[Root].key = loaded[Root].key \/ loaded'[Root].key = root.key
        BY <1>0, <1>6 DEF LoadIssuer, LiveSigner, Signers
    <2>3. SignedUpTo' /\ RootSecret' = RootSecret
        BY <1>0, <2>1, <2>2 DEF SignedUpTo, SigningWith, LiveSigner, RootSecret
    <2> QED BY <1>0, <2>1, <2>3, EnvironmentTrimFrame
<1>7. ASSUME NEW c \in Certs, DeleteSecret(c) PROVE TrimInv'
    <2>1. UNCHANGED <<root, loaded, seen, staging, status, cached>>
        BY <1>7 DEF DeleteSecret
    <2>2. \A t \in Tier1 : crt'[t].akid = crt[t].akid
        BY <1>0, <1>7 DEF DeleteSecret, Certificate
    <2>3. SignedUpTo' /\ RootSecret' = RootSecret
        BY <1>0, <2>1, <2>2 DEF SignedUpTo, SigningWith, LiveSigner, RootSecret
    <2> QED BY <1>0, <2>1, <2>2, <2>3, EnvironmentTrimFrame
<1>8. CASE WriteRootSecret \/ DeleteRoot
    <2>1. UNCHANGED <<crt, loaded, seen, staging, status, cached>>
        BY <1>8 DEF WriteRootSecret, DeleteRoot
    <2>2. /\ root'.key \in Nat /\ root.key <= root'.key
          /\ root'.key <= root'.serial
        BY <1>0, <1>8 DEF WriteRootSecret, DeleteRoot, TrimInv, TypeOK, Secret
    <2>3. RootSecret'.key = RootSecret.key \/ RootSecret'.key = root'.key
        BY <2>1 DEF RootSecret
    <2>4. RootSecret.key <= RootSecret'.key /\ RootSecret'.key <= root'.key
        BY <1>0, <2>2, <2>3
    <2>5. SignedUpTo'
        BY <1>0, <2>1, <2>2, <2>4 DEF SignedUpTo, SigningWith, LiveSigner
    <2> QED BY <1>0, <2>1, <2>4, <2>5, EnvironmentTrimFrame
<1>9. ASSUME NEW copy \in DOMAIN Lag, Sync(copy) PROVE TrimInv'
    <2>1. UNCHANGED <<root, crt, loaded, staging, status, cached>>
        BY <1>9, SyncStep
    <2>2. RootSecret'.key = RootSecret.key \/ RootSecret'.key = root.key
        BY <1>9, SyncStep DEF RootSecret, TrimInv, TypeOK
    <2>3. RootSecret.key <= RootSecret'.key /\ RootSecret'.key <= root.key
        BY <1>0, <2>2
    <2>4. SignedUpTo'
        BY <1>0, <2>1, <2>3 DEF SignedUpTo, SigningWith, LiveSigner
    <2> QED BY <1>0, <2>1, <2>3, <2>4, EnvironmentTrimFrame
<1>10. CASE DeleteConfigMap
    <2>1. staging' = [exists |-> FALSE, pems |-> <<>>]
        BY <1>10 DEF DeleteConfigMap
    <2>2. StagedWithin(staging', RootSecret.key)
        BY <2>1 DEF StagedWithin, Keys
    <2> QED BY <1>2, <1>10, <2>2 DEF DeleteConfigMap
<1>11. ASSUME NEW c \in CAs, DeleteChild(c) PROVE TrimInv'
    BY <1>0, <1>2, <1>11 DEF DeleteChild
<1> QED
    BY <1>1, <1>3, <1>4, <1>5, <1>6, <1>7, <1>8, <1>9, <1>10, <1>11
    DEF EnvironmentStep, CertManager, Disruption, Informers

(* TrimInv is inductive. *)
LEMMA TrimNext == TrimInv /\ [Next]_vars => TrimInv'
<1> SUFFICES ASSUME TrimInv, [Next]_vars PROVE TrimInv'
    OBVIOUS
<1>1. TypeOK'
    BY TypeNext DEF TrimInv
<1>2. CASE OperatorStep
    BY <1>1, <1>2, TrimReconcileRoot, TrimRootInterrupted, TrimChild, ChildStepFrame
    DEF OperatorStep
<1>3. CASE EnvironmentStep
    BY <1>1, <1>3, TrimEnvironment
<1>4. CASE UNCHANGED vars
    <2>1. UNCHANGED childHandlerEnv
        BY <1>4 DEF vars, certVars, crdVars, childHandlerEnv
    <2> QED BY <1>1, <2>1, TrimChild
<1> QED BY <1>2, <1>3, <1>4 DEF Next

(* TrimInv holds throughout. *)
LEMMA TrimInvariant ==
    ASSUME "configMapLag" \notin Env PROVE Spec => []TrimInv
<1>1. Init => TrimInv
    BY TrimInit
<1> QED BY <1>1, TrimNext, PTL DEF Spec

---------------------------------------------------------------------------
(* Trimming. *)

(* Only Complete takes keys away, and only the one recorded as the previous root's. *)
LEMMA StagedStep ==
    ASSUME TrimInv, [Next]_vars
    PROVE  \/ StagedKeys \subseteq StagedKeys'
           \/ DeleteConfigMap
           \/ /\ cached.phase = "Complete"
              /\ StagedKeys \ {cached.prev} \subseteq StagedKeys'
<1>1. CASE UNCHANGED staging
    BY <1>1 DEF StagedKeys
<1>2. CASE EnsureStagingConfigMap
    BY <1>2, EnsureKeepsKeys
<1>3. CASE ExtendStagingConfigMap
    BY <1>3, ExtendKeepsKeys
<1>4. CASE cached.phase = "Complete" /\ TrimStagingConfigMap
    BY <1>4, TrimKeepsOtherKeys
<1>5. CASE ReconcileRoot
    BY <1>1, <1>2, <1>3, <1>4, <1>5
    DEF ReconcileRoot, InitialisePhase, IdleSKIDChanged, IdleBaseline, IdleRequestDetected,
        IdleQuiet, PreservingAbort, PreservingRenewed, DualTrustExtended, AwaitingTier1,
        AwaitingTier2, AwaitingTier2Reissued, VerifyTier1Fails, VerifyTier2Fails,
        VerifyLeafFails, VerifyPasses, Complete, EnsureTrustAnchors
<1>6. CASE RootInterrupted
    BY <1>1, <1>2, <1>3, <1>4, <1>6
    DEF RootInterrupted, IdleInterrupted, DualTrustBlocked, DualTrustInterrupted,
        AwaitingInterrupted, CompleteInterrupted
<1>7. ASSUME NEW c \in CAs, ReconcileChild(c) \/ ChildInterrupted(c) PROVE UNCHANGED staging
    BY <1>7, ChildStepFrame DEF childHandlerEnv, trustVars
<1>8. CASE EnvironmentStep
    BY <1>1, <1>8
    DEF EnvironmentStep, CertManager, Disruption, Issue, Publish, LoadIssuer,
        RenewCertificate, DeleteSecret, DeleteChild, RequestRoot, RequestAbsentRoot, SignRoot,
        FailRoot, RetryRoot, WriteRootSecret, DeleteRoot, Distribute, Informers, CacheSync, Sync, trustVars
<1>9. CASE UNCHANGED vars
    BY <1>1, <1>9 DEF vars, trustVars
<1> QED BY <1>1, <1>5, <1>6, <1>7, <1>8, <1>9 DEF Next, OperatorStep

(* No step of the operator, of cert-manager or of anybody else makes the staging ConfigMap
   lose a root that a cluster intermediate carries in its AKID: what trimStagingConfigMap
   removes is older than the key verifyTier1Chain has seen in every one of them, and stays
   older whatever is renewed, re-issued, delayed or run twice after that. *)
THEOREM TrimmingKeepsTier1 ==
    ASSUME "configMapLag" \notin Env PROVE Spec => TrimKeepsTier1Anchors
<1>1. TrimInv /\ [Next]_vars => [KeepsTier1Anchors]_vars
    <2> SUFFICES ASSUME TrimInv, [Next]_vars PROVE KeepsTier1Anchors
        OBVIOUS
    <2>1. CASE StagedKeys \subseteq StagedKeys'
        BY <2>1 DEF KeepsTier1Anchors
    <2>2. CASE /\ cached.phase = "Complete"
               /\ StagedKeys \ {cached.prev} \subseteq StagedKeys'
        <3>1. \A t \in Tier1 : crt[t].akid > cached.prev /\ crt[t].akid \in Nat
            BY <2>2 DEF TrimInv, LeavesBehind, TypeOK, Certificate, Tier1, Certs
        <3>2. cached.prev \in Nat
            BY DEF TrimInv, TypeOK, RootStatus
        <3>3. \A t \in Tier1 : crt[t].akid # cached.prev
            BY <3>1, <3>2
        <3> QED BY <2>2, <3>3 DEF KeepsTier1Anchors
    <2>3. CASE DeleteConfigMap
        BY <2>3 DEF DeleteConfigMap, KeepsTier1Anchors
    <2> QED BY <2>1, <2>2, <2>3, StagedStep
<1> QED BY <1>1, TrimInvariant, PTL DEF Spec, TrimKeepsTier1Anchors

---------------------------------------------------------------------------
(* The staging ConfigMap is never emptied. *)

(* A staged successor stays one while no root is taken away. *)
LEMMA SuccessorMonotone ==
    ASSUME NEW st, NEW K, NEW K2, K \subseteq K2, SuccessorStaged(st, K)
    PROVE  SuccessorStaged(st, K2)
BY DEF SuccessorStaged

(* The root the Secret holds is the successor of the one a rotation leaves. *)
LEMMA PresentRootSucceeds ==
    ASSUME NEW st \in RootStatus, NEW key \in Nat, LeavesBehind(st, key, crt), NEW K, key \in K
    PROVE  SuccessorStaged(st, K)
<1>1. st.cur \in Nat /\ st.prev \in Nat
    BY DEF RootStatus
<1>2. st.phase \in {"AwaitingReissuance", "VerifyingChain", "Complete"} => key > st.prev
    BY <1>1 DEF LeavesBehind
<1> QED BY <1>2 DEF SuccessorStaged

(* A ConfigMap found at installation is not empty. *)
LEMMA TrustInit ==
    ASSUME "configMapLag" \notin Env, Init PROVE TrustInv
<1>1. SuccessorStaged(status, StagedKeys) /\ SuccessorStaged(cached, StagedKeys)
    BY DEF Init, SuccessorStaged
<1>2. NeverUntrusting
    BY InstalledStagingKeys DEF NeverUntrusting, Init, InstalledStaging, StagedKeys
<1> QED BY <1>1, <1>2, TrimInit DEF TrustInv

(* Where no key is taken away, and a new ConfigMap starts with the present root, it is
   enough to look at a status that is written. *)
LEMMA TrustGrows ==
    ASSUME TrustInv, TrimInv', StagedKeys \subseteq StagedKeys',
           staging'.exists => staging.exists \/ RootSecret.key \in StagedKeys',
           NEW new, staging'.exists => SuccessorStaged(new, StagedKeys'),
           status' \in {status, new}, cached' \in {status, cached, new}
    PROVE  TrustInv'
<1>1. /\ status \in RootStatus /\ cached \in RootStatus /\ RootSecret.key \in Nat
      /\ LeavesBehind(status, RootSecret.key, crt) /\ LeavesBehind(cached, RootSecret.key, crt)
    BY ReadTypes DEF TrustInv, TrimInv, TypeOK
<1>2. ASSUME staging'.exists
      PROVE  SuccessorStaged(status, StagedKeys') /\ SuccessorStaged(cached, StagedKeys')
    <2>1. CASE staging.exists
        BY <2>1, SuccessorMonotone DEF TrustInv
    <2>2. CASE ~staging.exists
        BY <1>1, <1>2, <2>2, PresentRootSucceeds
    <2> QED BY <2>1, <2>2
<1>3. staging'.exists => SuccessorStaged(status', StagedKeys') /\ SuccessorStaged(cached', StagedKeys')
    BY <1>2
<1>4. NeverUntrusting'
    BY DEF TrustInv, NeverUntrusting
<1> QED BY <1>3, <1>4 DEF TrustInv

(* Complete: the successor of the trimmed root is there, and it is not the trimmed root. *)
LEMMA TrustTrimmed ==
    ASSUME TrustInv, TrimInv', cached.phase = "Complete", TrimStagingConfigMap,
           NEW new, new.phase = "Idle",
           status' \in {status, new}, cached' \in {cached, new}
    PROVE  TrustInv'
<1>1. SuccessorStaged(new, StagedKeys')
    BY DEF SuccessorStaged
<1>2. CASE UNCHANGED staging
    BY <1>1, <1>2, TrustGrows DEF StagedKeys
<1>3. CASE staging.exists /\ staging'.exists
    <2>1. StagedKeys \ {cached.prev} \subseteq StagedKeys'
        BY TrimKeepsOtherKeys DEF TrustInv
    <2>2. /\ StagedKeys \subseteq Nat /\ status.prev \in Nat /\ cached.prev \in Nat
        BY ReadTypes DEF TrustInv, TrimInv, TypeOK, RootStatus
    <2>3. PICK k \in StagedKeys : k > cached.prev
        BY <1>3 DEF TrustInv, SuccessorStaged
    <2>4. k \in StagedKeys'
        BY <2>1, <2>2, <2>3
    <2>5. SuccessorStaged(cached, StagedKeys')
        BY <2>3, <2>4 DEF SuccessorStaged
    <2>6. SuccessorStaged(status, StagedKeys')
        <3> SUFFICES ASSUME status.phase \in {"AwaitingReissuance", "VerifyingChain", "Complete"}
                     PROVE  \E n \in StagedKeys' : n > status.prev
            BY DEF SuccessorStaged
        <3>1. PICK n \in StagedKeys : n > status.prev
            BY <1>3 DEF TrustInv, SuccessorStaged
        <3>2. CASE n = cached.prev
            BY <2>2, <2>3, <2>4, <3>1, <3>2
        <3>3. CASE n # cached.prev
            BY <2>1, <3>1, <3>3
        <3> QED BY <3>2, <3>3
    <2> QED BY <1>1, <2>4, <2>5, <2>6 DEF TrustInv, NeverUntrusting
<1> QED BY <1>2, <1>3, TrimKeepsOtherKeys DEF TrustInv

(* The handlers of the root keep a root in the ConfigMap; only Complete takes one
   away, with its successor staged. *)
LEMMA TrustReconcileRoot == TrustInv /\ TrimInv' /\ ReconcileRoot => TrustInv'
<1> SUFFICES ASSUME TrustInv, TrimInv', ReconcileRoot PROVE TrustInv'
    OBVIOUS
<1>0. /\ TrimInv
      /\ staging.exists => SuccessorStaged(cached, StagedKeys)
      /\ LeavesBehind(cached, RootSecret.key, crt)
      /\ cached \in RootStatus /\ RootSecret.key \in Nat
    BY ReadTypes DEF TrustInv, TrimInv, TypeOK
(* The status that is written has no successor to show, or that of the copy. *)
<1> DEFINE Followed(new) == /\ new.prev = cached.prev
                            /\ cached.phase \in {"AwaitingReissuance", "VerifyingChain", "Complete"}
           Early(new) == new.phase \in {"", "Idle", "PreservingOldRoot", "DualTrustActive"}
<1>1. ASSUME NEW new, Early(new) \/ Followed(new), Update(new) \/ UNCHANGED <<status, cached>>,
             \/ UNCHANGED staging
             \/ EnsureStagingConfigMap
      PROVE  TrustInv'
    <2>1. StagedKeys \subseteq StagedKeys'
        BY <1>0, <1>1, EnsureKeepsKeys DEF StagedKeys
    <2>2. staging'.exists => staging.exists \/ RootSecret.key \in StagedKeys'
        BY <1>0, <1>1, EnsureKeepsKeys
    <2>3. staging'.exists => SuccessorStaged(new, StagedKeys')
        <3>1. staging'.exists => SuccessorStaged(cached, StagedKeys')
            BY <1>0, <2>1, <2>2, SuccessorMonotone, PresentRootSucceeds
        <3> QED BY <1>1, <3>1 DEF SuccessorStaged
    <2>4. status' \in {status, new} /\ cached' \in {status, cached, new}
        BY <1>1, UpdateOutcome
    <2> QED BY <2>1, <2>2, <2>3, <2>4, TrustGrows
<1>2. CASE InitialisePhase
    <2>1. Early([cached EXCEPT !.phase = "Idle"])
        BY <1>0, <1>2 DEF InitialisePhase, RootStatus
    <2> QED BY <1>1, <1>2, <2>1 DEF InitialisePhase
<1>3. CASE IdleSKIDChanged
    <2>1. Early([cached EXCEPT !.prev = cached.cur, !.cur = RootSecret.key, !.phase = "PreservingOldRoot"])
        BY <1>0, <1>3 DEF IdleSKIDChanged, RootStatus
    <2> QED BY <1>1, <1>3, <2>1 DEF IdleSKIDChanged, EnsureTrustAnchors
<1>4. CASE IdleBaseline
    <2>1. Early([cached EXCEPT !.cur = RootSecret.key])
        BY <1>0, <1>4 DEF IdleBaseline, Idle, RootStatus
    <2> QED BY <1>1, <1>4, <2>1 DEF IdleBaseline, EnsureTrustAnchors, Idle
<1>5. CASE IdleRequestDetected
    <2>1. Early([cached EXCEPT !.prev = RootSecret.key, !.phase = "PreservingOldRoot"])
        BY <1>0, <1>5 DEF IdleRequestDetected, RootStatus
    <2> QED BY <1>1, <1>5, <2>1 DEF IdleRequestDetected, EnsureTrustAnchors
<1>6. CASE IdleQuiet
    <2>1. Early(cached)
        BY <1>0, <1>6 DEF IdleQuiet, Idle, RootStatus
    <2> QED BY <1>1, <1>6, <2>1 DEF IdleQuiet, EnsureTrustAnchors, Idle
<1>7. CASE PreservingAbort
    <2>1. Early([cached EXCEPT !.prev = None, !.phase = "Idle"])
        BY <1>0, <1>7 DEF PreservingAbort, RootStatus
    <2> QED BY <1>1, <1>7, <2>1 DEF PreservingAbort
<1>8. CASE PreservingRenewed
    <2>1. Early([cached EXCEPT !.cur = RootSecret.key, !.phase = "DualTrustActive"])
        BY <1>0, <1>8 DEF PreservingRenewed, RootStatus
    <2> QED BY <1>1, <1>8, <2>1 DEF PreservingRenewed
<1>9. CASE AwaitingTier1
    <2>1. Followed([cached EXCEPT !.reissued = "False"])
        BY <1>0, <1>9 DEF AwaitingTier1, Awaiting, RootStatus
    <2> QED BY <1>1, <1>9, <2>1 DEF AwaitingTier1, Condition, Awaiting
<1>10. CASE AwaitingTier2
    <2>1. Followed([cached EXCEPT !.reissued = "False"])
        BY <1>0, <1>10 DEF AwaitingTier2, Awaiting, RootStatus
    <2> QED BY <1>1, <1>10, <2>1 DEF AwaitingTier2, Condition, Awaiting
<1>11. CASE AwaitingTier2Reissued
    <2>1. Followed([cached EXCEPT !.reissued = "True", !.phase = "VerifyingChain"])
        BY <1>0, <1>11 DEF AwaitingTier2Reissued, Awaiting, RootStatus
    <2> QED BY <1>1, <1>11, <2>1 DEF AwaitingTier2Reissued, Awaiting
<1>12. CASE VerifyTier1Fails
    <2>1. Followed([cached EXCEPT !.verified = "False"])
        BY <1>0, <1>12 DEF VerifyTier1Fails, Verifying, RootStatus
    <2> QED BY <1>1, <1>12, <2>1 DEF VerifyTier1Fails, Condition, Verifying
<1>13. ASSUME NEW c \in Tier2, VerifyTier2Fails(c) PROVE TrustInv'
    <2>1. Followed([cached EXCEPT !.verified = "False"])
        BY <1>0, <1>13 DEF VerifyTier2Fails, Verifying, RootStatus
    <2> QED BY <1>1, <1>13, <2>1 DEF VerifyTier2Fails, Condition, Verifying
<1>14. ASSUME NEW l \in TrackedLeaves, VerifyLeafFails(l) PROVE TrustInv'
    <2>1. Followed([cached EXCEPT !.verified = "False"])
        BY <1>0, <1>14 DEF VerifyLeafFails, Verifying, RootStatus
    <2> QED BY <1>1, <1>14, <2>1 DEF VerifyLeafFails, Condition, Verifying
<1>15. CASE VerifyPasses
    <2>1. Followed([cached EXCEPT !.verified = "True", !.phase = "Complete"])
        BY <1>0, <1>15 DEF VerifyPasses, Verifying, RootStatus
    <2> QED BY <1>1, <1>15, <2>1 DEF VerifyPasses, Verifying
<1>16. CASE DualTrustExtended
    <2> DEFINE new == [cached EXCEPT !.dual = "True", !.reissued = "False",
                                     !.phase = "AwaitingReissuance"]
    <2>1. StagedKeys \cup {RootSecret.key} \subseteq StagedKeys'
        BY <1>0, <1>16, ExtendKeepsKeys DEF DualTrustExtended
    <2>2. cached.prev < cached.cur /\ cached.cur <= RootSecret.key
        BY <1>0, <1>16 DEF DualTrustExtended, LeavesBehind
    <2>3. RootSecret.key > new.prev
        BY <1>0, <2>2 DEF RootStatus
    <2>4. SuccessorStaged(new, StagedKeys')
        BY <2>1, <2>3 DEF SuccessorStaged
    <2>5. status' \in {status, new} /\ cached' \in {status, cached, new}
        BY <1>16, UpdateOutcome DEF DualTrustExtended
    <2> QED BY <2>1, <2>4, <2>5, TrustGrows
<1>17. CASE Complete
    <2>1. [cached EXCEPT !.prev = None, !.phase = "Idle"].phase = "Idle"
        BY <1>0 DEF RootStatus
    <2>2. /\ status' \in {status, [cached EXCEPT !.prev = None, !.phase = "Idle"]}
          /\ cached' \in {cached, [cached EXCEPT !.prev = None, !.phase = "Idle"]}
        BY <1>17, UpdateOutcome DEF Complete
    <2> QED BY <1>17, <2>1, <2>2, TrustTrimmed DEF Complete
<1> QED
    BY <1>2, <1>3, <1>4, <1>5, <1>6, <1>7, <1>8, <1>9, <1>10, <1>11, <1>12, <1>13, <1>14, <1>15, <1>16, <1>17 DEF ReconcileRoot

(* So does a handler of the root that was cut off. *)
LEMMA TrustRootInterrupted == TrustInv /\ TrimInv' /\ RootInterrupted => TrustInv'
<1> SUFFICES ASSUME TrustInv, TrimInv', RootInterrupted PROVE TrustInv'
    OBVIOUS
<1>0. /\ TrimInv /\ cached \in RootStatus
      /\ staging.exists => SuccessorStaged(cached, StagedKeys)
    BY DEF TrustInv, TrimInv, TypeOK
<1>1. CASE IdleInterrupted
    <2>1. StagedKeys \subseteq StagedKeys'
        BY <1>0, <1>1, EnsureKeepsKeys DEF IdleInterrupted, StagedKeys
    <2>2. staging'.exists => staging.exists \/ RootSecret.key \in StagedKeys'
        BY <1>0, <1>1, EnsureKeepsKeys DEF IdleInterrupted
    <2>3. SuccessorStaged([phase |-> "Idle"], StagedKeys')
        BY DEF SuccessorStaged
    <2> QED BY <1>1, <2>1, <2>2, <2>3, TrustGrows DEF IdleInterrupted
<1>2. CASE DualTrustBlocked
    <2> DEFINE new == [cached EXCEPT !.dual = "False"]
    <2>1. staging.exists => SuccessorStaged(new, StagedKeys)
        BY <1>0, <1>2 DEF DualTrustBlocked, SuccessorStaged, RootStatus
    <2>2. status' \in {status, new} /\ cached' \in {status, cached, new}
        BY <1>2, UpdateOutcome DEF DualTrustBlocked, Condition
    <2>3. UNCHANGED staging
        BY <1>2 DEF DualTrustBlocked
    <2> HIDE DEF new
    <2> QED BY <2>1, <2>2, <2>3, TrustGrows DEF StagedKeys
<1>3. CASE DualTrustInterrupted
    <2>1. staging.exists /\ StagedKeys \cup {RootSecret.key} \subseteq StagedKeys'
        BY <1>0, <1>3, ExtendKeepsKeys DEF DualTrustInterrupted
    <2>2. SuccessorStaged(cached, StagedKeys')
        BY <1>0, <2>1, SuccessorMonotone
    <2> QED BY <1>3, <2>1, <2>2, TrustGrows DEF DualTrustInterrupted
<1>4. CASE AwaitingInterrupted
    BY <1>0, <1>4, TrustGrows DEF AwaitingInterrupted, StagedKeys
<1>5. CASE CompleteInterrupted
    <2> DEFINE idle == [phase |-> "Idle"]
    <2>1. idle.phase = "Idle"
        OBVIOUS
    <2> HIDE DEF idle
    <2> QED BY <1>5, <2>1, TrustTrimmed DEF CompleteInterrupted
<1> QED BY <1>1, <1>2, <1>3, <1>4, <1>5 DEF RootInterrupted

(* TrustInv is inductive. *)
LEMMA TrustNext == TrustInv /\ [Next]_vars => TrustInv'
<1> SUFFICES ASSUME TrustInv, [Next]_vars PROVE TrustInv'
    OBVIOUS
<1>1. TrimInv'
    BY TrimNext DEF TrustInv
<1>2. ASSUME UNCHANGED staging, status' = status, cached' \in {status, cached} PROVE TrustInv'
    <2>1. staging.exists => SuccessorStaged(status, StagedKeys)
        BY DEF TrustInv
    <2>2. StagedKeys' = StagedKeys
        BY <1>2 DEF StagedKeys
    <2> QED BY <1>1, <1>2, <2>1, <2>2, TrustGrows
<1>3. CASE ReconcileRoot
    BY <1>1, <1>3, TrustReconcileRoot
<1>4. CASE RootInterrupted
    BY <1>1, <1>4, TrustRootInterrupted
<1>5. ASSUME NEW c \in CAs, ReconcileChild(c) \/ ChildInterrupted(c) PROVE TrustInv'
    BY <1>2, <1>5, ChildStepFrame DEF childHandlerEnv, trustVars
<1>6. CASE EnvironmentStep
    <2>1. CASE DeleteConfigMap
        <3>1. staging'.exists = FALSE /\ UNCHANGED <<status, cached>>
            BY <2>1 DEF DeleteConfigMap, crdVars
        <3> QED BY <1>1, <3>1 DEF TrustInv, NeverUntrusting
    <2>2. CASE ~DeleteConfigMap
        BY <1>2, <1>6, <2>2
        DEF EnvironmentStep, CertManager, Disruption, Issue, Publish, LoadIssuer,
            RenewCertificate, DeleteSecret, DeleteChild, RequestRoot, RequestAbsentRoot, SignRoot,
            FailRoot, RetryRoot, WriteRootSecret, DeleteRoot, Distribute, Informers, CacheSync, Sync, trustVars, crdVars
    <2> QED BY <2>1, <2>2
<1>7. CASE UNCHANGED vars
    BY <1>2, <1>7 DEF vars, trustVars, crdVars
<1> QED BY <1>3, <1>4, <1>5, <1>6, <1>7 DEF Next, OperatorStep

(* TrustInv holds throughout. *)
LEMMA TrustInvariant ==
    ASSUME "configMapLag" \notin Env PROVE Spec => []TrustInv
<1>1. Init => TrustInv
    BY TrustInit
<1> QED BY <1>1, TrustNext, PTL DEF Spec

(* From its creation on the staging ConfigMap holds a root: a rotation reaches the trim only
   with a newer root beside the one it takes away, also when the trim runs again from an
   outdated copy of the status (extendStagingConfigMap before trimStagingConfigMap). *)
THEOREM StagingNeverEmptied ==
    ASSUME "configMapLag" \notin Env PROVE Spec => []NeverUntrusting
<1>1. TrustInv => NeverUntrusting
    BY DEF TrustInv
<1> QED BY <1>1, TrustInvariant, PTL
=============================================================================
