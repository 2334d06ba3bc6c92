----------------------------- MODULE AnchorProofs -----------------------------
(***************************************************************************)
(* The root at the end of a chain: that it leaves the staging ConfigMap    *)
(* only after every chain has moved, and that it is in it all along, or,   *)
(* where certificates are renewed meanwhile, from when the root in use is. *)
(***************************************************************************)
EXTENDS ChainProofs

---------------------------------------------------------------------------
(* What the verification of a rotation shows of every chain. *)

(* In a tree of three tiers a tier-1 CA is below the root only. *)
LEMMA Tier1BelowRootOnly ==
    ASSUME NEW t \in Tier1, NEW p \in Signers, t \in Below(p) PROVE p = Root
<1>1. Parent[t] = Root /\ Root \notin Certs /\ Below(p) \subseteq Certs
    BY ClusterAssumption, BelowSubset DEF Tier1
<1> QED BY <1>1, BelowThroughIssuer

(* Where a certificate's status is fresh, it is the Secret's, and never ahead of the clock. *)
LEMMA FreshStatus ==
    ASSUME TypeOK, IssuedInTurn, "statusLag" \notin Env, NEW c \in Certs
    PROVE  /\ NotBefore(c) \in Nat /\ NotBefore(c) <= clock
           /\ crt[c].present => NotBefore(c) = crt[c].nb
           /\ Ready(c) = crt[c].present
<1>1. crt[c].nb \in Nat /\ clock \in Nat /\ crt[c].nb <= clock /\ crt[c].present \in BOOLEAN
    BY DEF TypeOK, Certificate, IssuedInTurn
<1>2. NotBefore(c) = IF crt[c].present THEN crt[c].nb ELSE 0
    BY DEF NotBefore, Published, LiveStatus, None
<1>3. Ready(c) = crt[c].present
    BY DEF Ready, Published, LiveStatus
<1> QED BY <1>1, <1>2, <1>3

(* A set of certificates has a latest notBefore (latestNotBefore). *)
LEMMA LatestAttained ==
    ASSUME TypeOK, IssuedInTurn, "statusLag" \notin Env, NEW S \in SUBSET Certs
    PROVE  \E x \in {None} \cup {NotBefore(d) : d \in S} : \A d \in S : NotBefore(d) <= x
<1> DEFINE Bounds == {m \in Nat : \A d \in S : NotBefore(d) <= m}
<1>0. \A d \in S : NotBefore(d) \in Nat /\ NotBefore(d) <= clock
    BY FreshStatus
<1>1. clock \in Bounds
    BY <1>0 DEF TypeOK
<1>2. PICK m \in Bounds : \A n \in Bounds : m <= n
    BY <1>1, LeastNumber
<1>3. CASE m = 0
    BY <1>2, <1>3 DEF None
<1>4. CASE m # 0
    <2>1. m - 1 \in Nat /\ ~(m <= m - 1)
        BY <1>4
    <2>2. m - 1 \notin Bounds
        BY <1>2, <2>1
    <2>3. PICK d \in S : ~(NotBefore(d) <= m - 1)
        BY <2>1, <2>2
    <2>4. NotBefore(d) = m
        BY <1>0, <1>2, <2>1, <2>3
    <2> QED BY <1>2, <2>4
<1> QED BY <1>3, <1>4

(* The baseline the later generations are held against is not earlier than any notBefore of
   the generation (reconcileAwaitingReissuance). *)
LEMMA LatestIsLatest ==
    ASSUME TypeOK, IssuedInTurn, "statusLag" \notin Env, NEW S \in SUBSET Certs, NEW c \in S
    PROVE  NotBefore(c) <= LatestNotBefore(S) /\ LatestNotBefore(S) \in Nat
<1> DEFINE Values == {None} \cup {NotBefore(d) : d \in S}
<1>1. \E x \in Values : \A d \in S : NotBefore(d) <= x
    BY LatestAttained
<1>2. LatestNotBefore(S) \in Values /\ \A d \in S : NotBefore(d) <= LatestNotBefore(S)
    BY <1>1 DEF LatestNotBefore
<1>3. Values \subseteq Nat
    BY FreshStatus DEF None
<1> QED BY <1>2, <1>3

(* A certificate that is not older than its issuer's chains at least as far. *)
LEMMA YoungerChainsFurther ==
    ASSUME TypeOK, IssuedInTurn, NEW c \in Certs, Parent[c] \in CAs,
           crt[c].nb >= crt[Parent[c]].nb
    PROVE  crt[c].anchor >= crt[Parent[c]].anchor
<1>1. Parent[c] \in Certs
    BY DEF Certs
<1>2. crt[c].nb \in Nat /\ crt[Parent[c]].nb \in Nat
    BY <1>1 DEF TypeOK, Certificate
<1>3. crt[c].nb > crt[Parent[c]].nb
    BY <1>2 DEF IssuedInTurn
<1> QED BY <1>3 DEF IssuedInTurn

(* The three comparisons of reconcileVerifyingChain, tier-1 by AKID, tier-2 and the leaves by
   notBefore, show of every certificate that its chain has left the root to be trimmed. *)
LEMMA VerificationMovesAnchors ==
    ASSUME ChainInv, ThreeTiers, VerifyPasses
    PROVE  \A c \in Certs : crt[c].anchor > cached.prev
<1>0. /\ TypeOK /\ IssuedInTurn /\ "statusLag" \notin Env
      /\ crt \in [Certs -> Certificate]
      /\ \A c \in Certs : /\ crt[c].anchor \in Nat /\ crt[c].akid \in Nat
                          /\ crt[c].nb \in Nat /\ crt[c].present \in BOOLEAN
      /\ cached.prev \in Nat /\ cached.cur \in Nat
    BY DEF ChainInv, TrimInv, TypeOK, Certificate, RootStatus
<1>1. cached.prev < cached.cur
    BY DEF VerifyPasses, Verifying, ChainInv, TrimInv, LeavesBehind
<1>2. Tier1 \subseteq CAs /\ Tier2 \subseteq CAs /\ CAs \subseteq Certs /\ Leaves \subseteq Certs
    BY DEF Tier1, Tier2, Certs
<1>3. ASSUME NEW t \in Tier1
      PROVE  crt[t].anchor > cached.prev /\ NotBefore(t) = crt[t].nb
    <2>1. crt[t].present /\ crt[t].akid = cached.cur
        BY DEF VerifyPasses, Tier1Reissued, AKID
    <2>2. crt[t].anchor >= crt[t].akid
        BY DEF ChainInv
    <2>3. crt[t].anchor > cached.prev
        BY <1>0, <1>1, <1>2, <2>1, <2>2
    <2> QED BY <1>0, <1>2, <2>1, <2>3, FreshStatus
<1>4. \A t \in Tier1 : crt[t].nb <= LatestNotBefore(Tier1) /\ LatestNotBefore(Tier1) \in Nat
    BY <1>0, <1>2, <1>3, LatestIsLatest
<1>5. ASSUME NEW c \in Certs, Parent[c] \in CAs, crt[Parent[c]].anchor > cached.prev,
             crt[c].nb >= crt[Parent[c]].nb
      PROVE  crt[c].anchor > cached.prev
    <2>1. crt[c].anchor >= crt[Parent[c]].anchor
        BY <1>0, <1>5, YoungerChainsFurther
    <2> QED BY <1>0, <1>2, <1>5, <2>1
<1>6. ASSUME NEW c \in Tier2
      PROVE  /\ crt[c].anchor > cached.prev
             /\ NotBefore(c) = crt[c].nb
             /\ crt[c].nb > LatestNotBefore(Tier1)
    <2>1. c \notin Tier2Pending
        BY DEF VerifyPasses
    <2>2. NotBefore(c) > LatestNotBefore(Tier1) /\ Ready(c)
        BY <2>1 DEF Tier2Pending, Tier2Predating
    <2>3. NotBefore(c) = crt[c].nb
        BY <1>0, <1>2, <2>2, FreshStatus
    <2>4. Parent[c] \in Tier1
        BY DEF Tier2
    <2>5. crt[c].nb >= crt[Parent[c]].nb
        <3>1. crt[Parent[c]].nb \in Nat /\ crt[c].nb \in Nat
            BY <1>0, <1>2, <2>4
        <3> QED BY <1>4, <2>2, <2>3, <2>4, <3>1
    <2> QED BY <1>2, <1>3, <1>5, <2>2, <2>3, <2>4, <2>5
<1>7. PICK b \in Baselines : \A l \in TrackedLeaves : Ready(l) /\ LeafFresh(l, b)
    BY DEF VerifyPasses
<1>8. ASSUME NEW l \in TrackedLeaves
      PROVE  crt[l].nb \in Nat /\ crt[l].nb >= LeafBaseline(l, b)
    <2>1. l \in Certs /\ Ready(l) /\ NotBefore(l) >= LeafBaseline(l, b)
        BY <1>2, <1>7 DEF TrackedLeaves, LeafFresh
    <2> QED BY <1>0, <2>1, FreshStatus
<1>9. \A n \in Tier2Namespaces : b[n] \in Tier2 /\ Namespace[b[n]] = n
    BY DEF Baselines
<1>10. ASSUME NEW l \in Leaves, Parent[l] \in Tier1 PROVE crt[l].anchor > cached.prev
    <2>1. l \in TrackedLeaves
        BY <1>10 DEF TrackedLeaves
    <2>2. crt[Parent[l]].nb <= LatestNotBefore(Tier1) /\ LatestNotBefore(Tier1) \in Nat
        BY <1>4, <1>10
    <2>3. LeafBaseline(l, b) \in Nat /\ LeafBaseline(l, b) >= LatestNotBefore(Tier1)
        <3>1. CASE Namespace[l] \in Tier2Namespaces
            <4>1. LeafBaseline(l, b) = crt[b[Namespace[l]]].nb
                BY <1>6, <1>9, <3>1 DEF LeafBaseline
            <4>2. crt[b[Namespace[l]]].nb \in Nat /\ crt[b[Namespace[l]]].nb > LatestNotBefore(Tier1)
                BY <1>0, <1>2, <1>6, <1>9, <3>1
            <4> QED BY <2>2, <4>1, <4>2
        <3>2. CASE Namespace[l] \notin Tier2Namespaces
            BY <2>2, <3>2 DEF LeafBaseline
        <3> QED BY <3>1, <3>2
    <2>4. crt[Parent[l]].nb \in Nat
        BY <1>0, <1>2, <1>10
    <2>5. crt[l].nb >= crt[Parent[l]].nb
        BY <1>8, <2>1, <2>2, <2>3, <2>4
    <2> QED BY <1>2, <1>3, <1>5, <1>10, <2>5
<1>11. ASSUME NEW l \in Leaves, Parent[l] \in Tier2 PROVE crt[l].anchor > cached.prev
    <2>1. Namespace[l] = Namespace[Parent[l]]
        BY <1>11 DEF ThreeTiers
    <2>2. Namespace[l] \in Tier2Namespaces /\ l \in TrackedLeaves
        BY <1>11, <2>1 DEF Tier2Namespaces, TrackedLeaves
    <2>3. b[Namespace[l]] = Parent[l]
        BY <1>9, <1>11, <2>1, <2>2 DEF ThreeTiers
    <2>4. LeafBaseline(l, b) = crt[Parent[l]].nb
        BY <1>6, <1>11, <2>2, <2>3 DEF LeafBaseline
    <2>5. crt[l].nb >= crt[Parent[l]].nb
        BY <1>8, <2>2, <2>4
    <2> QED BY <1>2, <1>5, <1>6, <1>11, <2>5
<1>12. ASSUME NEW c \in Certs PROVE crt[c].anchor > cached.prev
    <2>1. c \in Tier1 \cup Tier2 \/ (c \in Leaves /\ Parent[c] \in Tier1 \cup Tier2)
        BY DEF ThreeTiers, Certs
    <2> QED BY <1>3, <1>6, <1>10, <1>11, <2>1
<1> QED BY <1>12

---------------------------------------------------------------------------
(* The order of issue along a chain, and the anchors of a rotation that is over. *)

(* The certificates of the installation are in turn, and no rotation is over yet. *)
LEMMA ChainInit ==
    ASSUME {"configMapLag", "statusLag", "issuerLag", "sameSecond"} \cap Env = {}, Init
    PROVE  ChainInv
<1>1. TrimInv /\ IssuedInTurn
    BY TrimInit, TurnInit
<1>2. AnchorsMoved(status) /\ AnchorsMoved(cached)
    BY DEF Init, AnchorsMoved
<1>3. ASSUME NEW t \in Tier1 PROVE crt[t].anchor >= crt[t].akid
    <2>1. t \in Certs /\ Parent[t] = Root /\ t \in Signers /\ Root \in Signers
        BY DEF Tier1, Certs, Signers
    <2>2. /\ crt[t].akid = IF Root \in RotatedBeforeInstall /\ t \in RotatedBeforeInstall
                           THEN InstalledKey(Root) ELSE 1
          /\ crt[t].anchor = InstalledCertificate(t).anchor
        BY <2>1 DEF Init, InstalledCertificate
    <2>3. crt[t].anchor \in {1, 2} /\ crt[t].akid \in {1, 2}
        BY <2>2 DEF InstalledCertificate, InstalledKey
    <2>4. crt[t].akid = 2 => Root \in RotatedBeforeInstall /\ t \in RotatedBeforeInstall
        BY <2>2 DEF InstalledKey
    <2>5. \A p \in Signers : p = t \/ t \in Below(p) => p \in {t, Root}
        BY Tier1BelowRootOnly
    <2>6. crt[t].akid = 2 => crt[t].anchor = 2
        BY <2>2, <2>4, <2>5 DEF InstalledCertificate
    <2> QED BY <2>3, <2>6
<1> QED BY <1>1, <1>2, <1>3 DEF ChainInv

(* Complete is written by the verification that passes, and kept by nothing else the
   operator does. *)
LEMMA CompleteIsVerified ==
    ASSUME TypeOK, OperatorStep, NEW st \in {status', cached'}, st.phase = "Complete"
    PROVE  st \in {status, cached} \/ (VerifyPasses /\ st.prev = cached.prev)
<1>0. cached \in RootStatus
    BY DEF TypeOK
<1>1. ASSUME NEW new, Update(new), new.phase # "Complete" PROVE st \in {status, cached}
    BY <1>1, UpdateOutcome
<1>2. ASSUME NEW field \in {"dual", "reissued", "verified"}, NEW value,
             Condition(field, value), cached.phase # "Complete"
      PROVE  st \in {status, cached}
    <2>1. [cached EXCEPT ![field] = value].phase # "Complete"
        BY <1>0, <1>2 DEF RootStatus
    <2> QED BY <1>1, <1>2, <2>1 DEF Condition
<1>3. /\ [cached EXCEPT !.phase = "Idle"].phase = "Idle"
      /\ [cached EXCEPT !.prev = cached.cur, !.cur = RootSecret.key,
                        !.phase = "PreservingOldRoot"].phase = "PreservingOldRoot"
      /\ [cached EXCEPT !.cur = RootSecret.key].phase = cached.phase
      /\ [cached EXCEPT !.prev = RootSecret.key, !.phase = "PreservingOldRoot"].phase = "PreservingOldRoot"
      /\ [cached EXCEPT !.prev = None, !.phase = "Idle"].phase = "Idle"
      /\ [cached EXCEPT !.cur = RootSecret.key, !.phase = "DualTrustActive"].phase = "DualTrustActive"
      /\ [cached EXCEPT !.dual = "True", !.reissued = "False",
                        !.phase = "AwaitingReissuance"].phase = "AwaitingReissuance"
      /\ [cached EXCEPT !.reissued = "True", !.phase = "VerifyingChain"].phase = "VerifyingChain"
      /\ [cached EXCEPT !.verified = "True", !.phase = "Complete"].prev = cached.prev
    BY <1>0 DEF RootStatus
<1>4. CASE UNCHANGED <<status, cached>>
    BY <1>4
<1>5. CASE InitialisePhase
    BY <1>1, <1>3, <1>5 DEF InitialisePhase
<1>6. CASE IdleSKIDChanged
    BY <1>1, <1>3, <1>6 DEF IdleSKIDChanged
<1>7. CASE IdleBaseline
    BY <1>1, <1>3, <1>7 DEF IdleBaseline, Idle
<1>8. CASE IdleRequestDetected
    BY <1>1, <1>3, <1>8 DEF IdleRequestDetected
<1>9. CASE PreservingAbort
    BY <1>1, <1>3, <1>9 DEF PreservingAbort
<1>10. CASE PreservingRenewed
    BY <1>1, <1>3, <1>10 DEF PreservingRenewed
<1>11. CASE DualTrustExtended
    BY <1>1, <1>3, <1>11 DEF DualTrustExtended
<1>12. CASE AwaitingTier2Reissued
    BY <1>1, <1>3, <1>12 DEF AwaitingTier2Reissued
<1>13. CASE VerifyPasses
    <2> DEFINE new == [cached EXCEPT !.verified = "True", !.phase = "Complete"]
    <2>1. Update(new) /\ new.prev = cached.prev
        BY <1>3, <1>13 DEF VerifyPasses
    <2> HIDE DEF new
    <2>2. st \in {status, cached, new}
        BY <2>1, UpdateOutcome
    <2> QED BY <1>13, <2>1, <2>2
<1>14. CASE Complete
    BY <1>1, <1>3, <1>14 DEF Complete
<1>15. CASE \/ AwaitingTier1 \/ AwaitingTier2 \/ VerifyTier1Fails
            \/ \E c \in Tier2 : VerifyTier2Fails(c)
            \/ \E l \in TrackedLeaves : VerifyLeafFails(l)
            \/ DualTrustBlocked
    BY <1>2, <1>15
    DEF AwaitingTier1, AwaitingTier2, VerifyTier1Fails, VerifyTier2Fails, VerifyLeafFails,
        DualTrustBlocked, Awaiting, Verifying
<1>16. CASE ReconcileRoot
    BY <1>4, <1>5, <1>6, <1>7, <1>8, <1>9, <1>10, <1>11, <1>12, <1>13, <1>14, <1>15, <1>16
    DEF ReconcileRoot, IdleQuiet
<1>17. CASE RootInterrupted
    BY <1>4, <1>15, <1>17
    DEF RootInterrupted, IdleInterrupted, DualTrustInterrupted, AwaitingInterrupted, CompleteInterrupted
<1>18. ASSUME NEW c \in CAs, ReconcileChild(c) \/ ChildInterrupted(c) PROVE UNCHANGED <<status, cached>>
    BY <1>18, ChildStepFrame DEF childHandlerEnv
<1> QED BY <1>4, <1>16, <1>17, <1>18 DEF OperatorStep

(* What is issued while a rotation is over chains beyond the root it left, as its issuer
   does. *)
LEMMA IssuedAnchorsMove ==
    ASSUME ChainInv, NEW c \in Certs, Issue(c), NEW st \in {status, cached}
    PROVE  st.phase = "Complete" => \A d \in Certs : crt'[d].anchor > st.prev
<1>1. SUFFICES ASSUME st.phase = "Complete" PROVE \A d \in Certs : crt'[d].anchor > st.prev
    OBVIOUS
<1>2. \A d \in Certs : crt[d].anchor > st.prev
    BY <1>1 DEF ChainInv, AnchorsMoved
<1>3. /\ crt'[c].anchor = SigningWith(Parent[c]).anchor
      /\ \A d \in Certs : d # c => crt'[d] = crt[d]
    BY IssueOutcome DEF ChainInv, TrimInv
<1>4. SigningWith(Parent[c]) = LiveSigner(Parent[c])
    BY DEF SigningWith, ChainInv
<1>5. Parent[c] = Root \/ (Parent[c] \in Certs /\ Parent[c] # Root)
    BY ClusterAssumption DEF Signers, Certs
<1>6. CASE Parent[c] = Root
    <2>1. crt'[c].anchor = root.key
        BY <1>3, <1>4, <1>6 DEF LiveSigner
    <2>2. /\ st.prev < st.cur /\ st.cur <= RootSecret.key /\ RootSecret.key <= root.key
          /\ st.prev \in Nat /\ st.cur \in Nat /\ RootSecret.key \in Nat /\ root.key \in Nat
        BY <1>1, ReadTypes DEF ChainInv, TrimInv, TypeOK, LeavesBehind, SignedUpTo, RootStatus, Secret
    <2> QED BY <1>2, <1>3, <2>1, <2>2
<1>7. CASE Parent[c] \in Certs /\ Parent[c] # Root
    BY <1>2, <1>3, <1>4, <1>7 DEF LiveSigner
<1> QED BY <1>5, <1>6, <1>7

(* A tier-1 certificate chains to the key that signed it. *)
LEMMA Tier1AnchorNext ==
    ASSUME ChainInv, [Next]_vars PROVE \A t \in Tier1 : crt'[t].anchor >= crt'[t].akid
<1>0. /\ TypeOK /\ "issuerLag" \notin Env
      /\ \A t \in Tier1 : t \in Certs /\ Parent[t] = Root /\ crt[t].anchor >= crt[t].akid
    BY DEF ChainInv, TrimInv, Tier1, Certs
<1>1. CASE UNCHANGED crt
    BY <1>0, <1>1
<1>2. ASSUME NEW c \in Certs, Issue(c) PROVE \A t \in Tier1 : crt'[t].anchor >= crt'[t].akid
    <2>1. /\ crt'[c].akid = SigningWith(Parent[c]).key
          /\ crt'[c].anchor = SigningWith(Parent[c]).anchor
          /\ \A d \in Certs : d # c => crt'[d] = crt[d]
        BY <1>0, <1>2, IssueOutcome
    <2>2. Parent[c] = Root => SigningWith(Parent[c]) = [key |-> root.key, anchor |-> root.key]
        BY <1>0 DEF SigningWith, LiveSigner
    <2>3. root.key \in Nat
        BY <1>0 DEF TypeOK, Secret
    <2>4. ASSUME Parent[c] = Root PROVE crt'[c].anchor >= crt'[c].akid
        BY <2>1, <2>2, <2>3, <2>4
    <2> QED BY <1>0, <2>1, <2>4
<1>3. ASSUME NEW c \in Certs, DeleteSecret(c) PROVE \A t \in Tier1 : crt'[t].anchor >= crt'[t].akid
    BY <1>0, <1>3, DeleteOutcome
<1>4. (\E p \in Signers : LoadIssuer(p)) \/ WriteRootSecret \/ DeleteRoot => UNCHANGED crt
    BY DEF LoadIssuer, WriteRootSecret, DeleteRoot, certVars
<1> QED BY <1>1, <1>2, <1>3, <1>4, IssuingSteps

(* ChainInv is inductive. *)
LEMMA ChainNext == ThreeTiers /\ ChainInv /\ [Next]_vars => ChainInv'
<1> SUFFICES ASSUME ThreeTiers, ChainInv, [Next]_vars PROVE ChainInv'
    OBVIOUS
<1>1. TypeOK /\ TrimInv' /\ IssuedInTurn' /\ {"statusLag", "issuerLag", "sameSecond"} \cap Env = {}
    BY TrimNext, TurnNext DEF ChainInv, TrimInv
<1>2. \A st \in {status, cached} : st.phase = "Complete" => \A c \in Certs : crt[c].anchor > st.prev
    BY DEF ChainInv, AnchorsMoved
<1>3. \A st \in {status', cached'} : st.phase = "Complete" => \A c \in Certs : crt'[c].anchor > st.prev
    <2>1. CASE OperatorStep
        <3>1. UNCHANGED crt
            BY <2>1, HandlersIssueNothing
        <3>2. VerifyPasses => \A c \in Certs : crt[c].anchor > cached.prev
            BY VerificationMovesAnchors
        <3> QED BY <1>1, <1>2, <2>1, <3>1, <3>2, CompleteIsVerified
    <2>2. CASE EnvironmentStep \/ UNCHANGED vars
        <3>1. status' = status /\ cached' \in {status, cached}
            BY <2>2
            DEF EnvironmentStep, CertManager, Disruption, Issue, Publish, LoadIssuer, RenewCertificate,
                DeleteSecret, DeleteChild, RequestRoot, RequestAbsentRoot, SignRoot, FailRoot, RetryRoot,
                WriteRootSecret, DeleteRoot, DeleteConfigMap, Distribute, Informers, CacheSync, Sync,
                crdVars, vars
        <3>2. CASE UNCHANGED crt
            BY <1>2, <3>1, <3>2
        <3>3. ASSUME NEW c \in Certs, Issue(c)
              PROVE  \A st \in {status, cached} :
                        st.phase = "Complete" => \A d \in Certs : crt'[d].anchor > st.prev
            BY <3>3, IssuedAnchorsMove
        <3>4. ASSUME NEW c \in Certs, DeleteSecret(c)
              PROVE  \A st \in {status, cached} :
                        st.phase = "Complete" => \A d \in Certs : crt'[d].anchor > st.prev
            BY <1>1, <1>2, <3>4, DeleteOutcome
        <3>5. (\E p \in Signers : LoadIssuer(p)) \/ WriteRootSecret \/ DeleteRoot => UNCHANGED crt
            BY DEF LoadIssuer, WriteRootSecret, DeleteRoot, certVars
        <3> QED BY <3>1, <3>2, <3>3, <3>4, <3>5, IssuingSteps
    <2> QED BY <2>1, <2>2 DEF Next
<1>4. AnchorsMoved(status)' /\ AnchorsMoved(cached)'
    BY <1>3 DEF AnchorsMoved
<1>5. \A t \in Tier1 : crt'[t].anchor >= crt'[t].akid
    BY Tier1AnchorNext
<1> QED BY <1>1, <1>4, <1>5 DEF ChainInv

(* The trim takes away the root no chain ends at. *)
LEMMA TrimmedRootLeft == ChainInv /\ [Next]_vars => KeepsEveryAnchor
<1> SUFFICES ASSUME ChainInv, [Next]_vars PROVE KeepsEveryAnchor
    OBVIOUS
<1>0. TrimInv
    BY DEF ChainInv
<1>1. CASE StagedKeys \subseteq StagedKeys'
    BY <1>1 DEF KeepsEveryAnchor
<1>2. CASE cached.phase = "Complete" /\ StagedKeys \ {cached.prev} \subseteq StagedKeys'
    <2>1. \A c \in Certs : crt[c].anchor > cached.prev /\ crt[c].anchor \in Nat /\ cached.prev \in Nat
        BY <1>2 DEF ChainInv, AnchorsMoved, TrimInv, TypeOK, Certificate, RootStatus
    <2>2. \A c \in Certs : crt[c].anchor # cached.prev
        BY <2>1
    <2> QED BY <1>2, <2>2 DEF KeepsEveryAnchor
<1>3. CASE DeleteConfigMap
    BY <1>3 DEF DeleteConfigMap, KeepsEveryAnchor
<1> QED BY <1>0, <1>1, <1>2, <1>3, StagedStep

(* In the hierarchy the handlers are written for, and where a notBefore is fresh and tells
   certificates apart, no step takes away the root at the end of any certificate's chain, tier-1,
   tier-2 or leaf: the old root is trimmed only after reconcileVerifyingChain has seen every
   one of them re-issued, and what is renewed, deleted or failed in between does not lead a
   chain back to it. *)
THEOREM TrimmingKeepsEveryChain ==
    ASSUME {"configMapLag", "statusLag", "issuerLag", "sameSecond"} \cap Env = {}, ThreeTiers
    PROVE  Spec => TrimKeepsEveryAnchor
<1>1. Init => ChainInv
    BY ChainInit
<1>2. ChainInv /\ [Next]_vars => ChainInv'
    BY ChainNext
<1>3. ChainInv /\ [Next]_vars => [KeepsEveryAnchor]_vars
    BY TrimmedRootLeft
<1> QED BY <1>1, <1>2, <1>3, PTL DEF Spec, TrimKeepsEveryAnchor

---------------------------------------------------------------------------
(* Where certificates are re-issued for the operator alone. *)

(* What the handlers trigger besides tier-1 is none of tier-1. *)
LEMMA TiersApart ==
    ASSUME ThreeTiers
    PROVE  /\ Children(Root) \subseteq Tier1
           /\ Tier1 \cap Tier2 = {} /\ Tier1 \cap TrackedLeaves = {}
           /\ \A c \in CAs : Tier1 \cap Children(c) = {} /\ Tier1 \cap Below(c) = {}
<1>0. Root \notin CAs /\ CAs \cap Leaves = {} /\ Tier1 \subseteq CAs /\ Tier2 \subseteq CAs
    BY ClusterAssumption DEF Certs, Tier1, Tier2
<1>1. Children(Root) \subseteq Tier1
    BY <1>0 DEF ThreeTiers, Children, Certs, Tier1
<1>2. Tier1 \cap Tier2 = {}
    BY <1>0 DEF Tier1, Tier2
<1>3. Tier1 \cap TrackedLeaves = {}
    BY <1>0 DEF TrackedLeaves
<1>4. ASSUME NEW c \in CAs PROVE Tier1 \cap Children(c) = {} /\ Tier1 \cap Below(c) = {}
    <2>1. c # Root /\ c \in Signers
        BY <1>0 DEF Signers
    <2>2. Tier1 \cap Children(c) = {}
        BY <2>1 DEF Tier1, Children
    <2> QED BY <2>1, <2>2, Tier1BelowRootOnly
<1> QED BY <1>1, <1>2, <1>3, <1>4

(* A trigger marks nothing but what it is given. *)
LEMMA TriggersGiven ==
    ASSUME NEW S, Trigger(S), Tier1 \cap S = {}
    PROVE  \A t \in Tier1 : t \in issuing' <=> t \in issuing
BY DEF Trigger

(* Without a cache that lags an update is written. *)
LEMMA UpdateWritten ==
    ASSUME AnchorInv, NEW new, Update(new) PROVE status' = new /\ cached' = new
BY DEF AnchorInv, Update, Written, Conflicted, Disrupt

(* The sweep finds no tier-1 certificate where all carry the key the operator sees. *)
LEMMA SweepFindsNone ==
    ASSUME ThreeTiers, EnsureThenSweep, \A t \in Tier1 : crt[t].akid = RootSecret.key
    PROVE  issuing' = issuing
<1>1. StaleChildren(Root, RootSecret.key) = {}
    <2>1. \A c \in Children(Root) : AKID(c) \in {None, RootSecret.key}
        BY TiersApart DEF AKID
    <2> QED BY <2>1 DEF StaleChildren
<1>2. \A S \in Attempts({}) : S = {}
    BY DEF Attempts
<1>3. ASSUME SweepRootChildren PROVE issuing' = issuing
    <2>1. PICK S \in Attempts({}) : Trigger(S)
        BY <1>1, <1>3 DEF SweepRootChildren
    <2>2. Trigger({})
        BY <1>2, <2>1
    <2> QED BY <2>2 DEF Trigger
<1> QED BY <1>3 DEF EnsureThenSweep

(* A handler that keeps phase and SKIDs keeps what tier-1 is signed with. *)
LEMMA TurnKept ==
    ASSUME AnchorInv, UNCHANGED <<root, crt>>,
           NEW new, new.phase = status.phase, new.cur = status.cur, new.prev = status.prev,
           status' = new, cached' = new, \A t \in Tier1 : t \in issuing' => t \in issuing
    PROVE  Tier1InTurn' /\ cached' = status'
BY DEF AnchorInv, Tier1InTurn

(* Tier-1 is marked for re-issue when the window has opened, and by no other handler. *)
LEMMA InTurnReconcileRoot ==
    ASSUME ThreeTiers, AnchorInv, ReconcileRoot PROVE Tier1InTurn' /\ cached' = status'
<1>0. /\ cached = status /\ status \in RootStatus /\ cached \in RootStatus
      /\ RotationInv /\ Tier1InTurn /\ OneRenewal(status) /\ Window(status, staging)
      /\ LeavesBehind(status, RootSecret.key, crt)
      /\ RootSecret.key \in Nat
    BY ReadTypes DEF AnchorInv, RotationInv, TrimInv, TypeOK
<1>1. UNCHANGED <<root, crt>>
    BY HandlersIssueNothing DEF OperatorStep
<1>2. CASE InitialisePhase
    <2> DEFINE new == [cached EXCEPT !.phase = "Idle"]
    <2>1. new.phase = "Idle" /\ new.cur = status.cur /\ status.phase = ""
        BY <1>0, <1>2 DEF InitialisePhase, RootStatus
    <2>2. Update(new) /\ UNCHANGED issuing
        BY <1>2 DEF InitialisePhase
    <2> HIDE DEF new
    <2>3. status' = new /\ cached' = new /\ status.cur = None
        BY <1>0, <2>1, <2>2, UpdateWritten DEF Window
    <2> QED BY <1>0, <1>1, <2>1, <2>2, <2>3 DEF Tier1InTurn
<1>3. CASE IdleSKIDChanged
    <2> DEFINE new == [cached EXCEPT !.prev = cached.cur, !.cur = RootSecret.key,
                                     !.phase = "PreservingOldRoot"]
    <2>1. /\ new.phase = "PreservingOldRoot" /\ new.cur = RootSecret.key /\ new.prev = status.cur
          /\ status.phase = "Idle" /\ status.cur # None
        BY <1>0, <1>3 DEF IdleSKIDChanged, Idle, RootStatus
    <2>2. Update(new) /\ UNCHANGED issuing
        BY <1>3 DEF IdleSKIDChanged
    <2> HIDE DEF new
    <2>3. status' = new /\ cached' = new /\ RootSecret.key # None
        BY <1>0, <2>2, UpdateWritten DEF OneRenewal
    <2> QED BY <1>0, <1>1, <2>1, <2>2, <2>3 DEF Tier1InTurn
<1>4. CASE IdleBaseline
    <2> DEFINE new == [cached EXCEPT !.cur = RootSecret.key]
    <2>1. new.phase = "Idle" /\ new.cur = RootSecret.key /\ status.phase = "Idle" /\ status.cur = None
        BY <1>0, <1>4 DEF IdleBaseline, Idle, RootStatus
    <2>2. Update(new) /\ EnsureThenSweep
        BY <1>0, <1>4 DEF IdleBaseline
    <2> HIDE DEF new
    <2>3. status' = new /\ cached' = new /\ RootSecret.key # None /\ RootSecret = root
        BY <1>0, <2>1, <2>2, UpdateWritten DEF OneRenewal, RootInStatus
    <2>4. \A t \in Tier1 : crt[t].akid = RootSecret.key
        BY <1>0, <2>1, <2>3 DEF Tier1InTurn
    <2>5. issuing' = issuing
        BY <2>2, <2>4, SweepFindsNone
    <2> QED BY <1>0, <1>1, <2>1, <2>3, <2>4, <2>5 DEF Tier1InTurn
<1>5. CASE IdleRequestDetected
    <2> DEFINE new == [cached EXCEPT !.prev = RootSecret.key, !.phase = "PreservingOldRoot"]
    <2>1. /\ new.phase = "PreservingOldRoot" /\ new.cur = status.cur /\ new.prev = status.cur
          /\ status.phase = "Idle" /\ status.cur = RootSecret.key
        BY <1>0, <1>5 DEF IdleRequestDetected, Idle, RootStatus
    <2>2. Update(new) /\ UNCHANGED issuing
        BY <1>5 DEF IdleRequestDetected
    <2> HIDE DEF new
    <2>3. status' = new /\ cached' = new /\ RootSecret.key # None
        BY <1>0, <2>2, UpdateWritten DEF OneRenewal
    <2> QED BY <1>0, <1>1, <2>1, <2>2, <2>3 DEF Tier1InTurn
<1>6. CASE IdleQuiet
    <2>1. status.phase = "Idle" /\ status.cur = RootSecret.key /\ EnsureThenSweep
          /\ UNCHANGED <<status, cached>>
        BY <1>0, <1>6 DEF IdleQuiet, Idle
    <2>2. RootSecret.key # None
        BY <1>0 DEF OneRenewal
    <2>3. \A t \in Tier1 : crt[t].akid = RootSecret.key
        BY <1>0, <2>1, <2>2 DEF Tier1InTurn
    <2>4. issuing' = issuing
        BY <2>1, <2>3, SweepFindsNone
    <2> QED BY <1>0, <1>1, <2>1, <2>4 DEF Tier1InTurn
<1>7. CASE PreservingAbort
    <2> DEFINE new == [cached EXCEPT !.prev = None, !.phase = "Idle"]
    <2>1. /\ new.phase = "Idle" /\ new.cur = status.cur
          /\ status.phase = "PreservingOldRoot" /\ status.prev = RootSecret.key
        BY <1>0, <1>7 DEF PreservingAbort, Preserving, RootStatus
    <2>2. Update(new) /\ UNCHANGED issuing
        BY <1>7 DEF PreservingAbort
    <2> HIDE DEF new
    <2>3. status' = new /\ cached' = new /\ status.cur = status.prev
        BY <1>0, <2>1, <2>2, UpdateWritten DEF OneRenewal
    <2> QED BY <1>0, <1>1, <2>1, <2>2, <2>3 DEF Tier1InTurn
<1>8. CASE PreservingRenewed
    <2> DEFINE new == [cached EXCEPT !.cur = RootSecret.key, !.phase = "DualTrustActive"]
    <2>1. /\ new.phase = "DualTrustActive" /\ new.cur = RootSecret.key /\ new.prev = status.prev
          /\ status.phase = "PreservingOldRoot"
        BY <1>0, <1>8 DEF PreservingRenewed, Preserving, RootStatus
    <2>2. Update(new) /\ UNCHANGED issuing
        BY <1>8 DEF PreservingRenewed
    <2> HIDE DEF new
    <2>3. status' = new /\ cached' = new /\ RootSecret.key # None /\ status.cur # None
        <3>1. status.phase # "Idle" /\ status.phase # ""
            BY <2>1
        <3>2. status.cur # None
            BY <1>0, <3>1 DEF Window
        <3> QED BY <1>0, <2>2, <3>2, UpdateWritten DEF OneRenewal
    <2> QED BY <1>0, <1>1, <2>1, <2>2, <2>3 DEF Tier1InTurn
<1>9. CASE DualTrustExtended
    <2> DEFINE new == [cached EXCEPT !.dual = "True", !.reissued = "False",
                                     !.phase = "AwaitingReissuance"]
    <2>1. /\ new.phase = "AwaitingReissuance" /\ new.cur = status.cur /\ new.prev = status.prev
          /\ status.phase = "DualTrustActive"
        BY <1>0, <1>9 DEF DualTrustExtended, RootStatus
    <2>2. Update(new)
        BY <1>9 DEF DualTrustExtended
    <2> HIDE DEF new
    <2>3. status' = new /\ cached' = new /\ status.cur # None
        BY <1>0, <2>1, <2>2, UpdateWritten DEF OneRenewal
    <2>4. status.prev # status.cur
        BY <1>0, <2>1 DEF LeavesBehind, RootStatus
    <2>5. \A t \in Tier1 : crt[t].akid # status.cur
        BY <1>0, <2>1, <2>3, <2>4 DEF Tier1InTurn
    <2> QED BY <1>1, <2>1, <2>3, <2>5 DEF Tier1InTurn
<1>10. CASE AwaitingTier2Reissued
    <2> DEFINE new == [cached EXCEPT !.reissued = "True", !.phase = "VerifyingChain"]
    <2>1. /\ new.phase = "VerifyingChain" /\ new.cur = status.cur /\ new.prev = status.prev
          /\ status.phase = "AwaitingReissuance"
        BY <1>0, <1>10 DEF AwaitingTier2Reissued, Awaiting, RootStatus
    <2>2. Update(new) /\ Trigger(TrackedLeaves)
        BY <1>10 DEF AwaitingTier2Reissued
    <2> HIDE DEF new
    <2>3. status' = new /\ cached' = new /\ status.cur # None
        BY <1>0, <2>1, <2>2, UpdateWritten DEF OneRenewal
    <2>4. \A t \in Tier1 : crt[t].akid = status.cur
        BY <1>0, <1>10 DEF AwaitingTier2Reissued, Tier1Reissued, AKID
    <2>5. \A t \in Tier1 : t \notin issuing'
        BY <1>0, <2>2, <2>4, TriggersGiven, TiersApart DEF Tier1InTurn
    <2> QED BY <1>1, <2>1, <2>3, <2>4, <2>5 DEF Tier1InTurn
<1>11. CASE VerifyPasses
    <2> DEFINE new == [cached EXCEPT !.verified = "True", !.phase = "Complete"]
    <2>1. new.phase = "Complete" /\ new.cur = status.cur /\ status.phase = "VerifyingChain"
        BY <1>0, <1>11 DEF VerifyPasses, Verifying, RootStatus
    <2>2. Update(new) /\ UNCHANGED issuing
        BY <1>11 DEF VerifyPasses
    <2> HIDE DEF new
    <2>3. status' = new /\ cached' = new /\ status.cur # None
        BY <1>0, <2>1, <2>2, UpdateWritten DEF OneRenewal
    <2> QED BY <1>0, <1>1, <2>1, <2>2, <2>3 DEF Tier1InTurn
<1>12. CASE Complete
    <2> DEFINE new == [cached EXCEPT !.prev = None, !.phase = "Idle"]
    <2>1. new.phase = "Idle" /\ new.cur = status.cur /\ status.phase = "Complete"
        BY <1>0, <1>12 DEF Complete, RootStatus
    <2>2. Update(new) /\ UNCHANGED issuing
        BY <1>12 DEF Complete
    <2> HIDE DEF new
    <2>3. status' = new /\ cached' = new /\ status.cur # None
        BY <1>0, <2>1, <2>2, UpdateWritten DEF OneRenewal
    <2> QED BY <1>0, <1>1, <2>1, <2>2, <2>3 DEF Tier1InTurn
<1>13. ASSUME NEW S, Trigger(S), Tier1 \cap S = {} PROVE \A t \in Tier1 : t \in issuing' => t \in issuing
    BY <1>13, TriggersGiven
<1>14. ASSUME NEW c, c \notin Tier1, Retrigger({c})
       PROVE  \A t \in Tier1 : t \in issuing' => t \in issuing
    <2>1. PICK T \in Attempts({c}) : Trigger(T)
        BY <1>14 DEF Retrigger
    <2>2. T \subseteq {c}
        BY AttemptsSubset
    <2> QED BY <1>13, <1>14, <2>1, <2>2
<1>15. ASSUME NEW field \in {"dual", "reissued", "verified"}, NEW value, Condition(field, value),
              \A t \in Tier1 : t \in issuing' => t \in issuing
       PROVE  Tier1InTurn' /\ cached' = status'
    <2> DEFINE new == [cached EXCEPT ![field] = value]
    <2>1. new.phase = status.phase /\ new.cur = status.cur /\ new.prev = status.prev
        BY <1>0, <1>15 DEF RootStatus
    <2>2. Update(new)
        BY <1>15 DEF Condition
    <2> HIDE DEF new
    <2>3. status' = new /\ cached' = new
        BY <2>2, UpdateWritten
    <2> QED BY <1>1, <1>15, <2>1, <2>3, TurnKept
<1>16. CASE AwaitingTier1 \/ VerifyTier1Fails
    BY <1>15, <1>16 DEF AwaitingTier1, VerifyTier1Fails
<1>17. CASE AwaitingTier2
    <2>1. Tier1 \cap Tier2Predating = {}
        BY TiersApart DEF Tier2Predating
    <2> QED BY <1>13, <1>15, <1>17, <2>1 DEF AwaitingTier2
<1>18. ASSUME NEW c \in Tier2, VerifyTier2Fails(c) PROVE Tier1InTurn' /\ cached' = status'
    BY <1>14, <1>15, <1>18, TiersApart DEF VerifyTier2Fails
<1>19. ASSUME NEW l \in TrackedLeaves, VerifyLeafFails(l) PROVE Tier1InTurn' /\ cached' = status'
    <2>1. \A t \in Tier1 : t \in issuing' => t \in issuing
        BY <1>14, <1>19, TiersApart DEF VerifyLeafFails
    <2> QED BY <1>15, <1>19, <2>1 DEF VerifyLeafFails
<1> QED
    BY <1>2, <1>3, <1>4, <1>5, <1>6, <1>7, <1>8, <1>9, <1>10, <1>11, <1>12, <1>16, <1>17, <1>18, <1>19
    DEF ReconcileRoot

(* Without failing calls an interrupted handler of the root changes no phase. *)
LEMMA InTurnRootInterrupted ==
    ASSUME AnchorInv, RootInterrupted PROVE Tier1InTurn' /\ cached' = status'
<1>0. UNCHANGED <<root, crt>> /\ cached = status /\ status \in RootStatus /\ "apiFail" \notin Env
    BY HandlersIssueNothing DEF OperatorStep, AnchorInv, RotationInv, TrimInv, TypeOK
<1>1. CASE IdleInterrupted
    BY <1>0, <1>1, TurnKept DEF IdleInterrupted
<1>2. CASE DualTrustBlocked
    <2> DEFINE new == [cached EXCEPT !.dual = "False"]
    <2>1. new.phase = status.phase /\ new.cur = status.cur /\ new.prev = status.prev
        BY <1>0 DEF RootStatus
    <2>2. Update(new) /\ UNCHANGED issuing
        BY <1>2 DEF DualTrustBlocked, Condition
    <2> HIDE DEF new
    <2>3. status' = new /\ cached' = new
        BY <2>2, UpdateWritten
    <2> QED BY <1>0, <2>1, <2>2, <2>3, TurnKept
<1>3. ~DualTrustInterrupted /\ ~AwaitingInterrupted /\ ~CompleteInterrupted
    BY <1>0 DEF DualTrustInterrupted, AwaitingInterrupted, CompleteInterrupted, Disrupt
<1> QED BY <1>1, <1>2, <1>3 DEF RootInterrupted

(* A child triggers what is below its CA, and no tier-1 certificate is. *)
LEMMA InTurnChild ==
    ASSUME ThreeTiers, AnchorInv, NEW c \in CAs, ReconcileChild(c) \/ ChildInterrupted(c)
    PROVE  Tier1InTurn' /\ cached' = status'
<1>0. UNCHANGED <<root, crt, status, cached>> /\ cached = status
    BY ChildStepFrame DEF childHandlerEnv, rootVars, AnchorInv
<1>1. ASSUME NEW S, Trigger(S), S \subseteq Below(c) \cup Children(c)
      PROVE  \A t \in Tier1 : t \in issuing' => t \in issuing
    <2>1. Tier1 \cap S = {}
        BY <1>1, TiersApart
    <2> QED BY <1>1, <2>1, TriggersGiven
<1>2. ASSUME SweepIntermediateChildren(c) PROVE \A t \in Tier1 : t \in issuing' => t \in issuing
    <2>1. PICK S \in Attempts(StaleChildren(c, SKID(c))) : Trigger(S)
        BY <1>2 DEF SweepIntermediateChildren
    <2>2. S \subseteq Children(c)
        BY AttemptsSubset DEF StaleChildren
    <2> QED BY <1>1, <2>1, <2>2
<1>3. ASSUME ChildPending(c) PROVE \A t \in Tier1 : t \in issuing' => t \in issuing
    <2>1. PICK unread : Retrigger(Outdated(c) \cup (Mismatched(c) \ unread))
        BY <1>3 DEF ChildPending
    <2>2. PICK S \in Attempts(Outdated(c) \cup (Mismatched(c) \ unread)) : Trigger(S)
        BY <2>1 DEF Retrigger
    <2>3. S \subseteq Below(c) \cup Children(c)
        BY AttemptsSubset DEF Outdated, Mismatched
    <2> QED BY <1>1, <2>2, <2>3
<1>4. \A t \in Tier1 : t \in issuing' => t \in issuing
    <2>1. CASE UNCHANGED issuing
        BY <2>1
    <2>2. CASE ChildTriggers(c) \/ ChildInterrupted(c)
        BY <1>1, <2>2 DEF ChildTriggers, ChildInterrupted
    <2> QED
        BY <1>2, <1>3, <2>1, <2>2
        DEF ReconcileChild, ChildBaseline, ChildQuiet, ChildYields, ChildCascades, ChildDrift,
            ChildVerified, ChildCompletes
<1> QED BY <1>0, <1>4, TurnKept

(* cert-manager clears the mark when it has signed with the root the rotation moves to; the
   root itself is not renewed before the first one is recorded. *)
LEMMA InTurnEnvironment ==
    ASSUME AnchorInv, EnvironmentStep PROVE Tier1InTurn' /\ cached' = status'
<1>0. /\ TypeOK /\ Tier1InTurn /\ OneRenewal(status) /\ cached = status
      /\ {"apiFail", "cacheLag", "renew", "deleteSecret", "issuerLag"} \cap Env = {}
    BY DEF AnchorInv, RotationInv, ChainInv, TrimInv
<1>1. UNCHANGED <<status, cached>>
    BY <1>0
    DEF EnvironmentStep, CertManager, Disruption, Issue, Publish, LoadIssuer, RenewCertificate,
        DeleteSecret, DeleteChild, RequestRoot, RequestAbsentRoot, SignRoot, FailRoot, RetryRoot,
        WriteRootSecret, DeleteRoot, DeleteConfigMap, Distribute, Informers, CacheSync, Sync, crdVars
<1>2. ASSUME NEW c \in Certs, Issue(c) PROVE Tier1InTurn'
    <2>1. /\ c \in issuing /\ issuing' = issuing \ {c} /\ UNCHANGED root
          /\ \A d \in Certs : d # c => crt'[d] = crt[d]
        BY <1>0, <1>2, IssueOutcome DEF Issue
    <2>2. Tier1 \subseteq Certs
        BY DEF Tier1, Certs
    <2>3. CASE c \in Tier1
        <3>1. status.phase = "AwaitingReissuance" /\ status.cur # None
            BY <1>0, <2>1, <2>3 DEF Tier1InTurn, OneRenewal
        <3> QED BY <1>0, <1>1, <2>1, <2>2, <3>1 DEF Tier1InTurn
    <2>4. CASE c \notin Tier1
        <3>1. \A t \in Tier1 : crt'[t] = crt[t] /\ (t \in issuing' <=> t \in issuing)
            BY <2>1, <2>2, <2>4
        <3> QED BY <1>0, <1>1, <2>1, <3>1 DEF Tier1InTurn
    <2> QED BY <2>3, <2>4
<1>3. CASE WriteRootSecret
    <2>1. status.cur # None /\ UNCHANGED <<crt, issuing>>
        BY <1>0, <1>3 DEF WriteRootSecret, OneRenewal, certVars
    <2> QED BY <1>0, <1>1, <2>1 DEF Tier1InTurn
<1>4. CASE DeleteRoot
    <2>1. root'.key = root.key /\ UNCHANGED <<crt, issuing>>
        BY <1>0, <1>4 DEF DeleteRoot, TypeOK, Secret, certVars
    <2> QED BY <1>0, <1>1, <2>1 DEF Tier1InTurn
<1>5. CASE UNCHANGED <<root, crt, issuing>>
    BY <1>0, <1>1, <1>5 DEF Tier1InTurn
<1>6. /\ \A c \in Certs : ~RenewCertificate(c) /\ ~DeleteSecret(c)
    BY <1>0 DEF RenewCertificate, DeleteSecret, Disrupt
<1>7. Tier1InTurn'
    BY <1>2, <1>3, <1>4, <1>5, <1>6
    DEF EnvironmentStep, CertManager, Disruption, Publish, LoadIssuer, DeleteChild, RequestRoot,
        RequestAbsentRoot, SignRoot, FailRoot, RetryRoot, DeleteConfigMap, Distribute, Informers,
        CacheSync, Sync, rootVars, certVars
<1> QED BY <1>0, <1>1, <1>7

(* A certificate is issued below a staged root: tier-1 by the root a rotation moves to, which
   stands in the ConfigMap by then, and the others by a CA that chains to a staged root. *)
LEMMA IssuedUnderStaged ==
    ASSUME ThreeTiers, AnchorInv, NEW c \in Certs, Issue(c)
    PROVE  /\ staging.exists => crt'[c].anchor \in StagedKeys
           /\ ~staging.exists => crt'[c].anchor = root.key
<1>0. /\ TypeOK /\ Tier1InTurn /\ OneRenewal(status) /\ Window(status, staging) /\ AnchorsTrusted
      /\ "issuerLag" \notin Env
      /\ ~staging.exists => \A d \in Certs : crt[d].anchor = root.key
    BY DEF AnchorInv, RotationInv, ChainInv, TrimInv
<1>1. /\ crt'[c].anchor = LiveSigner(Parent[c]).anchor
      /\ SignerPresent(Parent[c]) /\ c \in issuing
    BY <1>0, IssueOutcome DEF Issue, SigningWith
<1>2. CASE Parent[c] = Root
    <2>1. c \in Tier1
        BY <1>2, TiersApart DEF Children
    <2>2. status.phase = "AwaitingReissuance" /\ status.cur = root.key /\ status.cur # None
        BY <1>0, <1>1, <2>1 DEF Tier1InTurn, OneRenewal
    <2>3. staging.exists /\ root.key \in StagedKeys
        BY <1>0, <2>2 DEF Window, StagedKeys
    <2>4. crt'[c].anchor = root.key
        BY <1>1, <1>2 DEF LiveSigner
    <2> QED BY <2>3, <2>4
<1>3. CASE Parent[c] # Root
    <2>1. Parent[c] \in Certs
        BY <1>3, ClusterAssumption DEF Signers, Certs
    <2>2. crt'[c].anchor = crt[Parent[c]].anchor /\ crt[Parent[c]].present
        BY <1>1, <1>3 DEF LiveSigner, SignerPresent
    <2> QED BY <1>0, <2>1, <2>2 DEF AnchorsTrusted
<1> QED BY <1>2, <1>3

(* Before the staging ConfigMap there is no renewal of the root. *)
LEMMA UnstagedRootKept ==
    ASSUME RotationInv, [Next]_vars, ~staging.exists PROVE root'.key = root.key
<1>0. status.cur = None /\ OneRenewal(status) /\ root \in Secret
    BY DEF RotationInv, Window, TrimInv, TypeOK
<1>1. ~WriteRootSecret
    BY <1>0 DEF WriteRootSecret, OneRenewal
<1>2. CASE DeleteRoot
    BY <1>0, <1>2 DEF DeleteRoot, Secret
<1>3. CASE \E c \in Certs : Issue(c)
    BY <1>3 DEF Issue, rootVars
<1>4. CASE (\E c \in Certs : DeleteSecret(c)) \/ (\E p \in Signers : LoadIssuer(p))
    BY <1>4 DEF DeleteSecret, LoadIssuer, rootVars
<1> QED BY <1>1, <1>2, <1>3, <1>4, IssuingSteps

(* What happens to the staging ConfigMap is one of four things. *)
LEMMA StagingSteps ==
    ASSUME [Next]_vars
    PROVE  \/ UNCHANGED staging
           \/ EnsureStagingConfigMap \/ ExtendStagingConfigMap \/ TrimStagingConfigMap
           \/ DeleteConfigMap
<1>1. CASE ReconcileRoot
    BY <1>1
    DEF ReconcileRoot, InitialisePhase, IdleSKIDChanged, IdleBaseline, IdleRequestDetected,
        IdleQuiet, PreservingAbort, PreservingRenewed, DualTrustExtended, AwaitingTier1,
        AwaitingTier2, AwaitingTier2Reissued, VerifyTier1Fails, VerifyTier2Fails,
        VerifyLeafFails, VerifyPasses, Complete, EnsureTrustAnchors
<1>2. CASE RootInterrupted
    BY <1>2
    DEF RootInterrupted, IdleInterrupted, DualTrustBlocked, DualTrustInterrupted,
        AwaitingInterrupted, CompleteInterrupted
<1>3. ASSUME NEW c \in CAs, ReconcileChild(c) \/ ChildInterrupted(c) PROVE UNCHANGED staging
    BY <1>3, ChildStepFrame DEF childHandlerEnv, trustVars
<1>4. CASE EnvironmentStep
    BY <1>4
    DEF EnvironmentStep, CertManager, Disruption, Issue, Publish, LoadIssuer,
        RenewCertificate, DeleteSecret, DeleteChild, RequestRoot, RequestAbsentRoot, SignRoot,
        FailRoot, RetryRoot, WriteRootSecret, DeleteRoot, Distribute, Informers, CacheSync, Sync, trustVars
<1> QED BY <1>1, <1>2, <1>3, <1>4 DEF Next, OperatorStep, vars, trustVars

(* Every anchor is staged after a step if it was before. *)
LEMMA AnchorsNext ==
    ASSUME ThreeTiers, AnchorInv, [Next]_vars
    PROVE  /\ AnchorsTrusted'
           /\ ~staging'.exists => \A c \in Certs : crt'[c].anchor = root'.key
<1>0. /\ TypeOK /\ TrimInv /\ RotationInv /\ ChainInv /\ AnchorsTrusted
      /\ {"deleteConfigMap", "deleteSecret"} \cap Env = {}
      /\ ~staging.exists => \A c \in Certs : crt[c].anchor = root.key
    BY DEF AnchorInv, RotationInv, ChainInv, TrimInv
<1>1. KeepsEveryAnchor
    BY <1>0, TrimmedRootLeft
<1>2. staging.exists => staging'.exists
    <2>1. CASE UNCHANGED staging
        BY <2>1
    <2>2. CASE EnsureStagingConfigMap
        BY <1>0, <2>2, EnsureKeepsKeys
    <2>3. CASE ExtendStagingConfigMap
        BY <1>0, <2>3, ExtendKeepsKeys
    <2>4. CASE TrimStagingConfigMap
        BY <1>0, <2>4, TrimKeepsOtherKeys
    <2>5. ~DeleteConfigMap
        BY <1>0 DEF DeleteConfigMap, Disrupt
    <2> QED BY <2>1, <2>2, <2>3, <2>4, <2>5, StagingSteps
<1>3. \A c \in Certs : ~DeleteSecret(c)
    BY <1>0 DEF DeleteSecret, Disrupt
<1>4. ASSUME NEW c \in Certs, Issue(c)
      PROVE  /\ AnchorsTrusted'
             /\ ~staging'.exists => \A d \in Certs : crt'[d].anchor = root'.key
    <2>1. UNCHANGED <<staging, root>> /\ \A d \in Certs : d # c => crt'[d] = crt[d]
        BY <1>0, <1>4, IssueOutcome
    <2>2. StagedKeys' = StagedKeys
        BY <2>1 DEF StagedKeys
    <2>3. /\ staging.exists => crt'[c].anchor \in StagedKeys
          /\ ~staging.exists => crt'[c].anchor = root.key
        BY <1>4, IssuedUnderStaged
    <2> QED BY <1>0, <2>1, <2>2, <2>3 DEF AnchorsTrusted
<1>5. CASE UNCHANGED crt
    <2>1. CASE staging.exists
        <3>1. staging'.exists
            BY <1>2, <2>1
        <3>2. \A c \in Certs : crt[c].present => crt[c].anchor \in StagedKeys'
            BY <1>0, <1>1, <2>1, <3>1 DEF KeepsEveryAnchor, AnchorsTrusted
        <3> QED BY <1>5, <3>1, <3>2 DEF AnchorsTrusted
    <2>2. CASE ~staging.exists
        <3>1. root'.key = root.key
            BY <1>0, <2>2, UnstagedRootKept
        <3>2. CASE ~staging'.exists
            BY <1>0, <1>5, <2>2, <3>1, <3>2 DEF AnchorsTrusted
        <3>3. CASE staging'.exists
            <4>1. EnsureStagingConfigMap
                <5>1. ~ExtendStagingConfigMap /\ ~DeleteConfigMap
                    BY <2>2 DEF ExtendStagingConfigMap, PatchStaging, DeleteConfigMap
                <5>2. TrimStagingConfigMap => UNCHANGED staging
                    BY <2>2 DEF TrimStagingConfigMap, PatchStaging
                <5> QED BY <2>2, <3>3, <5>1, <5>2, StagingSteps
            <4>2. StagedKeys' = {root.key}
                BY <1>0, <2>2, <4>1, EnsureOpensWindow DEF StagedKeys, RotationInv, Window
            <4> QED BY <1>0, <1>5, <2>2, <3>3, <4>2 DEF AnchorsTrusted
        <3> QED BY <3>2, <3>3
    <2> QED BY <2>1, <2>2
<1>6. (\E p \in Signers : LoadIssuer(p)) \/ WriteRootSecret \/ DeleteRoot => UNCHANGED crt
    BY DEF LoadIssuer, WriteRootSecret, DeleteRoot, certVars
<1> QED BY <1>3, <1>4, <1>5, <1>6, IssuingSteps

(* AnchorInv is inductive. *)
LEMMA AnchorNext == ThreeTiers /\ AnchorInv /\ [Next]_vars => AnchorInv'
<1> SUFFICES ASSUME ThreeTiers, AnchorInv, [Next]_vars PROVE AnchorInv'
    OBVIOUS
<1>1. RotationInv' /\ ChainInv'
    BY RotationNext, ChainNext DEF AnchorInv
<1>2. AnchorsTrusted' /\ (~staging'.exists => \A c \in Certs : crt'[c].anchor = root'.key)
    BY AnchorsNext
<1>3. Tier1InTurn' /\ cached' = status'
    <2>1. CASE UNCHANGED vars
        BY <2>1, TurnKept DEF vars, rootVars, certVars, crdVars, AnchorInv
    <2> QED
        BY <2>1, InTurnReconcileRoot, InTurnRootInterrupted, InTurnChild, InTurnEnvironment
        DEF Next, OperatorStep
<1>4. {"apiFail", "cacheLag", "renew", "deleteSecret"} \cap Env = {}
    BY DEF AnchorInv
<1> QED BY <1>1, <1>2, <1>3, <1>4 DEF AnchorInv

(* Every certificate of an installation whose root was not rotated before chains to the root
   in use, which is what an adopted ConfigMap holds. *)
LEMMA AnchorInit ==
    ASSUME {"rootAgain", "deleteConfigMap", "configMapLag", "statusLag", "issuerLag", "sameSecond",
            "apiFail", "cacheLag", "renew", "deleteSecret"} \cap Env = {},
           Root \notin RotatedBeforeInstall, Init
    PROVE  AnchorInv
<1>0. Root \in Signers /\ InstalledKey(Root) = 1
    BY DEF Signers, InstalledKey
<1>1. StagingAtInstall \subseteq {InstalledKey(Root)}
    BY <1>0, StagingAssumption
<1>2. RotationInv /\ ChainInv
    BY <1>1, RotationInit, ChainInit
<1>3. root.key = 1 /\ status.cur = None /\ status.phase = "" /\ issuing = {} /\ cached = status
    BY <1>0 DEF Init
<1>4. ASSUME NEW c \in Certs PROVE crt[c].anchor = 1
    <2>1. crt[c].anchor = InstalledCertificate(c).anchor
        BY DEF Init
    <2>2. c \in Below(Root)
        BY TreeAssumption
    <2> QED BY <1>0, <2>1, <2>2 DEF InstalledCertificate
<1>5. \A t \in Tier1 : crt[t].akid = 1
    <2>1. \A t \in Tier1 : t \in Certs /\ Parent[t] = Root
        BY DEF Tier1, Certs
    <2> QED BY <2>1 DEF Init, InstalledCertificate
<1>6. Tier1InTurn
    BY <1>3, <1>5 DEF Tier1InTurn
<1>7. AnchorsTrusted
    <2>1. staging.exists => StagedKeys = {1}
        BY <1>2, <1>3 DEF RotationInv, Window, StagedKeys
    <2> QED BY <1>4, <2>1 DEF AnchorsTrusted
<1>8. ~staging.exists => \A c \in Certs : crt[c].anchor = root.key
    BY <1>3, <1>4
<1> QED BY <1>2, <1>3, <1>6, <1>7, <1>8 DEF AnchorInv

(* Where certificates are re-issued for the operator alone, tier-1 carries the outgoing root
   until DualTrustActive has staged the new one, is re-issued in AwaitingReissuance only, and
   carries the recorded root from VerifyingChain on; and every chain ends at a root that is
   staged (reconcileDualTrustActive, tier1ReissuedAgainstNewRoot, verifyTier1Chain). *)
THEOREM AnchorInvariant ==
    ASSUME {"rootAgain", "deleteConfigMap", "configMapLag", "statusLag", "issuerLag", "sameSecond",
            "apiFail", "cacheLag", "renew", "deleteSecret"} \cap Env = {},
           Root \notin RotatedBeforeInstall, ThreeTiers
    PROVE  Spec => []AnchorInv
<1>1. Init => AnchorInv
    BY AnchorInit
<1>2. AnchorInv /\ [Next]_vars => AnchorInv'
    BY AnchorNext
<1> QED BY <1>1, <1>2, PTL DEF Spec

(* A client that trusts what the staging ConfigMap holds accepts every certificate in use, in
   every state of every rotation: extendStagingConfigMap puts the new root there before tier-1
   is re-issued under it, and trimStagingConfigMap takes the old one away after the last leaf
   has left it. It is so where a certificate is re-issued for the operator alone and calls do not
   fail; failed CertificateRequests, renewals with the same key, a lost root Secret and outdated
   copies of the root's Secret and of the Certificates do not disturb it. *)
THEOREM ClientsTrustEveryChain ==
    ASSUME {"rootAgain", "deleteConfigMap", "configMapLag", "statusLag", "issuerLag", "sameSecond",
            "apiFail", "cacheLag", "renew", "deleteSecret"} \cap Env = {},
           Root \notin RotatedBeforeInstall, ThreeTiers
    PROVE  Spec => []AnchorsTrusted
<1>1. AnchorInv => AnchorsTrusted
    BY DEF AnchorInv
<1> QED BY <1>1, AnchorInvariant, PTL

---------------------------------------------------------------------------
(* Every disturbance admitted: the chains end at two roots at most. *)

(* What is issued chains to the root in use or as far as its issuer. *)
LEMMA IssuedUnderOneOfTwo ==
    ASSUME TwoAnchorsInv, NEW c \in Certs, Issue(c)
    PROVE  \A d \in Certs : crt'[d].anchor \in {Outgoing(status), root.key}
<1>1. TypeOK /\ "issuerLag" \notin Env
    BY DEF TwoAnchorsInv, ChainInv, TrimInv
<1>2. /\ crt'[c].anchor = LiveSigner(Parent[c]).anchor
      /\ \A d \in Certs : d # c => crt'[d] = crt[d]
    BY <1>1, IssueOutcome DEF SigningWith
<1>3. Parent[c] = Root \/ (Parent[c] \in Certs /\ Parent[c] # Root)
    BY ClusterAssumption DEF Signers, Certs
<1>4. crt'[c].anchor \in {Outgoing(status), root.key}
    <2>1. CASE Parent[c] = Root
        BY <1>2, <2>1 DEF LiveSigner
    <2>2. CASE Parent[c] \in Certs /\ Parent[c] # Root
        BY <1>2, <2>2 DEF LiveSigner, TwoAnchorsInv
    <2> QED BY <1>3, <2>1, <2>2
<1> QED BY <1>2, <1>4 DEF TwoAnchorsInv

(* A status write keeps the root that is left as long as a chain may end at it. *)
LEMMA OutgoingKept ==
    ASSUME TwoAnchorsInv, OperatorStep, NEW k, k \in {Outgoing(status), root.key},
           status.phase = "Complete" => k # status.prev
    PROVE  k \in {Outgoing(status'), root.key}
<1>0. /\ status \in RootStatus /\ cached \in RootStatus
      /\ OneRenewal(status) /\ Window(status, staging)
    BY DEF TwoAnchorsInv, RotationInv, TrimInv, TypeOK
<1>1. CASE UNCHANGED status
    BY <1>1 DEF Outgoing
<1>2. ASSUME NEW new, Update(new), ~ UNCHANGED status PROVE status' = new /\ cached = status
    BY <1>2 DEF Update, Written, Conflicted
<1>3. ASSUME NEW field \in {"dual", "reissued", "verified"}, NEW value, Condition(field, value)
      PROVE  k \in {Outgoing(status'), root.key}
    <2> DEFINE new == [cached EXCEPT ![field] = value]
    <2>1. new.phase = cached.phase /\ new.cur = cached.cur /\ new.prev = cached.prev
        BY <1>0, <1>3 DEF RootStatus
    <2>2. Update(new)
        BY <1>3 DEF Condition
    <2> HIDE DEF new
    <2>3. CASE status' = new /\ cached = status
        BY <2>1, <2>3 DEF Outgoing
    <2> QED BY <1>1, <1>2, <2>2, <2>3
<1>4. CASE InitialisePhase
    <2> DEFINE new == [cached EXCEPT !.phase = "Idle"]
    <2>1. cached.phase = "" /\ new.phase = "Idle" /\ new.cur = cached.cur /\ Update(new)
        BY <1>0, <1>4 DEF InitialisePhase, RootStatus
    <2> HIDE DEF new
    <2>2. CASE status' = new /\ cached = status
        <3>1. status'.phase = "Idle" /\ status'.cur = status.cur /\ status.phase = ""
            BY <2>1, <2>2
        <3>2. Outgoing(status') = Outgoing(status)
            BY <3>1 DEF Outgoing
        <3> QED BY <3>2
    <2> QED BY <1>1, <1>2, <2>1, <2>2
<1>5. CASE IdleSKIDChanged
    <2> DEFINE new == [cached EXCEPT !.prev = cached.cur, !.cur = RootSecret.key,
                                     !.phase = "PreservingOldRoot"]
    <2>1. /\ cached.phase = "Idle" /\ cached.cur # None
          /\ new.phase = "PreservingOldRoot" /\ new.prev = cached.cur /\ Update(new)
        BY <1>0, <1>5 DEF IdleSKIDChanged, Idle, RootStatus
    <2> HIDE DEF new
    <2> QED BY <1>1, <1>2, <2>1 DEF Outgoing
<1>6. CASE IdleBaseline
    <2> DEFINE new == [cached EXCEPT !.cur = RootSecret.key]
    <2>1. /\ cached.phase = "Idle" /\ cached.cur = None
          /\ new.phase = "Idle" /\ new.cur = RootSecret.key /\ Update(new)
        BY <1>0, <1>6 DEF IdleBaseline, Idle, RootStatus
    <2> HIDE DEF new
    <2>2. cached = status => RootSecret.key = root.key
        BY <1>0, <2>1 DEF OneRenewal, RootInStatus
    <2> QED BY <1>1, <1>2, <2>1, <2>2 DEF Outgoing
<1>7. CASE IdleRequestDetected
    <2> DEFINE new == [cached EXCEPT !.prev = RootSecret.key, !.phase = "PreservingOldRoot"]
    <2>1. /\ cached.phase = "Idle" /\ cached.cur = RootSecret.key
          /\ new.phase = "PreservingOldRoot" /\ new.prev = cached.cur /\ Update(new)
        BY <1>0, <1>7 DEF IdleRequestDetected, Idle, RootStatus
    <2> HIDE DEF new
    <2>2. RootSecret.key # None
        BY <1>0 DEF OneRenewal
    <2> QED BY <1>1, <1>2, <2>1, <2>2 DEF Outgoing
<1>8. CASE PreservingAbort
    <2> DEFINE new == [cached EXCEPT !.prev = None, !.phase = "Idle"]
    <2>1. /\ cached.phase = "PreservingOldRoot" /\ cached.prev = RootSecret.key
          /\ new.phase = "Idle" /\ new.cur = cached.cur /\ Update(new)
        BY <1>0, <1>8 DEF PreservingAbort, Preserving, RootStatus
    <2> HIDE DEF new
    <2>2. cached = status => cached.cur = cached.prev
        BY <1>0, <2>1 DEF OneRenewal
    <2>3. RootSecret.key # None
        BY <1>0 DEF OneRenewal
    <2>4. CASE status' = new /\ cached = status
        <3>1. /\ status'.phase = "Idle" /\ status'.cur = status.prev /\ status.prev # None
              /\ status.phase = "PreservingOldRoot"
            BY <2>1, <2>2, <2>3, <2>4
        <3>2. Outgoing(status') = Outgoing(status)
            BY <3>1 DEF Outgoing
        <3> QED BY <3>2
    <2> QED BY <1>1, <1>2, <2>1, <2>4
<1>9. CASE PreservingRenewed
    <2> DEFINE new == [cached EXCEPT !.cur = RootSecret.key, !.phase = "DualTrustActive"]
    <2>1. /\ cached.phase = "PreservingOldRoot"
          /\ new.phase = "DualTrustActive" /\ new.prev = cached.prev /\ Update(new)
        BY <1>0, <1>9 DEF PreservingRenewed, Preserving, RootStatus
    <2> HIDE DEF new
    <2> QED BY <1>1, <1>2, <2>1 DEF Outgoing
<1>10. CASE DualTrustExtended
    <2> DEFINE new == [cached EXCEPT !.dual = "True", !.reissued = "False",
                                     !.phase = "AwaitingReissuance"]
    <2>1. /\ cached.phase = "DualTrustActive"
          /\ new.phase = "AwaitingReissuance" /\ new.prev = cached.prev /\ Update(new)
        BY <1>0, <1>10 DEF DualTrustExtended, RootStatus
    <2> HIDE DEF new
    <2> QED BY <1>1, <1>2, <2>1 DEF Outgoing
<1>11. CASE AwaitingTier2Reissued
    <2> DEFINE new == [cached EXCEPT !.reissued = "True", !.phase = "VerifyingChain"]
    <2>1. /\ cached.phase = "AwaitingReissuance"
          /\ new.phase = "VerifyingChain" /\ new.prev = cached.prev /\ Update(new)
        BY <1>0, <1>11 DEF AwaitingTier2Reissued, Awaiting, RootStatus
    <2> HIDE DEF new
    <2> QED BY <1>1, <1>2, <2>1 DEF Outgoing
<1>12. CASE VerifyPasses
    <2> DEFINE new == [cached EXCEPT !.verified = "True", !.phase = "Complete"]
    <2>1. /\ cached.phase = "VerifyingChain"
          /\ new.phase = "Complete" /\ new.prev = cached.prev /\ Update(new)
        BY <1>0, <1>12 DEF VerifyPasses, Verifying, RootStatus
    <2> HIDE DEF new
    <2> QED BY <1>1, <1>2, <2>1 DEF Outgoing
<1>13. CASE Complete
    <2> DEFINE new == [cached EXCEPT !.prev = None, !.phase = "Idle"]
    <2>1. cached.phase = "Complete" /\ Update(new)
        BY <1>13 DEF Complete
    <2> HIDE DEF new
    <2>2. status.phase = "Complete" => k = root.key
        BY DEF Outgoing
    <2> QED BY <1>1, <1>2, <2>1, <2>2
<1>14. CASE \/ AwaitingTier1 \/ AwaitingTier2 \/ VerifyTier1Fails
            \/ \E c \in Tier2 : VerifyTier2Fails(c)
            \/ \E l \in TrackedLeaves : VerifyLeafFails(l)
            \/ DualTrustBlocked
    BY <1>3, <1>14
    DEF AwaitingTier1, AwaitingTier2, VerifyTier1Fails, VerifyTier2Fails, VerifyLeafFails, DualTrustBlocked
<1>15. CASE ReconcileRoot
    BY <1>1, <1>4, <1>5, <1>6, <1>7, <1>8, <1>9, <1>10, <1>11, <1>12, <1>13, <1>14, <1>15
    DEF ReconcileRoot, IdleQuiet
<1>16. CASE RootInterrupted
    BY <1>1, <1>14, <1>16
    DEF RootInterrupted, IdleInterrupted, DualTrustInterrupted, AwaitingInterrupted, CompleteInterrupted
<1>17. ASSUME NEW c \in CAs, ReconcileChild(c) \/ ChildInterrupted(c) PROVE UNCHANGED status
    BY <1>17, ChildStepFrame DEF childHandlerEnv
<1> QED BY <1>1, <1>15, <1>16, <1>17 DEF OperatorStep

(* A root is renewed when every chain ends at the one in use. *)
LEMMA RenewedFromOutgoing ==
    ASSUME TwoAnchorsInv, WriteRootSecret PROVE root.key = Outgoing(status)
<1>1. OneRenewal(status) /\ rootCR # "none"
    BY DEF TwoAnchorsInv, RotationInv, WriteRootSecret
<1> QED BY <1>1 DEF OneRenewal, Outgoing, RootInStatus

(* TwoAnchorsInv is inductive. *)
LEMMA TwoAnchorsNext == ThreeTiers /\ TwoAnchorsInv /\ [Next]_vars => TwoAnchorsInv'
<1> SUFFICES ASSUME ThreeTiers, TwoAnchorsInv, [Next]_vars PROVE TwoAnchorsInv'
    OBVIOUS
<1>0. /\ RotationInv' /\ ChainInv' /\ TypeOK
      /\ \A c \in Certs : crt[c].anchor \in {Outgoing(status), root.key}
    BY RotationNext, ChainNext DEF TwoAnchorsInv, RotationInv, TrimInv
<1>1. CASE OperatorStep
    <2>1. UNCHANGED <<root, crt>>
        BY <1>1, HandlersIssueNothing
    <2>2. \A c \in Certs : status.phase = "Complete" => crt[c].anchor # status.prev
        BY DEF TwoAnchorsInv, ChainInv, AnchorsMoved, TrimInv, TypeOK, Certificate, RootStatus
    <2>3. \A c \in Certs : crt[c].anchor \in {Outgoing(status'), root.key}
        BY <1>0, <1>1, <2>2, OutgoingKept
    <2>4. \A c \in Certs : crt'[c].anchor \in {Outgoing(status'), root'.key}
        BY <2>1, <2>3
    <2>5. Outgoing(status') = Outgoing(status)'
        BY <2>1 DEF Outgoing
    <2> QED BY <1>0, <2>4, <2>5 DEF TwoAnchorsInv
<1>2. CASE EnvironmentStep \/ UNCHANGED vars
    <2>1. UNCHANGED status
        BY <1>2
        DEF EnvironmentStep, CertManager, Disruption, Issue, Publish, LoadIssuer, RenewCertificate,
            DeleteSecret, DeleteChild, RequestRoot, RequestAbsentRoot, SignRoot, FailRoot, RetryRoot,
            WriteRootSecret, DeleteRoot, DeleteConfigMap, Distribute, Informers, CacheSync, Sync,
            crdVars, vars
    <2>2. ASSUME \A c \in Certs : crt'[c].anchor \in {Outgoing(status), root.key},
                 root'.key = root.key
          PROVE  TwoAnchorsInv'
        BY <1>0, <2>1, <2>2 DEF TwoAnchorsInv, Outgoing
    <2>3. ASSUME NEW c \in Certs, Issue(c) PROVE TwoAnchorsInv'
        <3>1. UNCHANGED root
            BY <1>0, <2>3, IssueOutcome
        <3> QED BY <2>2, <2>3, <3>1, IssuedUnderOneOfTwo
    <2>4. ASSUME NEW c \in Certs, DeleteSecret(c) PROVE TwoAnchorsInv'
        <3>1. UNCHANGED root /\ \A d \in Certs : crt'[d].anchor = crt[d].anchor
            BY <1>0, <2>4, DeleteOutcome
        <3> QED BY <1>0, <2>2, <3>1
    <2>5. CASE WriteRootSecret
        <3>1. root.key = Outgoing(status) /\ status.cur # None /\ UNCHANGED crt
            BY <2>5, RenewedFromOutgoing DEF WriteRootSecret, certVars, TwoAnchorsInv, RotationInv, OneRenewal
        <3>2. Outgoing(status)' = Outgoing(status)
            BY <2>1, <3>1 DEF Outgoing
        <3>3. \A c \in Certs : crt'[c].anchor \in {Outgoing(status)', root'.key}
            BY <1>0, <3>1, <3>2
        <3> QED BY <1>0, <3>3 DEF TwoAnchorsInv
    <2>6. CASE DeleteRoot
        <3>1. root'.key = root.key /\ UNCHANGED crt
            BY <1>0, <2>6 DEF DeleteRoot, TypeOK, Secret, certVars
        <3> QED BY <1>0, <2>2, <3>1
    <2>7. ASSUME NEW p \in Signers, LoadIssuer(p) PROVE UNCHANGED <<root, crt>>
        BY <2>7 DEF LoadIssuer, rootVars
    <2> QED BY <1>0, <2>2, <2>3, <2>4, <2>5, <2>6, <2>7, IssuingSteps
<1> QED BY <1>1, <1>2 DEF Next

(* Every certificate of an installation chains to the root in use. *)
LEMMA InstalledAnchors ==
    ASSUME Root \notin RotatedBeforeInstall, Init
    PROVE  root.key = 1 /\ \A c \in Certs : crt[c].anchor = 1
<1>1. Root \in Signers /\ InstalledKey(Root) = 1
    BY DEF Signers, InstalledKey
<1>2. ASSUME NEW c \in Certs PROVE crt[c].anchor = 1
    <2>1. crt[c].anchor = InstalledCertificate(c).anchor
        BY DEF Init
    <2>2. c \in Below(Root)
        BY TreeAssumption
    <2> QED BY <1>1, <2>1, <2>2 DEF InstalledCertificate
<1> QED BY <1>1, <1>2 DEF Init

(* In every phase whose window holds the root in use, it holds what every chain ends at. *)
LEMMA WindowHoldsAnchors == TwoAnchorsInv => AnchorsTrustedOnceStaged
<1> SUFFICES ASSUME TwoAnchorsInv, root.key \in StagedKeys, NEW c \in Certs, crt[c].present
             PROVE  crt[c].anchor \in StagedKeys
    BY DEF AnchorsTrustedOnceStaged
<1>0. /\ Window(status, staging) /\ OneRenewal(status) /\ LeavesBehind(status, RootSecret.key, crt)
      /\ AnchorsMoved(status) /\ status \in RootStatus /\ crt[c].anchor \in Nat
      /\ StagedWithin(staging, RootSecret.key)
      /\ crt[c].anchor \in {Outgoing(status), root.key}
    BY DEF TwoAnchorsInv, RotationInv, ChainInv, TrimInv, TypeOK, Certificate
<1>1. CASE crt[c].anchor = root.key
    BY <1>1
<1>2. CASE crt[c].anchor = Outgoing(status)
    <2>1. CASE status.phase \in {"", "Idle"}
        BY <1>0, <1>2, <2>1 DEF Window, StagedKeys, Outgoing
    <2>2. CASE status.phase \in {"PreservingOldRoot", "DualTrustActive", "AwaitingReissuance", "VerifyingChain"}
        BY <1>0, <1>2, <2>2 DEF Window, StagedKeys, Outgoing, OneRenewal
    <2>3. CASE status.phase = "Complete"
        <3>1. crt[c].anchor > status.prev /\ crt[c].anchor = status.prev /\ status.prev \in Nat
            BY <1>0, <1>2, <2>3 DEF AnchorsMoved, Outgoing, RootStatus
        <3> QED BY <1>0, <3>1
    <2> QED BY <1>0, <2>1, <2>2, <2>3 DEF RootStatus, RootPhases
<1> QED BY <1>0, <1>1, <1>2

(* Whatever is renewed, lost, deleted or refused, in whatever order the operator sees it, a client
   that trusts the staging ConfigMap accepts every certificate in use from the moment the root in
   use is in it: no chain ends at a root but that and the one the rotation leaves, which is
   trimmed after the last chain has left it. Where the root has been renewed and is not staged
   yet, a certificate that happens to be re-issued meanwhile is refused; that gap closes with
   extendStagingConfigMap. *)
THEOREM StagedRootIsEnough ==
    ASSUME {"rootAgain", "deleteConfigMap", "configMapLag", "statusLag", "issuerLag", "sameSecond"}
               \cap Env = {},
           Root \notin RotatedBeforeInstall, ThreeTiers
    PROVE  Spec => []AnchorsTrustedOnceStaged
<1>1. Init => TwoAnchorsInv
    <2> SUFFICES ASSUME Init PROVE TwoAnchorsInv
        OBVIOUS
    <2>1. StagingAtInstall \subseteq {InstalledKey(Root)}
        BY StagingAssumption DEF InstalledKey, Signers
    <2>2. RotationInv /\ ChainInv
        BY <2>1, RotationInit, ChainInit
    <2> QED BY <2>2, InstalledAnchors DEF TwoAnchorsInv
<1>2. TwoAnchorsInv /\ [Next]_vars => TwoAnchorsInv'
    BY TwoAnchorsNext
<1> QED BY <1>1, <1>2, WindowHoldsAnchors, PTL DEF Spec
=============================================================================
