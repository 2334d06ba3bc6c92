------------------------------ MODULE Operator ------------------------------
(***************************************************************************)
(* The operator in its cluster: the root PKIRotation and its children,     *)
(* reconciled one at a time (one replica with leader election, one worker),*)
(* between the steps of cert-manager, trust-manager and the administrator. *)
(***************************************************************************)
EXTENDS Environment, IntermediateRotation

OperatorStep ==
    \/ ReconcileRoot
    \/ RootInterrupted
    \/ \E c \in CAs : ReconcileChild(c)
    \/ \E c \in CAs : ChildInterrupted(c)

Next == OperatorStep \/ EnvironmentStep

Spec == Init /\ [][Next]_vars

(* Every handler returns a requeue, an error (requeued with backoff) or a status write
   (which the watch turns into the next request), so a reconcile that can do something is
   eventually run and eventually gets through. *)
Fairness ==
    /\ EnvironmentFairness
    /\ WF_vars(ReconcileRoot)
    /\ \A c \in CAs : WF_vars(ReconcileChild(c))

FairSpec == Spec /\ Fairness

---------------------------------------------------------------------------
(* Safety. *)

(* The operator never takes away a root that a cluster intermediate still chains to: the
   old root leaves the staging ConfigMap only after tier-1 carries the new AKID, whatever
   lags, fails or is renewed in between (trimStagingConfigMap after verifyTier1Chain). *)
KeepsTier1Anchors ==
    staging'.exists =>
        \A t \in Tier1 : crt[t].present /\ crt[t].akid \in StagedKeys => crt[t].akid \in StagedKeys'
TrimKeepsTier1Anchors == [][KeepsTier1Anchors]_vars

(* The old root is not removed until all leaf certificates are fresh, so no step takes
   away the root at the end of any certificate's chain (reconcileVerifyingChain). *)
KeepsEveryAnchor ==
    staging'.exists =>
        \A c \in Certs : crt[c].present /\ crt[c].anchor \in StagedKeys => crt[c].anchor \in StagedKeys'
TrimKeepsEveryAnchor == [][KeepsEveryAnchor]_vars

(* A client that trusts what the ConfigMap holds accepts every certificate in use: the
   dual-trust window opens before tier-1 moves to the new root and closes after the last
   leaf has (extendStagingConfigMap, trimStagingConfigMap). *)
AnchorsTrusted ==
    staging.exists => \A c \in Certs : crt[c].present => crt[c].anchor \in StagedKeys

(* A certificate in use may chain to a root that is not in the ConfigMap yet only while the
   root in use is not: once the operator has put that there, a client trusts every certificate,
   whatever was renewed, lost or deleted before (extendStagingConfigMap before
   triggerCARenewal). *)
AnchorsTrustedOnceStaged ==
    root.key \in StagedKeys => \A c \in Certs : crt[c].present => crt[c].anchor \in StagedKeys

(* The trust store is never emptied: trimming takes away the previous root only where the
   next one was appended (reconcileComplete). *)
NeverUntrusting == staging.exists => StagedKeys # {}

(* Idle means that the staging ConfigMap holds the recorded root and no other: nothing of an
   earlier rotation is left over, and nothing was taken away too early (PhaseIdle). *)
IdleStagesOneRoot ==
    status.phase = "Idle" /\ status.cur # None /\ staging.exists => StagedKeys = {status.cur}

(* The recorded SKID is that of a root in the ConfigMap whenever the handlers have had the
   occasion to put it there (status.currentSKID, extendStagingConfigMap). *)
CurrentRootStaged ==
    status.phase \in {"Idle", "AwaitingReissuance", "VerifyingChain", "Complete"} =>
        status.cur \in StagedKeys \cup {None}

(* One rotation re-issues a certificate a bounded number of times: the root's cascade, the
   children's cascades and the sweeps meet on the same certificates and must not feed each
   other (isCertificateIssuingTrue, syncChildSKIDs, the yield to the owner). *)
ReissuesBounded == \A c \in Certs : crt[c].key < MaxKey

(* A child leaves VerifyingChain for Complete only when every certificate its CA signed
   carries the CA's present key (pendingDownstreamCerts). *)
CascadeReachedChildren ==
    [][\A c \in CAs : child'[c].phase = "Complete" /\ child[c].phase # "Complete" =>
           \A d \in Children(c) : crt[d].present => crt[d].akid = crt[c].key]_vars

---------------------------------------------------------------------------
(* The abstract specification the operator implements. *)

DT == INSTANCE DualTrust WITH
          Intermediates <- Tier1,
          kept          <- staging.exists,
          trusted       <- StagedKeys,
          carried       <- [t \in Tier1 |-> crt[t].akid]

(* Whatever is repeated, lost, delayed or disturbed, the ConfigMap changes by one root at a
   time, gains only the youngest root, and loses only one that all of tier-1 has left and
   that has a successor (extendStagingConfigMap, trimStagingConfigMap). *)
ImplementsDualTrust == DT!Spec

---------------------------------------------------------------------------
(* The inductive invariants behind the theorems: TrimInv and TrustInv (OperatorProofs),
   RotationInv (RotationProofs), ChainInv, AnchorInv and TwoAnchorsInv (AnchorProofs), and
   ReissueInv (ReissueProofs). *)

(* Keys only grow, so what a tier-1 certificate was signed with is never newer than what the
   root's issuer signs with, and a re-issue, whenever it comes, cannot lead back to the root a
   rotation leaves. *)

SignedUpTo ==
    /\ root.key <= root.serial
    /\ loaded[Root].key <= root.key
    /\ RootSecret.key <= root.key
    /\ \A t \in Tier1 : crt[t].akid <= SigningWith(Root).key

(* What st, the status or the operator's copy of it, says of the rotation. *)
LeavesBehind(st, key, certificate) ==
    /\ st.cur <= key
    /\ st.prev <= key
    /\ st.phase \in {"DualTrustActive", "AwaitingReissuance", "VerifyingChain", "Complete"} =>
           st.prev < st.cur
    /\ st.phase = "Complete" => \A t \in Tier1 : certificate[t].akid > st.prev

(* What is staged was in the root's Secret as the operator saw it. *)
StagedWithin(cm, key) ==
    /\ cm.exists \/ Keys(cm.pems) = {}
    /\ \A k \in Keys(cm.pems) : k <= key

TrimInv ==
    /\ TypeOK
    /\ "configMapLag" \notin Env
    /\ StagedWithin(staging, RootSecret.key)
    /\ SignedUpTo
    /\ LeavesBehind(status, RootSecret.key, crt)
    /\ LeavesBehind(cached, RootSecret.key, crt)

(* From AwaitingReissuance on a root newer than the one to be trimmed is staged. *)
SuccessorStaged(st, staged) ==
    st.phase \in {"AwaitingReissuance", "VerifyingChain", "Complete"} =>
        \E k \in staged : k > st.prev

TrustInv ==
    /\ TrimInv
    /\ NeverUntrusting
    /\ staging.exists => SuccessorStaged(status, StagedKeys) /\ SuccessorStaged(cached, StagedKeys)

(* The window of a rotation, phase by phase: what cm holds when the status is st. *)
Window(st, cm) ==
    LET staged == Keys(cm.pems)
    IN  /\ st.phase = "" => st.cur = None
        /\ st.cur = None => st.phase \in {"", "Idle"} /\ (cm.exists => staged = {root.key})
        /\ st.cur # None => cm.exists
        /\ st.phase \notin {"", "Idle"} => st.prev # None
        /\ st.phase = "Idle" /\ st.cur # None => staged = {st.cur}
        /\ st.phase = "PreservingOldRoot" => staged = {st.prev}
        /\ st.phase = "DualTrustActive" => staged \in {{st.prev}, {st.prev, st.cur}}
        /\ st.phase \in {"AwaitingReissuance", "VerifyingChain"} => staged = {st.prev, st.cur}
        /\ st.phase = "Complete" => staged \in {{st.prev, st.cur}, {st.cur}}

(* One PEM per key: taking the first one with a key away takes the key away. *)
DistinctKeys(pems) == \A i, j \in DOMAIN pems : pems[i].key = pems[j].key => i = j

(* While a rotation runs the root it moves to stays, and a root that was requested or
   deleted is the one the rotation has recorded. *)
RootInStatus(st) == IF st.phase = "PreservingOldRoot" THEN st.prev ELSE st.cur
OneRenewal(st) ==
    /\ root.key # None /\ RootSecret.key # None
    /\ rootCR # "none" \/ ~root.present =>
           /\ st.phase \in {"Idle", "PreservingOldRoot"}
           /\ st.cur # None
           /\ root.key = RootInStatus(st)
    /\ RootSecret.key = RootInStatus(st) \/ RootSecret = root
    /\ st.phase = "PreservingOldRoot" =>
           st.cur = st.prev \/ (st.cur = root.key /\ RootSecret = root)
    /\ st.phase \in {"DualTrustActive", "AwaitingReissuance", "VerifyingChain", "Complete"} =>
           st.cur = root.key /\ RootSecret = root

(* A PEM with the key of the root a rotation moves to is the root's, so that it is not
   appended twice. *)
ExtendedOnce(st, pems) ==
    st.phase \in {"DualTrustActive", "AwaitingReissuance"} =>
        \A i \in DOMAIN pems : pems[i].key = st.cur => pems[i] = RootPEM

(* Where the operator's copy leads to a write of the ConfigMap, it is at most one status
   write behind. *)
CopyFollows(copy, st) ==
    /\ copy.phase = "DualTrustActive" =>
           /\ st.phase \in {"DualTrustActive", "AwaitingReissuance"}
           /\ st.cur = copy.cur /\ st.prev = copy.prev
    /\ copy.phase = "Complete" =>
           /\ st.phase \in {"Complete", "Idle"}
           /\ st.cur = copy.cur
           /\ st.phase = "Complete" => st.prev = copy.prev

(* Every phase has its window, whatever of the status, of the root's Secret or of a call is
   late or lost; behind IdleStagesOneRoot and CurrentRootStaged. *)
RotationInv ==
    /\ TrimInv
    /\ {"rootAgain", "deleteConfigMap"} \cap Env = {}
    /\ Window(status, staging)
    /\ DistinctKeys(staging.pems)
    /\ OneRenewal(status)
    /\ ExtendedOnce(status, staging.pems)
    /\ CopyFollows(cached, status)

(* The hierarchy the handlers of the root are written for: root, tier-1 CAs, tier-2 CAs, one
   in a namespace and with its leaves in that namespace, and leaves of the tier-1 CAs. *)
ThreeTiers ==
    /\ CAs \subseteq Tier1 \cup Tier2
    /\ \A l \in Leaves : Parent[l] \in Tier1 \cup Tier2
    /\ \A l \in Leaves : Parent[l] \in Tier2 => Namespace[l] = Namespace[Parent[l]]
    /\ \A a, b \in Tier2 : Namespace[a] = Namespace[b] => a = b

(* Keys are counted from 1, so None is nobody's. *)
KeysNumbered ==
    /\ root.key >= 1
    /\ \A p \in Signers : loaded[p].key >= 1
    /\ \A c \in Certs : crt[c].key >= 1 /\ crt[c].akid >= 1

(* Where a notBefore is fresh and no two are the same, a certificate younger than its
   issuer's was signed with the issuer's present key and chains at least as far. *)
IssuedInTurn ==
    \A c \in Certs :
        /\ crt[c].nb <= clock
        /\ Parent[c] \in CAs =>
               LET issuer == crt[Parent[c]]
               IN  /\ crt[c].nb # issuer.nb
                   /\ crt[c].nb > issuer.nb =>
                          crt[c].akid = issuer.key /\ crt[c].anchor >= issuer.anchor

(* At the end of a rotation no chain ends at the root it leaves. *)
AnchorsMoved(st) == st.phase = "Complete" => \A c \in Certs : crt[c].anchor > st.prev

(* What the verification of a rotation and the issuers keep of every chain; behind
   TrimKeepsEveryAnchor. *)
ChainInv ==
    /\ TrimInv
    /\ {"statusLag", "issuerLag", "sameSecond"} \cap Env = {}
    /\ IssuedInTurn
    /\ \A t \in Tier1 : crt[t].anchor >= crt[t].akid
    /\ AnchorsMoved(status) /\ AnchorsMoved(cached)

(* Where certificates are re-issued for the operator alone, the root re-issues tier-1
   between the opening of its window and the verification, and at no other time. *)
Tier1InTurn ==
    \A t \in Tier1 :
        /\ t \in issuing =>
               status.phase = "AwaitingReissuance" /\ crt[t].akid # status.cur
        /\ status.cur = None => crt[t].akid = root.key
        /\ status.phase \in {"VerifyingChain", "Complete"} => crt[t].akid = status.cur
        /\ status.phase \in {"Idle", "PreservingOldRoot", "DualTrustActive"} /\ status.cur # None =>
               crt[t].akid = IF status.phase = "Idle" THEN status.cur ELSE status.prev

(* The window is open before a chain moves, and closed after all have; behind
   AnchorsTrusted. *)
AnchorInv ==
    /\ RotationInv /\ ChainInv
    /\ {"apiFail", "cacheLag", "renew", "deleteSecret"} \cap Env = {}
    /\ cached = status
    /\ Tier1InTurn
    /\ AnchorsTrusted
    /\ ~staging.exists => \A c \in Certs : crt[c].anchor = root.key

(* The root a rotation leaves; between rotations the recorded one. *)
Outgoing(st) ==
    IF st.phase \notin {"", "Idle"} THEN st.prev
    ELSE IF st.cur # None THEN st.cur ELSE root.key

(* A certificate chains to one of two roots; behind AnchorsTrustedOnceStaged. *)
TwoAnchorsInv ==
    /\ RotationInv /\ ChainInv
    /\ \A c \in Certs : crt[c].anchor \in {Outgoing(status), root.key}

(* The certificates a rotation has yet to re-issue: tier-1 that is not under the new root,
   tier-2 that predates a tier-1, leaves that predate what they are held against. *)
Unmoved == {t \in Tier1 : crt[t].akid # root.key}
Predates(n) == \E t \in Tier1 : crt[n].nb <= crt[t].nb
HeldAgainst(l) == IF Namespace[l] \in Tier2Namespaces
                  THEN {n \in Tier2 : Namespace[n] = Namespace[l]} ELSE Tier1
Unfresh(l) == \E c \in HeldAgainst(l) : crt[l].nb < crt[c].nb

(* What may still mark c: its issuer's sweep, and the rotation. *)
Stale(c) == c \notin issuing /\ crt[c].akid # crt[Parent[c]].key
Due(c) ==
    \/ Unmoved # {}
    \/ c \in Leaves /\ status.phase = "AwaitingReissuance"
    \/ c \notin issuing /\ IF c \in Leaves THEN Unfresh(c) ELSE Predates(c)

(* The re-issues of c that are still to come before the root is renewed again: one for a
   tier-1 certificate; for the others one for each of their issuer's, and one each for the
   sweep that found it, for its mark and for the rotation. *)
One(P) == IF P THEN 1 ELSE 0
OwedHere(c) == One(Stale(c)) + One(c \in issuing) + One(Due(c))
Owed(c) ==
    IF c \in Tier1 THEN One(c \in Unmoved)
    ELSE IF Parent[c] \in Tier1 THEN One(Parent[c] \in Unmoved) + OwedHere(c)
    ELSE One(Parent[Parent[c]] \in Unmoved) + OwedHere(Parent[c]) + OwedHere(c)

(* How often one rotation may re-issue c. *)
Rounds(c) == IF c \in Tier1 THEN 1 ELSE IF Parent[c] \in Tier1 THEN 2 ELSE 3
ReissuesCounted == \A c \in Certs : crt[c].key + Owed(c) <= 1 + Rounds(c) * (root.key - 1)

(* Generation after generation: a tier-2 certificate is marked only where it predates a
   tier-1 one, and a rotation that has passed them leaves none that does. *)
GenerationsInTurn ==
    /\ \A n \in Tier2 \cap issuing : Predates(n)
    /\ status.phase # "AwaitingReissuance" => \A n \in Tier2 : ~Predates(n)
    /\ status.phase \notin {"AwaitingReissuance", "VerifyingChain"} => \A l \in Leaves : ~Unfresh(l)

(* No child cascades: what changes the key of a CA is a rotation of the root, to which the
   child yields, and which corrects the SKIDs at its end. *)
ChildrenFollow ==
    \A c \in CAs : child[c].exists =>
        /\ child[c].phase \in {"", "Idle"} /\ child[c].cur # None
        /\ status.phase \notin {"AwaitingReissuance", "VerifyingChain", "Complete"} =>
               child[c].cur = crt[c].key

(* The root's renewals are counted by its serial. *)
SerialBounded ==
    /\ root.serial <= MaxSerial
    /\ rootCR # "none" \/ ~root.present => root.serial < MaxSerial

(* Each re-issue is paid for when the root is renewed; behind ReissuesBounded. *)
ReissueInv ==
    /\ AnchorInv /\ KeysNumbered
    /\ \A c \in Certs : crt[c].present /\ crt[c].nb # None
    /\ SerialBounded
    /\ GenerationsInTurn
    /\ ChildrenFollow
    /\ ReissuesCounted

---------------------------------------------------------------------------
(* Liveness. *)

(* A rotation comes to an end, and at its end the operator has recorded the root in use,
   the dual-trust window is closed and the Bundle has brought that to the clients
   (reconcileComplete, ensureBundle). *)
Settled ==
    /\ status.phase = "Idle" /\ status.cur = root.key
    /\ StagedKeys = {root.key}
    /\ bundle /\ Distributed = {root.key}
RotationCompletes == <>[]Settled

(* Every certificate ends up signed by the key its issuer has now: by the root's cascade,
   by a child's, or by the sweep for CAs rotated while nobody watched. *)
SignerKey(p) == LiveSigner(p).key
Converged == \A c \in Certs : crt[c].present /\ crt[c].akid = SignerKey(Parent[c])
ChainsConverge == <>[]Converged

(* A child whose phase was never written gets one (issue 259 in reconcileIdleIntermediate). *)
EmptyPhaseHeals == \A c \in CAs : child[c].exists ~> child[c].phase # ""

(* IntermediateReissued reaches True on completion in both roles (issue 260). *)
ConditionsClose ==
    <>[](/\ status.reissued # "False"
         /\ \A c \in CAs : child[c].reissued # "False")

---------------------------------------------------------------------------
(* What the manual says and the code does not do. *)

(* A tier-1 certificate whose AKID still mismatches is re-triggered on the next poll (the
   manual on a rotation stuck in AwaitingReissuance). *)
Tier1Retriggered ==
    \A t \in Tier1 :
        status.phase = "AwaitingReissuance" /\ crt[t].akid # status.cur
            ~> t \in issuing \/ crt[t].akid = status.cur
=============================================================================
