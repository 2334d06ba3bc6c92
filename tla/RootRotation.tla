---------------------------- MODULE RootRotation ----------------------------
(***************************************************************************)
(* One reconcile of the role=RootCA PKIRotation. Reconcile reads the       *)
(* operator's copy of the object, dispatches on its phase, makes its       *)
(* changes to Certificates, to the ConfigMap and to the children, and      *)
(* writes the status last, with the resource version it read. There is one *)
(* action per outcome of a handler; a reconcile that changes nothing       *)
(* (waiting for the root's CertificateRequest, an error before the first   *)
(* write) is a stuttering step.                                            *)
(***************************************************************************)
EXTENDS Cluster

rootHandlerEnv == <<rootVars, crt, pub, loaded, clock, distributed, seen>>

(* Status().Update of a current copy. The informer's copy follows the write, or does not
   yet when "cacheLag" is on. *)
Written(new) ==
    /\ cached = status
    /\ status' = new
    /\ cached' \in {new} \cup {cached : x \in Env \cap {"cacheLag"}}
    /\ UNCHANGED disruptions

(* An update of an outdated copy is refused: the rest of the handler has happened. *)
Conflicted == Disrupt("cacheLag") /\ cached # status /\ UNCHANGED <<status, cached>>

Update(new) == Written(new) \/ Conflicted

Condition(which, value) == Update([cached EXCEPT ![which] = value])

(* The partial effects an error leaves behind are those of a prefix of the handler; which
   Certificates a loop reaches first is up to the cache's list order. *)
Attempts(S) == IF "apiFail" \in Env THEN SUBSET S ELSE {S}

(* The merge patch is computed from the operator's copy: where that still has the operator's
   own Issuing=True, the patch is empty and the trigger is lost. *)
Trigger(S) == \E lost \in SUBSET (S \cap IssuingSeen) : issuing' = issuing \cup (S \ lost)

---------------------------------------------------------------------------
(* Helpers of the handlers. *)

RootPEM == [key |-> RootSecret.key, serial |-> RootSecret.serial]

\* Mutant: a PEM is appended to an empty bundle only.
AppendToEmpty(pems, pem) == IF pems = <<>> THEN <<pem>> ELSE pems

(* A PEM already there, same certificate and not merely the same key, is not repeated. *)
AppendPEM(pems, pem) ==
    IF \E i \in DOMAIN pems : pems[i] = pem THEN pems ELSE Append(pems, pem)

\* Mutant: the filter is inverted.
KeepPEMBySKID(pems, skid) == SelectSeq(pems, LAMBDA p : p.key = skid)

\* Mutant: the keys are compared after the copy, so that nothing is removed.
RemoveNothing(pems, skid) == pems

(* The first PEM with the key goes, later ones stay. *)
RemovePEMBySKID(pems, skid) ==
    LET hits == {i \in DOMAIN pems :
                    pems[i].key = skid /\ \A j \in 1 .. i - 1 : pems[j].key # skid}
    IN  IF hits = {} THEN pems
        ELSE LET first == CHOOSE i \in hits : TRUE
             IN  SubSeq(pems, 1, first - 1) \o SubSeq(pems, first + 1, Len(pems))

\* Mutant: leaves are forgotten.
StaleCAs(p, skid) ==
    {c \in Children(p) \cap CAs : Ready(c) /\ c \notin IssuingSeen /\ AKID(c) \notin {None, skid}}

(* Direct children, CA or leaf, that are Ready, not being issued, and signed by another key. *)
StaleChildren(p, skid) ==
    {c \in Children(p) : Ready(c) /\ c \notin IssuingSeen /\ AKID(c) \notin {None, skid}}

(* Created when the copy has none, and then refused when the cluster has one. *)
EnsureStagingConfigMap ==
    \/ StagingSeen.exists /\ UNCHANGED staging
    \/ /\ ~StagingSeen.exists
       /\ ~staging.exists
       /\ staging' = [exists |-> TRUE, pems |-> <<RootPEM>>]

(* A merge patch of the copy, without its resource version: what the cluster holds is
   overwritten, or, when nothing was changed, left alone. *)
PatchStaging(pems) ==
    /\ StagingSeen.exists
    /\ staging.exists
    /\ staging' = IF pems = StagingSeen.pems THEN staging ELSE [staging EXCEPT !.pems = pems]

EnsureTrustAnchors == EnsureStagingConfigMap /\ bundle' = TRUE

NewChild(c) == [exists |-> TRUE, phase |-> "", cur |-> SKID(c),
                reissued |-> "Unset", verified |-> "Unset"]

(* Creation writes the spec first and the bootstrap SKID second; the second may fail. *)
EnsureIntermediateCACRs(made) ==
    \E booted \in Attempts(CAs) :
        child' = [c \in CAs |-> IF child[c].exists \/ c \notin made THEN child[c]
                                ELSE IF c \in booted THEN NewChild(c)
                                ELSE [NewChild(c) EXCEPT !.cur = None]]

SyncChildSKIDs(S) ==
    child' = [c \in CAs |-> IF c \in S /\ child[c].exists /\ crt[c].present
                            THEN [child[c] EXCEPT !.cur = SKID(c)] ELSE child[c]]

---------------------------------------------------------------------------
(* Empty phase, and Idle. *)

InitialisePhase ==
    /\ cached.phase = ""
    /\ Update([cached EXCEPT !.phase = "Idle"])
    /\ UNCHANGED <<rootHandlerEnv, issuing, staging, bundle, child>>

Idle == cached.phase = "Idle" /\ RootSecret.present

IdleSKIDChanged ==
    /\ Idle
    /\ cached.cur \notin {None, RootSecret.key}
    /\ EnsureTrustAnchors
    /\ Update([cached EXCEPT !.prev = cached.cur, !.cur = RootSecret.key,
                             !.phase = "PreservingOldRoot"])
    /\ UNCHANGED <<rootHandlerEnv, issuing, child>>

SweepRootChildren == \E S \in Attempts(StaleChildren(Root, RootSecret.key)) : Trigger(S)

(* Idle's last steps; the sweep is reached only when every child was ensured. *)
EnsureThenSweep ==
    \E made \in Attempts(CAs \cap Below(Root)) :
        /\ EnsureIntermediateCACRs(made)
        /\ IF made = CAs \cap Below(Root) THEN SweepRootChildren ELSE UNCHANGED issuing

(* The first run: the status write comes before the children, so a conflict skips them. *)
IdleBaseline ==
    /\ Idle
    /\ cached.cur = None
    /\ EnsureTrustAnchors
    /\ Update([cached EXCEPT !.cur = RootSecret.key])
    /\ IF cached = status THEN EnsureThenSweep
       ELSE UNCHANGED <<child, issuing>>
    /\ UNCHANGED rootHandlerEnv

IdleRequestDetected ==
    /\ Idle
    /\ cached.cur = RootSecret.key
    /\ ActiveCertificateRequest
    /\ EnsureTrustAnchors
    /\ Update([cached EXCEPT !.prev = RootSecret.key, !.phase = "PreservingOldRoot"])
    /\ UNCHANGED <<rootHandlerEnv, issuing, child>>

IdleQuiet ==
    /\ Idle
    /\ cached.cur = RootSecret.key
    /\ ~ActiveCertificateRequest
    /\ EnsureTrustAnchors
    /\ EnsureThenSweep
    /\ UNCHANGED <<rootHandlerEnv, status, cached, disruptions>>

(* The root Secret, or a call, fails after the ConfigMap and Bundle were looked at. *)
IdleInterrupted ==
    /\ cached.phase = "Idle"
    /\ Disrupt("apiFail") \/ (~RootSecret.present /\ UNCHANGED disruptions)
    /\ IF RootSecret.present THEN EnsureStagingConfigMap ELSE StagingSeen.exists /\ UNCHANGED staging
    /\ bundle' = TRUE
    /\ UNCHANGED <<rootHandlerEnv, issuing, status, cached, child>>

---------------------------------------------------------------------------
(* PreservingOldRoot and DualTrustActive. *)

Preserving == cached.phase = "PreservingOldRoot" /\ RootSecret.present

PreservingAbort ==
    /\ Preserving
    /\ cached.prev = RootSecret.key
    /\ ~ActiveCertificateRequest
    /\ Update([cached EXCEPT !.prev = None, !.phase = "Idle"])
    /\ UNCHANGED <<rootHandlerEnv, issuing, staging, bundle, child>>

PreservingRenewed ==
    /\ Preserving
    /\ cached.prev # RootSecret.key
    /\ Update([cached EXCEPT !.cur = RootSecret.key, !.phase = "DualTrustActive"])
    /\ UNCHANGED <<rootHandlerEnv, issuing, staging, bundle, child>>

ExtendStagingConfigMap ==
    /\ RootSecret.present
    /\ PatchStaging(AppendPEM(StagingSeen.pems, RootPEM))

DualTrustExtended ==
    /\ cached.phase = "DualTrustActive"
    /\ ExtendStagingConfigMap
    /\ Trigger(Tier1)
    /\ Update([cached EXCEPT !.dual = "True", !.reissued = "False",
                             !.phase = "AwaitingReissuance"])
    /\ UNCHANGED <<rootHandlerEnv, bundle, child>>

DualTrustBlocked ==
    /\ cached.phase = "DualTrustActive"
    /\ "apiFail" \in Env \/ ~RootSecret.present \/ ~StagingSeen.exists \/ ~staging.exists
    /\ Condition("dual", "False")
    /\ UNCHANGED <<rootHandlerEnv, issuing, staging, bundle, child>>

DualTrustInterrupted ==
    /\ cached.phase = "DualTrustActive"
    /\ Disrupt("apiFail")
    /\ ExtendStagingConfigMap
    /\ \E S \in SUBSET Tier1 : Trigger(S)
    /\ UNCHANGED <<rootHandlerEnv, status, cached, bundle, child>>

---------------------------------------------------------------------------
(* AwaitingReissuance: tier-1 by AKID, then tier-2 by notBefore, then the leaves. *)

Awaiting == cached.phase = "AwaitingReissuance"
\* Mutant: Ready is taken for re-issued, though a Certificate stays Ready while it is.
Tier1Ready == \A t \in Tier1 : Ready(t) /\ AKID(t) # None
Tier1Reissued == \A t \in Tier1 : AKID(t) # None /\ AKID(t) = cached.cur
\* Mutants: the comparison is forgotten; it is made with the certificate itself.
EveryTier2 == Tier2
Tier2Unset == {c \in Tier2 : NotBefore(c) = None}
Tier2Predating == {c \in Tier2 : ~(NotBefore(c) > LatestNotBefore(Tier1))}
Tier2Pending == Tier2Predating \cup {c \in Tier2 : ~Ready(c)}

AwaitingTier1 ==
    /\ Awaiting
    /\ ~Tier1Reissued
    /\ Condition("reissued", "False")
    /\ UNCHANGED <<rootHandlerEnv, issuing, staging, bundle, child>>

AwaitingTier2 ==
    /\ Awaiting
    /\ Tier1Reissued
    /\ Tier2Pending # {}
    /\ Trigger(Tier2Predating)
    /\ Condition("reissued", "False")
    /\ UNCHANGED <<rootHandlerEnv, staging, bundle, child>>

AwaitingTier2Reissued ==
    /\ Awaiting
    /\ Tier1Reissued
    /\ Tier2Pending = {}
    /\ Trigger(TrackedLeaves)
    /\ Update([cached EXCEPT !.reissued = "True", !.phase = "VerifyingChain"])
    /\ UNCHANGED <<rootHandlerEnv, staging, bundle, child>>

AwaitingInterrupted ==
    /\ Awaiting
    /\ Disrupt("apiFail")
    /\ Tier1Reissued
    /\ \E S \in SUBSET IF Tier2Pending = {} THEN TrackedLeaves ELSE Tier2Predating : Trigger(S)
    /\ UNCHANGED <<rootHandlerEnv, status, cached, staging, bundle, child>>

---------------------------------------------------------------------------
(* VerifyingChain. The loops stop at the first certificate that fails, in list order. *)

Verifying == cached.phase = "VerifyingChain"
Retrigger(S) == \E T \in Attempts(S) : Trigger(T)   \* its error is discarded

VerifyTier1Fails ==    \* a Secret that cannot be read counts as a failure too
    /\ Verifying
    /\ "apiFail" \in Env \/ ~Tier1Reissued
    /\ Condition("verified", "False")
    /\ UNCHANGED <<rootHandlerEnv, issuing, staging, bundle, child>>

VerifyTier2Fails(c) ==
    /\ Verifying
    /\ Tier1Reissued
    /\ c \in Tier2Pending
    /\ Retrigger({c})
    /\ Condition("verified", "False")
    /\ UNCHANGED <<rootHandlerEnv, staging, bundle, child>>

(* The tier-2 certificate whose notBefore a namespace's leaves are held against: with
   several in one namespace, the one the cache lists last. *)
Baselines == {b \in [Tier2Namespaces -> Tier2] : \A n \in Tier2Namespaces : Namespace[b[n]] = n}
LeafBaseline(l, b) == IF Namespace[l] \in Tier2Namespaces THEN NotBefore(b[Namespace[l]])
                      ELSE LatestNotBefore(Tier1)
\* Mutants: any notBefore will do; it must be later than every other.
LeafDated(l, b) == NotBefore(l) # None
LeafLatest(l, b) == NotBefore(l) # None /\ \A c \in Certs \ {l} : NotBefore(l) > NotBefore(c)
LeafFresh(l, b) == NotBefore(l) # None /\ NotBefore(l) >= LeafBaseline(l, b)

VerifyLeafFails(l) ==
    /\ Verifying
    /\ Tier1Reissued
    /\ Tier2Pending = {}
    /\ \E b \in Baselines :
          \/ ~Ready(l) /\ UNCHANGED issuing
          \/ Ready(l) /\ ~LeafFresh(l, b) /\ Retrigger({l})
    /\ Condition("verified", "False")
    /\ UNCHANGED <<rootHandlerEnv, staging, bundle, child>>

VerifyPasses ==
    /\ Verifying
    /\ Tier1Reissued
    /\ Tier2Pending = {}
    /\ \E b \in Baselines : \A l \in TrackedLeaves : Ready(l) /\ LeafFresh(l, b)
    /\ Update([cached EXCEPT !.verified = "True", !.phase = "Complete"])
    /\ UNCHANGED <<rootHandlerEnv, issuing, staging, bundle, child>>

---------------------------------------------------------------------------
(* Complete. *)

TrimStagingConfigMap ==
    \/ cached.prev = None /\ UNCHANGED staging
    \/ /\ cached.prev # None
       /\ PatchStaging(RemovePEMBySKID(StagingSeen.pems, cached.prev))

Complete ==
    /\ cached.phase = "Complete"
    /\ TrimStagingConfigMap
    /\ \E S \in Attempts(CAs) : SyncChildSKIDs(S)
    /\ Update([cached EXCEPT !.prev = None, !.phase = "Idle"])
    /\ UNCHANGED <<rootHandlerEnv, issuing, bundle>>

CompleteInterrupted ==
    /\ cached.phase = "Complete"
    /\ Disrupt("apiFail")
    /\ TrimStagingConfigMap
    /\ \E S \in SUBSET CAs : SyncChildSKIDs(S)
    /\ UNCHANGED <<rootHandlerEnv, issuing, status, cached, bundle>>

---------------------------------------------------------------------------
ReconcileRoot ==
    \/ InitialisePhase
    \/ IdleSKIDChanged \/ IdleBaseline \/ IdleRequestDetected \/ IdleQuiet
    \/ PreservingAbort \/ PreservingRenewed
    \/ DualTrustExtended
    \/ AwaitingTier1 \/ AwaitingTier2 \/ AwaitingTier2Reissued
    \/ VerifyTier1Fails
    \/ \E c \in Tier2 : VerifyTier2Fails(c)
    \/ \E l \in TrackedLeaves : VerifyLeafFails(l)
    \/ VerifyPasses
    \/ Complete

RootInterrupted ==
    \/ IdleInterrupted \/ DualTrustBlocked \/ DualTrustInterrupted
    \/ AwaitingInterrupted \/ CompleteInterrupted
=============================================================================
