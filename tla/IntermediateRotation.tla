------------------------ MODULE IntermediateRotation ------------------------
(***************************************************************************)
(* One reconcile of the role=IntermediateCA PKIRotation of the CA c: the   *)
(* cascade-only state machine. The Secret of c is read live, and the phase *)
(* of the owner is read from the operator's copy of the root PKIRotation.  *)
(* A reconcile that cannot read the Secret of c returns before it changes  *)
(* anything. No handler reaches a phase outside ChildPhases, so the        *)
(* dispatcher's reset of an unexpected phase has no action.                *)
(***************************************************************************)
EXTENDS RootRotation

childHandlerEnv ==
    <<rootVars, crt, pub, loaded, clock, trustVars, status, cached, seen>>

Reconciled(c) == child[c].exists /\ crt[c].present
ChildIdle(c) == Reconciled(c) /\ child[c].phase \in {"", "Idle"}

UpdateChild(c, new) == child' = [child EXCEPT ![c] = new]

SweepIntermediateChildren(c) ==
    \E S \in Attempts(StaleChildren(c, SKID(c))) : Trigger(S)

OwnerIdle == cached.phase \in {"", "Idle"}

ChildBaseline(c) ==
    /\ ChildIdle(c)
    /\ child[c].cur = None
    /\ UpdateChild(c, [child[c] EXCEPT !.cur = SKID(c), !.phase = "Idle"])
    /\ SweepIntermediateChildren(c)
    /\ UNCHANGED <<childHandlerEnv, disruptions>>

\* Mutant: the status is written only when the SKID is (issue 259).
ChildQuietUnwritten(c) ==
    /\ ChildIdle(c)
    /\ child[c].cur = SKID(c)
    /\ SweepIntermediateChildren(c)
    /\ UNCHANGED <<childHandlerEnv, child, disruptions>>

(* An empty phase is made Idle here, the only place every such object passes. *)
ChildQuiet(c) ==
    /\ ChildIdle(c)
    /\ child[c].cur = SKID(c)
    /\ UpdateChild(c, [child[c] EXCEPT !.phase = "Idle"])
    /\ SweepIntermediateChildren(c)
    /\ UNCHANGED <<childHandlerEnv, disruptions>>

SKIDChanged(c) == ChildIdle(c) /\ child[c].cur \notin {None, SKID(c)}

\* Mutant: the child follows the phases of the other role.
ChildPreserves(c) ==
    /\ SKIDChanged(c)
    /\ ~OwnerIdle
    /\ UpdateChild(c, [child[c] EXCEPT !.cur = SKID(c), !.phase = "PreservingOldRoot"])
    /\ UNCHANGED <<childHandlerEnv, issuing, disruptions>>

(* The root rotation re-issues everything below c itself, so the child only follows. *)
ChildYields(c) ==
    /\ SKIDChanged(c)
    /\ ~OwnerIdle
    /\ UpdateChild(c, [child[c] EXCEPT !.cur = SKID(c), !.phase = "Idle"])
    /\ UNCHANGED <<childHandlerEnv, issuing, disruptions>>

ChildCascades(c) ==
    /\ SKIDChanged(c)
    /\ OwnerIdle
    /\ UpdateChild(c, [child[c] EXCEPT !.cur = SKID(c), !.phase = "AwaitingReissuance"])
    /\ UNCHANGED <<childHandlerEnv, issuing, disruptions>>

(* The CA was rotated again: back to Idle, which sees the SKID differ. *)
ChildDrift(c) ==
    /\ Reconciled(c)
    /\ child[c].phase \in {"AwaitingReissuance", "VerifyingChain"}
    /\ child[c].cur # SKID(c)
    /\ UpdateChild(c, [child[c] EXCEPT !.phase = "Idle"])
    /\ UNCHANGED <<childHandlerEnv, issuing, disruptions>>

ChildTriggers(c) ==
    /\ Reconciled(c)
    /\ child[c].phase = "AwaitingReissuance"
    /\ child[c].cur = SKID(c)
    /\ Trigger(Below(c))
    /\ UpdateChild(c, [child[c] EXCEPT !.reissued = "False", !.phase = "VerifyingChain"])
    /\ UNCHANGED <<childHandlerEnv, disruptions>>

ChildVerifying(c) ==
    Reconciled(c) /\ child[c].phase = "VerifyingChain" /\ child[c].cur = SKID(c)

(* The three things that make a downstream certificate pending. An AKID that cannot be
   read, or is empty because the Secret is absent, does not. *)
NotReady(c) == {d \in Below(c) : ~Ready(d)}
Outdated(c) == {d \in Below(c) \ NotReady(c) : NotBefore(d) \in {None} \cup 1 .. NotBefore(c) - 1}
\* Mutant: notBefore alone decides.
Unmatched(c) == {}
Mismatched(c) == {d \in Children(c) \ (NotReady(c) \cup Outdated(c)) :
                     AKID(d) \notin {None, child[c].cur}}

(* With "apiFail" any of the Secrets of the direct children may be unreadable. *)
ChildPending(c) ==
    /\ ChildVerifying(c)
    /\ \E unread \in IF "apiFail" \in Env THEN SUBSET Mismatched(c) ELSE {{}} :
          LET found == Outdated(c) \cup (Mismatched(c) \ unread)
          IN  /\ NotReady(c) \cup found # {}
              /\ Retrigger(found)
    /\ UpdateChild(c, [child[c] EXCEPT !.verified = "False"])
    /\ UNCHANGED <<childHandlerEnv, disruptions>>

\* Mutants: everything that is Ready counts as verified; IntermediateReissued is left
\* False (issue 260).
ChildVerifiedReady(c) ==
    /\ ChildVerifying(c)
    /\ NotReady(c) = {}
    /\ UpdateChild(c, [child[c] EXCEPT !.reissued = "True", !.verified = "True",
                                       !.phase = "Complete"])
    /\ UNCHANGED <<childHandlerEnv, issuing, disruptions>>

ChildVerifiedOnly(c) ==
    /\ ChildVerifying(c)
    /\ NotReady(c) \cup Outdated(c) = {}
    /\ "apiFail" \in Env \/ Mismatched(c) = {}
    /\ UpdateChild(c, [child[c] EXCEPT !.verified = "True", !.phase = "Complete"])
    /\ UNCHANGED <<childHandlerEnv, issuing, disruptions>>

ChildVerified(c) ==
    /\ ChildVerifying(c)
    /\ NotReady(c) \cup Outdated(c) = {}
    /\ "apiFail" \in Env \/ Mismatched(c) = {}
    /\ UpdateChild(c, [child[c] EXCEPT !.reissued = "True", !.verified = "True",
                                       !.phase = "Complete"])
    /\ UNCHANGED <<childHandlerEnv, issuing, disruptions>>

ChildCompletes(c) ==
    /\ child[c].exists
    /\ child[c].phase = "Complete"
    /\ UpdateChild(c, [child[c] EXCEPT !.phase = "Idle"])
    /\ UNCHANGED <<childHandlerEnv, issuing, disruptions>>

(* Some Certificates were triggered, and then a call failed. *)
ChildInterrupted(c) ==
    /\ Disrupt("apiFail")
    /\ Reconciled(c)
    /\ child[c].phase = "AwaitingReissuance"
    /\ child[c].cur = SKID(c)
    /\ \E S \in SUBSET Below(c) : Trigger(S)
    /\ UNCHANGED <<childHandlerEnv, child>>

ReconcileChild(c) ==
    \/ ChildBaseline(c) \/ ChildQuiet(c) \/ ChildYields(c) \/ ChildCascades(c)
    \/ ChildDrift(c) \/ ChildTriggers(c) \/ ChildPending(c) \/ ChildVerified(c)
    \/ ChildCompletes(c)
=============================================================================
