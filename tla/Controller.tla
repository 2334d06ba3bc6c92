----------------------------- MODULE Controller -----------------------------
(***************************************************************************)
(* What makes the operator run: the watches of SetupWithManager, the work  *)
(* queue, the requeues the handlers return, a restart of the process, and  *)
(* the phase gauge each reconcile sets.                                    *)
(*                                                                         *)
(* Operator assumes that a reconcile that can do something is eventually   *)
(* run. Here an object is reconciled only when it is queued, by the event  *)
(* of its own status write, by a timer, or by an event a map function      *)
(* turned into a request; the map functions may drop theirs.               *)
(***************************************************************************)
EXTENDS Operator

CONSTANT MaxRestarts  \* bound on the restarts of the operator

ASSUME RestartAssumption == MaxRestarts \in Nat

VARIABLES
    queue,   \* the PKIRotations waiting to be reconciled
    timer,   \* the earliest requeue pending for each
    gauge,   \* the phase whose series reads 1, for each
    restarts \* how often the operator was restarted

queueVars == <<queue, timer, gauge, restarts>>
controllerVars == <<vars, queueVars>>

Objects == CAs \cup {Root}
Existing == {Root} \cup {c \in CAs : child[c].exists}
Phase(o) == IF o = Root THEN cached.phase ELSE child[o].phase
Polled == "poll"   \* 10 to 30 seconds, or the backoff after an error
Swept  == "sweep"  \* staleDownstreamSweepInterval, an hour
NoTimer == "none"
NoSeries == "none"

ControllerTypeOK ==
    /\ TypeOK
    /\ queue \subseteq Objects
    /\ timer \in [Objects -> {NoTimer, Polled, Swept}]
    /\ gauge \in [Objects -> RootPhases \cup {NoSeries}]
    /\ restarts \in 0 .. MaxRestarts

---------------------------------------------------------------------------
(* The watches, as a function of a step. *)

(* For(&PKIRotation{}) has no predicate: a status write comes back as an event. *)
\* Mutant: For with GenerationChangedPredicate, which a status write does not pass.
Created == {c \in CAs : child'[c].exists /\ ~child[c].exists}
OwnEvents == {o \in {Root} : cached' # cached} \cup {c \in CAs : child'[c] # child[c]}

(* The root's Certificate, its CertificateRequest and the Bundle map to every PKIRotation
   of the tree, any other Certificate to those that wait for re-issues, a Secret to the
   PKIRotation of its CA. *)
RootMapped == {o \in Existing' : root' # root \/ rootCR' # rootCR \/ bundle' # bundle}
CertificateMapped ==
    {o \in Existing' : /\ <<crt, pub, issuing>>' # <<crt, pub, issuing>>
                       /\ Phase(o)' \in {"AwaitingReissuance", "VerifyingChain"}}
SecretMapped == {c \in CAs \cap Existing' : crt'[c] # crt[c]}
Mapped == RootMapped \cup CertificateMapped \cup SecretMapped

(* pkiRotationsMatching: "A List failure yields no requests". *)
Enqueue(left, others) == \E woken \in SUBSET others : queue' = left \cup OwnEvents \cup woken

---------------------------------------------------------------------------
(* A reconcile of the object o. *)

(* Returns without a change: the Secret is not there, the renewal is not over, or there is
   no ConfigMap to trim. *)
RootWaits ==
    /\ \/ cached.phase \in {"Idle", "PreservingOldRoot"} /\ ~RootSecret.present
       \/ Preserving /\ cached.prev = RootSecret.key /\ ActiveCertificateRequest
       \/ cached.phase = "Complete" /\ cached.prev # None /\ ~StagingSeen.exists
    /\ UNCHANGED vars

ChildWaits(c) == ~crt[c].present /\ child[c].phase # "Complete" /\ UNCHANGED vars

RootHandler == ReconcileRoot \/ RootInterrupted \/ RootWaits
ChildHandler(c) == ReconcileChild(c) \/ ChildInterrupted(c) \/ ChildWaits(c)

(* The handler gets as far as the sweep of the direct children. *)
Sweeps(o) ==
    IF o = Root THEN Idle /\ (cached.cur = None \/ (cached.cur = RootSecret.key /\ ~ActiveCertificateRequest))
    ELSE ChildIdle(o) /\ child[o].cur \in {None, SKID(o)}

(* transitionTo has written a phase; an empty phase that a child's handler fills is written
   past it. *)
Transitioned(o) ==
    IF o = Root THEN status' # status /\ status'.phase # cached.phase
    ELSE child'[o].phase # child[o].phase /\ <<child[o].phase, child'[o].phase>> # <<"", "Idle">>

(* After a transition its own event is the only thing that brings the object back; an error
   in a sweep is retried with backoff. *)
\* Mutants: every handler leaves it to the hourly sweep; the sweep has a waiting handler's
\* interval.
Hourly(o) == {Swept}
Requeue(o) ==
    IF Transitioned(o) THEN {NoTimer}
    ELSE IF Sweeps(o) /\ disruptions' = disruptions
         THEN {Swept} \cup {Polled : x \in Env \cap {"apiFail"}}
    ELSE {Polled}

(* AddAfter keeps the earlier of two times. *)
Sooner(one, other) ==
    CASE Polled \in {one, other} -> Polled
      [] Swept \in {one, other} /\ Polled \notin {one, other} -> Swept
      [] OTHER -> NoTimer

(* recordPhase on every observation, and again after the write of a phase; the first status
   a child writes is not recorded. *)
\* Mutant: the phase is recorded on transitions only.
RecordedOnTransition(o) ==
    IF Transitioned(o) THEN IF o = Root THEN status'.phase ELSE child'[o].phase ELSE gauge[o]
Recorded(o) ==
    IF o = Root THEN IF status' # status THEN status'.phase ELSE cached.phase
    ELSE IF ChildIdle(o) /\ child[o].cur = None THEN child[o].phase ELSE child'[o].phase

Process(o) ==
    /\ o \in queue \cap Existing
    /\ IF o = Root THEN RootHandler ELSE ChildHandler(o)
    /\ \E result \in Requeue(o) : timer' = [timer EXCEPT ![o] = Sooner(timer[o], result)]
    /\ gauge' = [gauge EXCEPT ![o] = Recorded(o)]
    /\ Enqueue(queue \ {o}, Mapped \cup {o})  \* a repeated condition has a new time, and an event
    /\ UNCHANGED restarts

(* The object is gone: its series are dropped, and nothing asks for it again. *)
Forget(o) ==
    /\ o \in queue \ Existing
    /\ queue' = queue \ {o}
    /\ gauge' = [gauge EXCEPT ![o] = NoSeries]
    /\ UNCHANGED <<vars, timer, restarts>>

Fire(o) ==
    /\ timer[o] # NoTimer
    /\ queue' = queue \cup {o}
    /\ timer' = [timer EXCEPT ![o] = NoTimer]
    /\ UNCHANGED <<vars, gauge, restarts>>

(* A new process lists every PKIRotation and remembers nothing. *)
Restart ==
    /\ restarts < MaxRestarts
    /\ queue' = Existing
    /\ timer' = [o \in Objects |-> NoTimer]
    /\ gauge' = [o \in Objects |-> NoSeries]
    /\ restarts' = restarts + 1
    /\ UNCHANGED vars

ClusterStep ==
    /\ EnvironmentStep
    /\ Enqueue(queue, Mapped)
    /\ UNCHANGED <<timer, gauge, restarts>>

ControllerInit ==
    /\ Init
    /\ queue = {Root}
    /\ timer = [o \in Objects |-> NoTimer]
    /\ gauge = [o \in Objects |-> NoSeries]
    /\ restarts = 0

ControllerNext ==
    \/ \E o \in Objects : Process(o)
    \/ \E o \in Objects : Forget(o)
    \/ \E o \in Objects : Fire(o)
    \/ Restart
    \/ ClusterStep

(* The worker takes what is queued, and time passes. Nothing is assumed of the watches. *)
ControllerSpec ==
    /\ ControllerInit /\ [][ControllerNext]_controllerVars
    /\ EnvironmentFairness
    /\ \A o \in Objects :
          WF_controllerVars(Process(o)) /\ WF_controllerVars(Forget(o)) /\ WF_controllerVars(Fire(o))

---------------------------------------------------------------------------
(* The handlers run as Operator assumes they do, although every event of a map function may
   be dropped: setup.go:83 "the watch is an optimisation over the phase requeue, never the
   only path back in". Every step is one of Operator's or a stutter, and the fairness
   Operator states for the handlers follows from the queue's. *)
HandlersRun == WF_vars(ReconcileRoot) /\ \A c \in CAs : WF_vars(ReconcileChild(c))
ImplementsOperator == Spec /\ HandlersRun

(* No PKIRotation is forgotten, and none in the middle of a rotation waits for the hourly
   sweep: it is queued, its own event is on the way, or it is polled. *)
MidRotationPolled ==
    \A o \in Existing \ queue :
        \/ o = Root /\ cached # status
        \/ timer[o] = Polled
        \/ timer[o] = Swept /\ Phase(o) = "Idle"

(* The gauge of an object that is not queued shows its phase (recordPhase "on every
   observation, not only on transition"), and none when there is no such object
   (forgetPhase): writes that bypass recordPhase, deletions and restarts are made good by
   the next reconcile. *)
GaugeCurrent ==
    \A o \in Objects \ queue :
        gauge[o] \in IF o \notin Existing THEN {NoSeries}
                     ELSE {Phase(o)} \cup {status.phase : x \in {Root} \cap {o}}

=============================================================================
