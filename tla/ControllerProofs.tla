-------------------------- MODULE ControllerProofs --------------------------
(***************************************************************************)
(* Proofs about the work queue: what is reconciled, whatever events the    *)
(* map functions drop, is a run of Operator, so all that is proved of      *)
(* Operator holds here; and no PKIRotation is forgotten.                   *)
(***************************************************************************)
EXTENDS Controller, OperatorProofs

(* A reconcile is a step of Operator or changes nothing. *)
LEMMA ProcessStep ==
    ASSUME NEW o \in Objects, Process(o)
    PROVE  OperatorStep \/ UNCHANGED vars
<1>1. CASE o = Root
    <2>1. RootHandler
        BY <1>1 DEF Process
    <2> QED BY <2>1 DEF RootHandler, RootWaits, OperatorStep
<1>2. CASE o # Root
    <2>1. o \in CAs /\ ChildHandler(o)
        BY <1>2 DEF Process, Objects
    <2> QED BY <2>1 DEF ChildHandler, ChildWaits, OperatorStep
<1> QED BY <1>1, <1>2

(* Every step of the queue is one of Operator's, or leaves its variables alone. *)
LEMMA ControllerStep == [ControllerNext]_controllerVars => [Next]_vars
<1> SUFFICES ASSUME [ControllerNext]_controllerVars PROVE [Next]_vars
    OBVIOUS
<1>1. CASE \E o \in Objects : Process(o)
    BY <1>1, ProcessStep DEF Next
<1>2. CASE \E o \in Objects : Forget(o) \/ Fire(o)
    BY <1>2 DEF Forget, Fire
<1>3. CASE Restart
    BY <1>3 DEF Restart
<1>4. CASE ClusterStep
    BY <1>4 DEF ClusterStep, Next
<1>5. CASE UNCHANGED controllerVars
    BY <1>5 DEF controllerVars
<1> QED BY <1>1, <1>2, <1>3, <1>4, <1>5 DEF ControllerNext

(* The queue reconciles nothing Operator does not allow: whatever is queued, dropped, timed
   or restarted, the objects in the cluster go through a behaviour of Operator's
   (Reconcile, SetupWithManager). *)
THEOREM RunsAsOperator == ControllerSpec => Spec
<1>1. ControllerInit => Init
    BY DEF ControllerInit
<1> QED BY <1>1, ControllerStep, PTL DEF ControllerSpec, Spec

---------------------------------------------------------------------------
(* The types of the queue's variables. *)

(* The watches enqueue objects only. *)
LEMMA EnqueueType ==
    ASSUME NEW left, left \subseteq Objects, NEW others, others \subseteq Objects,
           Enqueue(left, others)
    PROVE  queue' \subseteq Objects
BY DEF Enqueue, OwnEvents, Objects

LEMMA MappedType == Mapped \subseteq Objects
BY DEF Mapped, RootMapped, CertificateMapped, SecretMapped, Existing, Objects

LEMMA ControllerTypeProcess ==
    ASSUME ControllerTypeOK, TypeOK', NEW o \in Objects, Process(o)
    PROVE  ControllerTypeOK'
<1>1. queue' \subseteq Objects
    <2>1. queue \ {o} \subseteq Objects /\ Mapped \cup {o} \subseteq Objects
        BY MappedType DEF ControllerTypeOK
    <2>2. Enqueue(queue \ {o}, Mapped \cup {o})
        BY DEF Process
    <2> QED BY <2>1, <2>2, EnqueueType
<1>2. timer' \in [Objects -> {NoTimer, Polled, Swept}]
    <2>1. PICK result \in Requeue(o) : timer' = [timer EXCEPT ![o] = Sooner(timer[o], result)]
        BY DEF Process
    <2>2. Sooner(timer[o], result) \in {NoTimer, Polled, Swept}
        BY DEF Sooner
    <2> QED BY <2>1, <2>2 DEF ControllerTypeOK
<1>3. gauge' \in [Objects -> RootPhases \cup {NoSeries}]
    <2>1. Recorded(o) \in RootPhases
        BY DEF Recorded, ControllerTypeOK, TypeOK, RootStatus, Child, RootPhases, ChildPhases, Objects
    <2>2. gauge' = [gauge EXCEPT ![o] = Recorded(o)]
        BY DEF Process
    <2> QED BY <2>1, <2>2 DEF ControllerTypeOK
<1> QED BY <1>1, <1>2, <1>3 DEF Process, ControllerTypeOK

LEMMA ControllerTypeNext ==
    ControllerTypeOK /\ [ControllerNext]_controllerVars => ControllerTypeOK'
<1> SUFFICES ASSUME ControllerTypeOK, [ControllerNext]_controllerVars PROVE ControllerTypeOK'
    OBVIOUS
<1>1. TypeOK'
    BY ControllerStep, TypeNext DEF ControllerTypeOK
<1>2. ASSUME NEW o \in Objects, Process(o) PROVE ControllerTypeOK'
    BY <1>1, <1>2, ControllerTypeProcess
<1>3. ASSUME NEW o \in Objects, Forget(o) \/ Fire(o) PROVE ControllerTypeOK'
    BY <1>1, <1>3 DEF Forget, Fire, ControllerTypeOK
<1>4. CASE Restart
    <2>1. Existing \subseteq Objects
        BY DEF Existing, Objects
    <2>2. restarts' \in 0 .. MaxRestarts
        BY <1>4, RestartAssumption DEF Restart, ControllerTypeOK
    <2> QED BY <1>1, <1>4, <2>1, <2>2 DEF Restart, ControllerTypeOK
<1>5. CASE ClusterStep
    BY <1>1, <1>5, EnqueueType, MappedType DEF ClusterStep, ControllerTypeOK
<1>6. CASE UNCHANGED controllerVars
    BY <1>1, <1>6 DEF controllerVars, queueVars, ControllerTypeOK
<1> QED BY <1>2, <1>3, <1>4, <1>5, <1>6 DEF ControllerNext

(* Only PKIRotations are queued, by whatever event, timer or restart, and the gauge shows only
   phases of the object's role (Reconcile, recordPhase). *)
THEOREM ControllerTypeCorrect == ControllerSpec => []ControllerTypeOK
<1>1. ControllerInit => ControllerTypeOK
    BY TypeInit, RestartAssumption DEF ControllerInit, ControllerTypeOK, Objects
<1> QED BY <1>1, ControllerTypeNext, PTL DEF ControllerSpec

---------------------------------------------------------------------------
(* No object is forgotten. Whoever changes an object wakes it, so only what its own
   reconcile leaves behind has to be looked at. *)

(* What a step other than o's reconcile leaves out of the queue, it has not changed. *)
LEMMA Undisturbed ==
    ASSUME NEW left, NEW others, Enqueue(left, others), NEW o \in Objects, o \notin queue'
    PROVE  /\ o = Root => cached' = cached
           /\ o # Root => child'[o] = child[o]
           /\ o \notin left
           /\ Phase(o)' = Phase(o) /\ (o \in Existing' <=> o \in Existing)
<1>1. o \notin OwnEvents /\ o \notin left
    BY DEF Enqueue
<1>2. /\ o = Root => cached' = cached
      /\ o # Root => child'[o] = child[o]
    BY <1>1 DEF OwnEvents, Objects
<1> QED BY <1>1, <1>2 DEF Phase, Existing, Objects

(* The status is written by the root's handlers, and a write the copy does not show yet
   makes the two differ. *)
LEMMA StatusStep ==
    ASSUME RootHandler, cached' = cached
    PROVE  status' = status \/ cached' # status'
<1>1. ASSUME NEW new, Update(new) PROVE status' = status \/ cached' # status'
    BY <1>1 DEF Update, Written, Conflicted
<1>2. CASE ReconcileRoot
    BY <1>1, <1>2
    DEF ReconcileRoot, InitialisePhase, IdleSKIDChanged, IdleBaseline, IdleRequestDetected,
        IdleQuiet, PreservingAbort, PreservingRenewed, DualTrustExtended, AwaitingTier1,
        AwaitingTier2, AwaitingTier2Reissued, VerifyTier1Fails, VerifyTier2Fails,
        VerifyLeafFails, VerifyPasses, Complete, Condition
<1>3. CASE RootInterrupted
    BY <1>1, <1>3
    DEF RootInterrupted, IdleInterrupted, DualTrustBlocked, DualTrustInterrupted,
        AwaitingInterrupted, CompleteInterrupted, Condition
<1>4. CASE RootWaits
    BY <1>4 DEF RootWaits, vars, crdVars
<1> QED BY <1>2, <1>3, <1>4 DEF RootHandler

(* An idle child without a phase is given one by whatever its handler does. *)
LEMMA EmptyPhaseWritten ==
    ASSUME TypeOK, NEW c \in CAs, ChildHandler(c), ChildIdle(c), child[c].phase = ""
    PROVE  child'[c] # child[c]
<1>1. ASSUME NEW new, UpdateChild(c, new), new.phase # "" PROVE child'[c] # child[c]
    BY <1>1 DEF UpdateChild, TypeOK
<1>2. ASSUME NEW cur, NEW phase, phase # "",
             UpdateChild(c, [child[c] EXCEPT !.cur = cur, !.phase = phase])
      PROVE  child'[c] # child[c]
    BY <1>1, <1>2 DEF TypeOK, Child
<1>3. CASE ChildQuiet(c)
    <2>1. [child[c] EXCEPT !.phase = "Idle"].phase = "Idle"
        BY DEF TypeOK, Child
    <2> QED BY <1>1, <1>3, <2>1 DEF ChildQuiet
<1>4. CASE ChildBaseline(c) \/ ChildYields(c) \/ ChildCascades(c)
    BY <1>2, <1>4 DEF ChildBaseline, ChildYields, ChildCascades
<1>5. ~(ChildDrift(c) \/ ChildTriggers(c) \/ ChildPending(c) \/ ChildVerified(c)
        \/ ChildCompletes(c) \/ ChildInterrupted(c) \/ ChildWaits(c))
    BY DEF ChildDrift, ChildTriggers, ChildPending, ChildVerified, ChildVerifying,
           ChildCompletes, ChildInterrupted, ChildWaits, ChildIdle, Reconciled
<1> QED BY <1>3, <1>4, <1>5 DEF ChildHandler, ReconcileChild

(* The two invariants of one object that is not queued. *)
PolledOne(o) ==
    \/ o = Root /\ cached # status
    \/ timer[o] = Polled
    \/ timer[o] = Swept /\ Phase(o) = "Idle"
ShownOne(o) ==
    gauge[o] \in IF o \notin Existing THEN {NoSeries}
                 ELSE {Phase(o)} \cup {status.phase : x \in {Root} \cap {o}}
QueueInv ==
    /\ ControllerTypeOK
    /\ \A o \in Objects \ queue : (o \in Existing => PolledOne(o)) /\ ShownOne(o)

(* What o's own reconcile leaves behind. *)
LEMMA ProcessOwn ==
    ASSUME QueueInv, NEW o \in Objects, Process(o), o \notin queue'
    PROVE  PolledOne(o)' /\ ShownOne(o)'
<1>1. PICK result \in Requeue(o) : timer' = [timer EXCEPT ![o] = Sooner(timer[o], result)]
    BY DEF Process
<1>2. timer'[o] = Sooner(timer[o], result) /\ gauge'[o] = Recorded(o)
    BY <1>1 DEF Process, QueueInv, ControllerTypeOK
<1>3. /\ o = Root => cached' = cached
      /\ o # Root => child'[o] = child[o]
      /\ Phase(o)' = Phase(o) /\ (o \in Existing' <=> o \in Existing)
    BY Undisturbed DEF Process
<1>4. o \in Existing
    BY DEF Process
<1>5. CASE o = Root
    <2>1. RootHandler /\ cached' = cached
        BY <1>3, <1>5 DEF Process
    <2>2. status' = status \/ cached' # status'
        BY <2>1, StatusStep
    <2>3. PolledOne(o)'
        <3>1. CASE cached' # status'
            BY <1>5, <3>1 DEF PolledOne
        <3>2. CASE status' = status
            <4>1. result = Polled \/ (result = Swept /\ Idle)
                BY <1>5, <3>2 DEF Requeue, Transitioned, Sweeps
            <4>2. timer'[o] = Polled \/ (timer'[o] = Swept /\ Idle)
                BY <1>2, <4>1 DEF Sooner, Polled, Swept, NoTimer
            <4>3. Idle => Phase(o)' = "Idle"
                BY <1>3, <1>5 DEF Idle, Phase
            <4> QED BY <4>2, <4>3 DEF PolledOne
        <3> QED BY <2>2, <3>1, <3>2
    <2>4. ShownOne(o)'
        BY <1>2, <1>3, <1>4, <1>5, <2>1 DEF ShownOne, Recorded, Phase
    <2> QED BY <2>3, <2>4
<1>6. CASE o # Root
    <2>1. o \in CAs /\ ChildHandler(o) /\ child'[o] = child[o]
        BY <1>3, <1>6 DEF Process, Objects
    <2>2. result = Polled \/ (result = Swept /\ ChildIdle(o))
        BY <1>6, <2>1 DEF Requeue, Transitioned, Sweeps
    <2>3. timer'[o] = Polled \/ (timer'[o] = Swept /\ ChildIdle(o))
        BY <1>2, <2>2 DEF Sooner, Polled, Swept, NoTimer
    <2>4. ChildIdle(o) => child[o].phase = "Idle"
        BY <2>1, EmptyPhaseWritten DEF ChildIdle, QueueInv, ControllerTypeOK
    <2>5. PolledOne(o)'
        BY <1>3, <1>6, <2>3, <2>4 DEF PolledOne, Phase
    <2>6. ShownOne(o)'
        BY <1>2, <1>3, <1>4, <1>6, <2>1 DEF ShownOne, Recorded, Phase
    <2> QED BY <2>5, <2>6
<1> QED BY <1>5, <1>6

(* What a step leaves behind of an object that was not queued before it, and whose status,
   timer and series it does not touch. *)
LEMMA OthersKept ==
    ASSUME QueueInv, NEW o \in Objects, o \notin queue,
           Phase(o)' = Phase(o), o \in Existing' <=> o \in Existing,
           timer'[o] = timer[o], gauge'[o] = gauge[o],
           o = Root => cached' = cached /\ status' = status
    PROVE  (o \in Existing' => PolledOne(o)') /\ ShownOne(o)'
<1>1. (o \in Existing => PolledOne(o)) /\ ShownOne(o)
    BY DEF QueueInv
<1>2. CASE o = Root
    BY <1>1, <1>2 DEF PolledOne, ShownOne
<1>3. CASE o # Root
    <2>1. {status.phase : x \in {Root} \cap {o}} = {} /\ {status'.phase : x \in {Root} \cap {o}} = {}
        BY <1>3
    <2> QED BY <1>1, <1>3, <2>1 DEF PolledOne, ShownOne
<1> QED BY <1>2, <1>3

LEMMA QueueNext == QueueInv /\ [ControllerNext]_controllerVars => QueueInv'
<1> SUFFICES ASSUME QueueInv, [ControllerNext]_controllerVars,
                    NEW o \in Objects, o \notin queue'
             PROVE  (o \in Existing' => PolledOne(o)') /\ ShownOne(o)'
    BY ControllerTypeNext DEF QueueInv
<1>0. ControllerTypeOK
    BY DEF QueueInv
<1>1. ASSUME NEW p \in Objects, Process(p)
      PROVE  (o \in Existing' => PolledOne(o)') /\ ShownOne(o)'
    <2>1. CASE p = o
        BY <1>1, <2>1, ProcessOwn
    <2>2. CASE p # o
        <3>1. Enqueue(queue \ {p}, Mapped \cup {p})
            BY <1>1 DEF Process
        <3>2. /\ o = Root => cached' = cached
              /\ o \notin queue \ {p}
              /\ Phase(o)' = Phase(o) /\ (o \in Existing' <=> o \in Existing)
            BY <3>1, Undisturbed
        <3>3. timer'[o] = timer[o] /\ gauge'[o] = gauge[o]
            BY <1>0, <1>1, <2>2 DEF Process, ControllerTypeOK
        <3>4. o = Root => status' = status
            <4>1. SUFFICES ASSUME o = Root PROVE status' = status
                OBVIOUS
            <4>2. p \in CAs /\ ChildHandler(p)
                BY <1>1, <2>2, <4>1 DEF Process, Objects
            <4> QED BY <4>2, ChildStepFrame DEF ChildHandler, ChildWaits, vars, crdVars, childHandlerEnv
        <3> QED BY <2>2, <3>2, <3>3, <3>4, OthersKept
    <2> QED BY <2>1, <2>2
<1>2. ASSUME NEW p \in Objects, Forget(p)
      PROVE  (o \in Existing' => PolledOne(o)') /\ ShownOne(o)'
    <2>1. UNCHANGED <<cached, status, child, timer>> /\ p \notin Existing
        BY <1>2 DEF Forget, vars, crdVars
    <2>2. Phase(o)' = Phase(o) /\ Existing' = Existing
        BY <2>1 DEF Phase, Existing
    <2>3. CASE p = o
        BY <1>0, <1>2, <2>1, <2>2, <2>3 DEF Forget, ShownOne, ControllerTypeOK
    <2>4. CASE p # o
        <3>1. gauge'[o] = gauge[o] /\ o \notin queue
            BY <1>0, <1>2, <2>4 DEF Forget, ControllerTypeOK
        <3> QED BY <2>1, <2>2, <3>1, OthersKept
    <2> QED BY <2>3, <2>4
<1>3. ASSUME NEW p \in Objects, Fire(p)
      PROVE  (o \in Existing' => PolledOne(o)') /\ ShownOne(o)'
    <2>1. p # o /\ o \notin queue /\ UNCHANGED <<cached, status, child, gauge>>
        BY <1>3 DEF Fire, vars, crdVars
    <2>2. Phase(o)' = Phase(o) /\ Existing' = Existing /\ timer'[o] = timer[o]
        BY <1>0, <1>3, <2>1 DEF Phase, Existing, Fire, ControllerTypeOK
    <2> QED BY <2>1, <2>2, OthersKept
<1>4. CASE Restart
    <2>1. UNCHANGED child /\ o \notin Existing /\ gauge'[o] = NoSeries
        BY <1>4 DEF Restart, vars, crdVars
    <2>2. Existing' = Existing
        BY <2>1 DEF Existing
    <2> QED BY <2>1, <2>2 DEF ShownOne
<1>5. CASE ClusterStep
    <2>1. Enqueue(queue, Mapped)
        BY <1>5 DEF ClusterStep
    <2>2. /\ o = Root => cached' = cached
          /\ o \notin queue
          /\ Phase(o)' = Phase(o) /\ (o \in Existing' <=> o \in Existing)
        BY <2>1, Undisturbed
    <2>3. status' = status
        BY <1>5
        DEF ClusterStep, EnvironmentStep, CertManager, Disruption, Issue, Publish, LoadIssuer,
            RenewCertificate, DeleteSecret, DeleteChild, RequestRoot, RequestAbsentRoot,
            SignRoot, FailRoot, RetryRoot, WriteRootSecret, DeleteRoot, Distribute, Informers,
            CacheSync, Sync, DeleteConfigMap, crdVars
    <2>4. timer'[o] = timer[o] /\ gauge'[o] = gauge[o]
        BY <1>5 DEF ClusterStep
    <2> QED BY <2>2, <2>3, <2>4, OthersKept
<1>6. CASE UNCHANGED controllerVars
    <2>1. /\ UNCHANGED <<cached, status, child, timer, gauge>>
          /\ o \notin queue
        BY <1>6 DEF controllerVars, queueVars, vars, crdVars
    <2>2. Phase(o)' = Phase(o) /\ Existing' = Existing
        BY <2>1 DEF Phase, Existing
    <2> QED BY <2>1, <2>2, OthersKept
<1> QED BY <1>1, <1>2, <1>3, <1>4, <1>5, <1>6 DEF ControllerNext

(* At the start only the root exists, and it is queued. *)
LEMMA QueueInit == ControllerInit => QueueInv
<1> SUFFICES ASSUME ControllerInit PROVE QueueInv
    OBVIOUS
<1>1. ControllerTypeOK
    BY TypeInit, RestartAssumption DEF ControllerInit, ControllerTypeOK, Objects
<1>2. Existing = {Root}
    BY DEF ControllerInit, Init, Existing, NoChild
<1>3. \A o \in Objects \ queue : o \notin Existing /\ gauge[o] = NoSeries
    BY <1>2 DEF ControllerInit
<1> QED BY <1>1, <1>3 DEF QueueInv, ShownOne

LEMMA QueueInvariant == ControllerSpec => []QueueInv
BY QueueInit, QueueNext, PTL DEF ControllerSpec

(* A PKIRotation that is neither queued nor about to be woken by its own status write is
   polled, or is Idle and swept by the hour: no rotation is ever left to the watches
   (the Results the handlers return; setup.go:83). *)
THEOREM NobodyForgotten == ControllerSpec => []MidRotationPolled
<1>1. QueueInv => MidRotationPolled
    BY DEF QueueInv, MidRotationPolled, PolledOne, Existing, Objects
<1> QED BY <1>1, QueueInvariant, PTL

(* The phase gauge shows the phase of every object the operator is not about to look at,
   and no series of one that was deleted (recordPhase, forgetPhase). *)
THEOREM GaugeShowsPhase == ControllerSpec => []GaugeCurrent
<1>1. QueueInv => GaugeCurrent
    BY DEF QueueInv, GaugeCurrent, ShownOne
<1> QED BY <1>1, QueueInvariant, PTL
=============================================================================
