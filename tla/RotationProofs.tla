--------------------------- MODULE RotationProofs ---------------------------
(***************************************************************************)
(* The dual-trust window of one rotation after another: what the staging   *)
(* ConfigMap holds in each phase, whatever is delayed, fails or is renewed *)
(* with the same key in between. And the abstraction of it, DualTrust,     *)
(* which the operator implements whatever happens: initial states map to   *)
(* initial states, and every step to a step or a stutter.                  *)
(***************************************************************************)
EXTENDS OperatorProofs

---------------------------------------------------------------------------
(* A bundle with one PEM per key. *)

(* RemovePEMBySKID, which takes the first PEM with a key, takes the key away. *)
LEMMA RemovePEMExactly ==
    ASSUME NEW pems \in Seq(PEM), NEW skid \in Nat, DistinctKeys(pems)
    PROVE  /\ Keys(RemovePEMBySKID(pems, skid)) = Keys(pems) \ {skid}
           /\ DistinctKeys(RemovePEMBySKID(pems, skid))
<1> DEFINE left == RemovePEMBySKID(pems, skid)
<1> HIDE DEF left
<1>0. DOMAIN pems = 1 .. Len(pems) /\ Len(pems) \in Nat
    OBVIOUS
<1>1. CASE left = pems /\ ~ \E i \in DOMAIN pems :
                  pems[i].key = skid /\ \A j \in 1 .. i - 1 : pems[j].key # skid
    <2>1. ASSUME NEW i \in DOMAIN pems, pems[i].key = skid PROVE FALSE
        <3>1. \A j \in 1 .. i - 1 : j \in DOMAIN pems /\ j # i
            BY <1>0
        <3>2. \A j \in 1 .. i - 1 : pems[j].key # skid
            BY <2>1, <3>1 DEF DistinctKeys
        <3> QED BY <1>1, <2>1, <3>2
    <2> QED BY <1>1, <2>1 DEF left, Keys
<1>2. ASSUME NEW first \in 1 .. Len(pems), pems[first].key = skid,
             left \in Seq(PEM), Len(left) = Len(pems) - 1,
             \A i \in 1 .. Len(pems) - 1 : left[i] = pems[IF i < first THEN i ELSE i + 1]
      PROVE  Keys(left) = Keys(pems) \ {skid} /\ DistinctKeys(left)
    <2> DEFINE was(i) == IF i < first THEN i ELSE i + 1
    <2>1. DOMAIN left = 1 .. Len(pems) - 1
        BY <1>2
    <2>2. \A i \in DOMAIN left : was(i) \in DOMAIN pems /\ was(i) # first /\ left[i] = pems[was(i)]
        BY <1>0, <1>2, <2>1
    <2>3. ASSUME NEW i \in 1 .. Len(pems) - 1, NEW j \in 1 .. Len(pems) - 1, was(i) = was(j)
          PROVE  i = j
        <3>1. i \in Int /\ j \in Int /\ first \in Int
            BY <1>0
        <3>2. \/ i < first /\ j < first /\ i = j
              \/ i < first /\ ~(j < first) /\ i = j + 1
              \/ ~(i < first) /\ j < first /\ i + 1 = j
              \/ ~(i < first) /\ ~(j < first) /\ i + 1 = j + 1
            BY <2>3
        <3> QED BY <3>1, <3>2
    <2> HIDE DEF was
    <2>4. DistinctKeys(left)
        BY <2>1, <2>2, <2>3 DEF DistinctKeys
    <2>5. \A i \in DOMAIN left : left[i].key # skid
        BY <1>0, <1>2, <2>2 DEF DistinctKeys
    <2>6. skid \notin Keys(left)
        BY <2>5 DEF Keys
    <2>7. Keys(pems) \ {skid} \subseteq Keys(left) /\ Keys(left) \subseteq Keys(pems)
        BY RemovePEMKeys DEF left
    <2> QED BY <2>4, <2>6, <2>7
<1> QED BY <1>1, <1>2, RemovePEMShape DEF left

(* AppendPEM leaves one PEM per key where the PEMs with the new one's key are the new one. *)
LEMMA AppendPEMOnce ==
    ASSUME NEW pems \in Seq(PEM), NEW pem \in PEM, DistinctKeys(pems),
           \A i \in DOMAIN pems : pems[i].key = pem.key => pems[i] = pem
    PROVE  /\ DistinctKeys(AppendPEM(pems, pem))
           /\ \A i \in DOMAIN AppendPEM(pems, pem) :
                  AppendPEM(pems, pem)[i].key = pem.key => AppendPEM(pems, pem)[i] = pem
<1>1. CASE \E i \in DOMAIN pems : pems[i] = pem
    BY <1>1 DEF AppendPEM
<1>2. CASE ~ \E i \in DOMAIN pems : pems[i] = pem
    <2>1. AppendPEM(pems, pem) = Append(pems, pem)
        BY <1>2 DEF AppendPEM
    <2>2. \A i \in DOMAIN pems : pems[i].key # pem.key
        BY <1>2
    <2>3. /\ DOMAIN pems = 1 .. Len(pems) /\ Len(pems) \in Nat
          /\ DOMAIN Append(pems, pem) = 1 .. Len(pems) + 1
          /\ \A i \in 1 .. Len(pems) : Append(pems, pem)[i] = pems[i]
          /\ Append(pems, pem)[Len(pems) + 1] = pem
        BY AppendProperties
    <2>4. \A i \in 1 .. Len(pems) + 1 : i \in 1 .. Len(pems) \/ i = Len(pems) + 1
        BY <2>3
    <2> QED BY <2>1, <2>2, <2>3, <2>4 DEF DistinctKeys
<1> QED BY <1>1, <1>2

---------------------------------------------------------------------------
(* The installation. *)

(* A ConfigMap that is there before the operator holds the root in use. *)
LEMMA RotationInit ==
    ASSUME {"rootAgain", "deleteConfigMap", "configMapLag"} \cap Env = {},
           StagingAtInstall \subseteq {InstalledKey(Root)}, Init
    PROVE  RotationInv
<1>1. TrimInv
    BY TrimInit
<1>2. /\ root = [key |-> InstalledKey(Root), serial |-> InstalledKey(Root), present |-> TRUE]
      /\ rootCR = "none" /\ RootSecret = root
      /\ status.phase = "" /\ status.cur = None /\ cached = status
      /\ staging = InstalledStaging
    BY DEF Init, RootSecret
<1>3. InstalledKey(Root) \in {1, 2}
    BY DEF InstalledKey
<1>4. OneRenewal(status)
    <2>1. InstalledKey(Root) # 0
        BY <1>3
    <2>2. root.key = InstalledKey(Root) /\ root.present = TRUE
        BY <1>2
    <2>3. root.key # None /\ RootSecret.key # None
        BY <1>2, <2>1, <2>2 DEF None
    <2> QED BY <1>2, <2>2, <2>3 DEF OneRenewal
<1>5. InstalledStaging.exists => Keys(InstalledStaging.pems) = {InstalledKey(Root)}
    BY InstalledStagingKeys DEF InstalledStaging
<1>6. Window(status, staging)
    BY <1>2, <1>5 DEF Window
<1>7. DistinctKeys(staging.pems)
    <2> DEFINE k == InstalledKey(Root)
    <2>1. StagingAtInstall = {} \/ StagingAtInstall = {k}
        OBVIOUS
    <2>2. ASSUME NEW n \in {1, 2}
          PROVE  /\ InstalledPEM(n) \in Seq(PEM)
                 /\ Len(InstalledPEM(n)) = IF n = k /\ StagingAtInstall # {} THEN 1 ELSE 0
        <3>1. [key |-> n, serial |-> n] \in PEM
            BY DEF PEM
        <3>2. n \in StagingAtInstall <=> n = k /\ StagingAtInstall # {}
            BY <2>1
        <3> QED BY <3>1, <3>2 DEF InstalledPEM
    <2>3. Len(InstalledPEM(1)) + Len(InstalledPEM(2)) <= 1
        <3>1. /\ Len(InstalledPEM(1)) = IF k = 1 /\ StagingAtInstall # {} THEN 1 ELSE 0
              /\ Len(InstalledPEM(2)) = IF k = 2 /\ StagingAtInstall # {} THEN 1 ELSE 0
            BY <2>2
        <3> DEFINE one == Len(InstalledPEM(1))
                   two == Len(InstalledPEM(2))
        <3>2. one \in Nat /\ two \in Nat /\ (one = 0 \/ (one = 1 /\ two = 0)) /\ (two = 0 \/ two = 1)
            BY <3>1
        <3> HIDE DEF k, one, two
        <3>3. one + two <= 1
            BY <3>2
        <3> QED BY <3>3 DEF one, two
    <2>4. Len(InstalledPEM(1) \o InstalledPEM(2)) <= 1
        BY <2>2, <2>3, ConcatProperties
    <2>5. InstalledPEM(1) \o InstalledPEM(2) \in Seq(PEM)
        BY <2>2, ConcatProperties
    <2>6. staging.pems = InstalledPEM(1) \o InstalledPEM(2)
        BY <1>2 DEF InstalledStaging
    <2>7. DOMAIN staging.pems = 1 .. Len(staging.pems) /\ Len(staging.pems) \in Nat
          /\ Len(staging.pems) <= 1
        BY <2>4, <2>5, <2>6
    <2>8. \A i \in DOMAIN staging.pems : i = 1
        BY <2>7
    <2> QED BY <2>8 DEF DistinctKeys
<1>8. ExtendedOnce(status, staging.pems) /\ CopyFollows(cached, status)
    BY <1>2 DEF ExtendedOnce, CopyFollows
<1>9. {"rootAgain", "deleteConfigMap"} \cap Env = {}
    OBVIOUS
<1> QED BY <1>1, <1>4, <1>6, <1>7, <1>8, <1>9 DEF RotationInv

---------------------------------------------------------------------------
(* The root's handlers. *)

(* The operator's steps renew no root and read the same copy of its Secret before and
   after; where the status they write fits what they leave in the ConfigMap, and the old
   status fits it too when the write is refused, the invariant is kept. *)
LEMMA StatusWritten ==
    ASSUME RotationInv, TrimInv', UNCHANGED <<root, rootCR, seen>>,
           NEW new, Update(new),
           cached = status => /\ Window(new, staging')
                              /\ OneRenewal(new)
                              /\ ExtendedOnce(new, staging'.pems)
                              /\ CopyFollows(cached, new),
           cached # status => Window(status, staging') /\ ExtendedOnce(status, staging'.pems),
           DistinctKeys(staging'.pems)
    PROVE  RotationInv'
<1>0. RootSecret' = RootSecret /\ RootPEM' = RootPEM
    BY DEF RootSecret, RootPEM
<1>1. CASE cached = status /\ status' = new /\ cached' \in {new, cached}
    <2>1. Window(status, staging)' /\ OneRenewal(status)' /\ ExtendedOnce(status, staging.pems)'
        BY <1>0, <1>1 DEF Window, OneRenewal, RootInStatus, ExtendedOnce
    <2>2. CopyFollows(cached, status)'
        BY <1>1 DEF CopyFollows
    <2> QED BY <2>1, <2>2 DEF RotationInv
<1>2. CASE cached # status /\ UNCHANGED <<status, cached>>
    <2>1. OneRenewal(status) /\ CopyFollows(cached, status)
        BY DEF RotationInv
    <2>2. Window(status, staging)' /\ OneRenewal(status)' /\ ExtendedOnce(status, staging.pems)'
        BY <1>0, <1>2, <2>1 DEF Window, OneRenewal, RootInStatus, ExtendedOnce
    <2> QED BY <1>2, <2>1, <2>2 DEF RotationInv, CopyFollows
<1> QED BY <1>1, <1>2 DEF Update, Written, Conflicted

(* The same where the status is not written. *)
LEMMA StatusKept ==
    ASSUME RotationInv, TrimInv', UNCHANGED <<root, rootCR, seen, status, cached>>,
           Window(status, staging'), ExtendedOnce(status, staging'.pems),
           DistinctKeys(staging'.pems)
    PROVE  RotationInv'
<1>0. RootSecret' = RootSecret /\ RootPEM' = RootPEM
    BY DEF RootSecret, RootPEM
<1>1. OneRenewal(status) /\ CopyFollows(cached, status)
    BY DEF RotationInv
<1>2. Window(status, staging)' /\ OneRenewal(status)' /\ ExtendedOnce(status, staging.pems)'
    BY <1>0, <1>1 DEF Window, OneRenewal, RootInStatus, ExtendedOnce
<1> QED BY <1>1, <1>2 DEF RotationInv, CopyFollows

(* The staging ConfigMap is created before the first root is recorded, with that root. *)
LEMMA EnsureOpensWindow ==
    ASSUME RotationInv, EnsureStagingConfigMap
    PROVE  /\ staging'.exists
           /\ DistinctKeys(staging'.pems)
           /\ Window(status, staging')
           /\ ExtendedOnce(status, staging'.pems)
           /\ status.cur = None => Keys(staging'.pems) = {root.key}
           /\ status.cur # None => UNCHANGED staging
<1>0. TrimInv /\ StagingSeen = staging
    BY DEF RotationInv, TrimInv, StagingSeen
<1>1. CASE staging.exists
    <2>1. UNCHANGED staging
        BY <1>0, <1>1 DEF EnsureStagingConfigMap
    <2> QED BY <1>1, <2>1 DEF RotationInv, Window
<1>2. CASE ~staging.exists
    <2>1. staging' = [exists |-> TRUE, pems |-> <<RootPEM>>]
        BY <1>0, <1>2 DEF EnsureStagingConfigMap
    <2>2. status.cur = None /\ RootSecret = root
        BY <1>2 DEF RotationInv, Window, OneRenewal, RootInStatus
    <2>3. staging'.exists /\ Keys(staging'.pems) = {root.key}
        BY <2>1, <2>2 DEF Keys, RootPEM
    <2>4. DistinctKeys(staging'.pems)
        BY <2>1 DEF DistinctKeys
    <2>5. status.phase \in {"", "Idle"}
        BY <2>2 DEF RotationInv, Window
    <2>6. Window(status, staging') /\ ExtendedOnce(status, staging'.pems)
        BY <2>2, <2>3, <2>5 DEF Window, ExtendedOnce
    <2> QED BY <2>2, <2>3, <2>4, <2>6
<1> QED BY <1>1, <1>2

(* The window opens: the root a rotation moves to stands beside the one it leaves, once. *)
LEMMA ExtendOpensWindow ==
    ASSUME RotationInv, cached.phase = "DualTrustActive", ExtendStagingConfigMap
    PROVE  /\ staging'.exists
           /\ Keys(staging'.pems) = {status.prev, status.cur}
           /\ DistinctKeys(staging'.pems)
           /\ ExtendedOnce(status, staging'.pems)
           /\ Window(status, staging')
<1>0. /\ StagingSeen = staging /\ staging.pems \in Seq(PEM)
      /\ RootPEM \in PEM
      /\ TrimInv
    BY ReadTypes DEF RotationInv, TrimInv, TypeOK, StagingSeen, ConfigMap
<1>1. status.phase \in {"DualTrustActive", "AwaitingReissuance"}
    BY DEF RotationInv, CopyFollows
<1>2. RootPEM.key = status.cur /\ RootSecret.key = status.cur
    BY <1>1 DEF RotationInv, OneRenewal, RootPEM
<1>3. /\ staging'.exists
      /\ staging'.pems = AppendPEM(staging.pems, RootPEM)
    BY <1>0, PatchOutcome DEF ExtendStagingConfigMap
<1>4. Keys(staging'.pems) = Keys(staging.pems) \cup {status.cur}
    BY <1>0, <1>2, <1>3, AppendPEMKeys
<1>5. Keys(staging'.pems) = {status.prev, status.cur}
    BY <1>1, <1>4 DEF RotationInv, Window
<1>6. \A i \in DOMAIN staging.pems : staging.pems[i].key = RootPEM.key => staging.pems[i] = RootPEM
    BY <1>1, <1>2 DEF RotationInv, ExtendedOnce
<1>7. DistinctKeys(staging.pems)
    BY DEF RotationInv
<1>8. /\ DistinctKeys(staging'.pems)
      /\ \A i \in DOMAIN staging'.pems : staging'.pems[i].key = RootPEM.key => staging'.pems[i] = RootPEM
    BY <1>0, <1>3, <1>6, <1>7, AppendPEMOnce
<1>9. ExtendedOnce(status, staging'.pems)
    BY <1>2, <1>8 DEF ExtendedOnce
<1>10. Window(status, staging')
    BY <1>1, <1>3, <1>5 DEF RotationInv, Window
<1> QED BY <1>3, <1>5, <1>8, <1>9, <1>10

(* The window closes: what is left is the root the rotation moved to. *)
LEMMA TrimClosesWindow ==
    ASSUME RotationInv, cached.phase = "Complete", TrimStagingConfigMap
    PROVE  /\ staging'.exists
           /\ Keys(staging'.pems) = {status.cur}
           /\ DistinctKeys(staging'.pems)
           /\ ExtendedOnce(status, staging'.pems)
           /\ Window(status, staging')
<1>0. /\ StagingSeen = staging /\ staging.pems \in Seq(PEM)
      /\ cached \in RootStatus /\ status \in RootStatus
      /\ TrimInv
    BY DEF RotationInv, TrimInv, TypeOK, StagingSeen, ConfigMap
<1>1. /\ status.phase \in {"Complete", "Idle"}
      /\ status.cur = cached.cur
      /\ status.phase = "Complete" => status.prev = cached.prev
    BY DEF RotationInv, CopyFollows
<1>2. cached.prev < cached.cur /\ cached.prev \in Nat /\ cached.cur \in Nat
    BY <1>0 DEF TrimInv, LeavesBehind, RootStatus
<1>3. status.cur # None /\ status.cur # cached.prev
    BY <1>1, <1>2 DEF None
<1>4. Keys(staging.pems) \in {{cached.prev, status.cur}, {status.cur}}
    BY <1>1, <1>3 DEF RotationInv, Window
<1>5. staging.exists
    BY <1>3 DEF RotationInv, Window
<1>6. /\ staging'.exists
      /\ Keys(staging'.pems) = {status.cur}
      /\ DistinctKeys(staging'.pems)
    <2>1. CASE cached.prev = None /\ UNCHANGED staging
        <3>1. status.phase # "Complete"
            BY <1>1, <2>1 DEF RotationInv, Window
        <3>2. Keys(staging.pems) = {status.cur}
            BY <1>1, <1>3, <3>1 DEF RotationInv, Window
        <3> QED BY <1>5, <2>1, <3>2 DEF RotationInv
    <2>2. CASE PatchStaging(RemovePEMBySKID(StagingSeen.pems, cached.prev))
        <3>1. staging'.exists /\ staging'.pems = RemovePEMBySKID(staging.pems, cached.prev)
            BY <1>0, <2>2, PatchOutcome
        <3>2. DistinctKeys(staging.pems)
            BY DEF RotationInv
        <3>3. /\ Keys(staging'.pems) = Keys(staging.pems) \ {cached.prev}
              /\ DistinctKeys(staging'.pems)
            BY <1>0, <1>2, <3>1, <3>2, RemovePEMExactly
        <3> QED BY <1>3, <1>4, <3>1, <3>3
    <2> QED BY <2>1, <2>2 DEF TrimStagingConfigMap
<1>7. ExtendedOnce(status, staging'.pems)
    BY <1>1 DEF ExtendedOnce
<1>8. Window(status, staging')
    BY <1>1, <1>3, <1>6 DEF RotationInv, Window
<1> QED BY <1>6, <1>7, <1>8

(* Where the ConfigMap is left alone only the status that is written matters. *)
LEMMA StatusWrittenOnly ==
    ASSUME RotationInv, TrimInv', UNCHANGED <<root, rootCR, seen, staging>>,
           NEW new, Update(new),
           cached = status => /\ Window(new, staging)
                              /\ OneRenewal(new)
                              /\ ExtendedOnce(new, staging.pems)
                              /\ CopyFollows(cached, new)
    PROVE  RotationInv'
<1>1. Window(status, staging') /\ ExtendedOnce(status, staging'.pems) /\ DistinctKeys(staging'.pems)
    BY DEF RotationInv
<1> QED BY <1>1, StatusWritten

(* A handler that writes a condition, or the next phase of the same rotation with the same
   roots, keeps what the phases say of the root. *)
LEMMA PhaseKept ==
    ASSUME RotationInv, cached = status, NEW new,
           new.cur = cached.cur, new.prev = cached.prev, new.phase = cached.phase
    PROVE  /\ Window(new, staging) /\ OneRenewal(new)
           /\ ExtendedOnce(new, staging.pems) /\ CopyFollows(cached, new)
BY DEF RotationInv, Window, OneRenewal, RootInStatus, ExtendedOnce, CopyFollows

(* The handlers of the root move the window from phase to phase. *)
LEMMA RotationReconcileRoot == RotationInv /\ TrimInv' /\ ReconcileRoot => RotationInv'
<1> SUFFICES ASSUME RotationInv, TrimInv', ReconcileRoot PROVE RotationInv'
    OBVIOUS
<1>0. cached \in RootStatus /\ RootSecret.key \in Nat
    BY ReadTypes DEF RotationInv, TrimInv, TypeOK
<1>1. CASE InitialisePhase
    <2> DEFINE new == [cached EXCEPT !.phase = "Idle"]
    <2>1. ASSUME cached = status
          PROVE  /\ Window(new, staging) /\ OneRenewal(new)
                 /\ ExtendedOnce(new, staging.pems) /\ CopyFollows(cached, new)
        <3>1. new.phase = "Idle" /\ new.cur = None /\ cached.phase = "" /\ cached.cur = None
            BY <1>0, <1>1, <2>1 DEF RotationInv, InitialisePhase, RootStatus, Window
        <3> HIDE DEF new
        <3>2. Window(new, staging) /\ ExtendedOnce(new, staging.pems) /\ CopyFollows(cached, new)
            BY <2>1, <3>1 DEF RotationInv, Window, ExtendedOnce, CopyFollows
        <3>3. OneRenewal(new)
            BY <2>1, <3>1 DEF RotationInv, OneRenewal, RootInStatus
        <3> QED BY <3>2, <3>3
    <2> HIDE DEF new
    <2>2. Update(new) /\ UNCHANGED <<root, rootCR, seen, staging>>
        BY <1>1 DEF InitialisePhase, rootHandlerEnv, rootVars, new
    <2> QED BY <2>1, <2>2, StatusWrittenOnly
<1>2. CASE IdleSKIDChanged
    <2> DEFINE new == [cached EXCEPT !.prev = cached.cur, !.cur = RootSecret.key,
                                     !.phase = "PreservingOldRoot"]
    <2>1. EnsureStagingConfigMap
        BY <1>2 DEF IdleSKIDChanged, EnsureTrustAnchors
    <2>2. cached = status => /\ Window(new, staging')
                             /\ OneRenewal(new)
                             /\ ExtendedOnce(new, staging'.pems)
                             /\ CopyFollows(cached, new)
        BY <1>0, <1>2, <2>1, EnsureOpensWindow
        DEF RotationInv, IdleSKIDChanged, Idle, RootStatus, Window, OneRenewal, RootInStatus,
            ExtendedOnce, CopyFollows
    <2> HIDE DEF new
    <2>3. Update(new) /\ UNCHANGED <<root, rootCR, seen>>
        BY <1>2 DEF IdleSKIDChanged, rootHandlerEnv, rootVars, new
    <2> QED BY <2>1, <2>2, <2>3, EnsureOpensWindow, StatusWritten
<1>3. CASE IdleBaseline
    <2> DEFINE new == [cached EXCEPT !.cur = RootSecret.key]
    <2>1. EnsureStagingConfigMap
        BY <1>3 DEF IdleBaseline, EnsureTrustAnchors
    <2>2. cached = status => /\ Window(new, staging')
                             /\ OneRenewal(new)
                             /\ ExtendedOnce(new, staging'.pems)
                             /\ CopyFollows(cached, new)
        BY <1>0, <1>3, <2>1, EnsureOpensWindow
        DEF RotationInv, IdleBaseline, Idle, RootStatus, Window, OneRenewal, RootInStatus,
            ExtendedOnce, CopyFollows
    <2> HIDE DEF new
    <2>3. Update(new) /\ UNCHANGED <<root, rootCR, seen>>
        BY <1>3 DEF IdleBaseline, rootHandlerEnv, rootVars, new
    <2> QED BY <2>1, <2>2, <2>3, EnsureOpensWindow, StatusWritten
<1>4. CASE IdleRequestDetected
    <2> DEFINE new == [cached EXCEPT !.prev = RootSecret.key, !.phase = "PreservingOldRoot"]
    <2>1. EnsureStagingConfigMap
        BY <1>4 DEF IdleRequestDetected, EnsureTrustAnchors
    <2>2. cached = status => /\ Window(new, staging')
                             /\ OneRenewal(new)
                             /\ ExtendedOnce(new, staging'.pems)
                             /\ CopyFollows(cached, new)
        BY <1>0, <1>4, <2>1, EnsureOpensWindow
        DEF RotationInv, IdleRequestDetected, Idle, RootStatus, Window, OneRenewal, RootInStatus,
            ExtendedOnce, CopyFollows
    <2> HIDE DEF new
    <2>3. Update(new) /\ UNCHANGED <<root, rootCR, seen>>
        BY <1>4 DEF IdleRequestDetected, rootHandlerEnv, rootVars, new
    <2> QED BY <2>1, <2>2, <2>3, EnsureOpensWindow, StatusWritten
<1>5. CASE IdleQuiet
    <2>1. EnsureStagingConfigMap /\ UNCHANGED <<root, rootCR, seen, status, cached>>
        BY <1>5 DEF IdleQuiet, EnsureTrustAnchors, rootHandlerEnv, rootVars
    <2> QED BY <2>1, EnsureOpensWindow, StatusKept
<1>6. CASE PreservingAbort
    <2> DEFINE new == [cached EXCEPT !.prev = None, !.phase = "Idle"]
    <2>1. cached = status => /\ Window(new, staging)
                             /\ OneRenewal(new)
                             /\ ExtendedOnce(new, staging.pems)
                             /\ CopyFollows(cached, new)
        BY <1>0, <1>6 DEF RotationInv, PreservingAbort, Preserving, RootStatus, Window, OneRenewal,
                          RootInStatus,
                          ExtendedOnce, CopyFollows
    <2> HIDE DEF new
    <2>2. Update(new) /\ UNCHANGED <<root, rootCR, seen, staging>>
        BY <1>6 DEF PreservingAbort, rootHandlerEnv, rootVars, new
    <2> QED BY <2>1, <2>2, StatusWrittenOnly
<1>7. CASE PreservingRenewed
    <2> DEFINE new == [cached EXCEPT !.cur = RootSecret.key, !.phase = "DualTrustActive"]
    <2>1. ASSUME cached = status
          PROVE  /\ Window(new, staging) /\ OneRenewal(new)
                 /\ ExtendedOnce(new, staging.pems) /\ CopyFollows(cached, new)
        <3>1. /\ new.phase = "DualTrustActive" /\ new.cur = RootSecret.key
              /\ new.prev = cached.prev /\ cached.prev # new.cur
              /\ cached.phase = "PreservingOldRoot"
            BY <1>0, <1>7 DEF PreservingRenewed, Preserving, RootStatus
        <3> HIDE DEF new
        <3>2. RootSecret = root /\ new.cur # None
            BY <2>1, <3>1 DEF RotationInv, OneRenewal, RootInStatus
        <3>3. Keys(staging.pems) = {new.prev} /\ staging.exists /\ new.prev # None
            BY <2>1, <3>1 DEF RotationInv, Window
        <3>4. Window(new, staging)
            BY <3>1, <3>2, <3>3 DEF Window
        <3>5. OneRenewal(new)
            BY <2>1, <3>1, <3>2 DEF RotationInv, OneRenewal, RootInStatus
        <3>6. \A i \in DOMAIN staging.pems : staging.pems[i].key = new.prev
            BY <3>3 DEF Keys
        <3>7. ExtendedOnce(new, staging.pems)
            BY <3>1, <3>6 DEF ExtendedOnce
        <3>8. CopyFollows(cached, new)
            BY <3>1 DEF CopyFollows
        <3> QED BY <3>4, <3>5, <3>7, <3>8
    <2> HIDE DEF new
    <2>2. Update(new) /\ UNCHANGED <<root, rootCR, seen, staging>>
        BY <1>7 DEF PreservingRenewed, rootHandlerEnv, rootVars, new
    <2> QED BY <2>1, <2>2, StatusWrittenOnly
<1>8. CASE DualTrustExtended
    <2> DEFINE new == [cached EXCEPT !.dual = "True", !.reissued = "False",
                                     !.phase = "AwaitingReissuance"]
    <2>1. cached.phase = "DualTrustActive" /\ ExtendStagingConfigMap
        BY <1>8 DEF DualTrustExtended
    <2>2. cached = status => /\ Window(new, staging')
                             /\ OneRenewal(new)
                             /\ ExtendedOnce(new, staging'.pems)
                             /\ CopyFollows(cached, new)
        BY <1>0, <2>1, ExtendOpensWindow
        DEF RotationInv, RootStatus, Window, OneRenewal, RootInStatus, ExtendedOnce, CopyFollows
    <2> HIDE DEF new
    <2>3. Update(new) /\ UNCHANGED <<root, rootCR, seen>>
        BY <1>8 DEF DualTrustExtended, rootHandlerEnv, rootVars, new
    <2> QED BY <2>1, <2>2, <2>3, ExtendOpensWindow, StatusWritten
<1>9. CASE AwaitingTier1
    <2> DEFINE new == [cached EXCEPT !.reissued = "False"]
    <2>1. new.cur = cached.cur /\ new.prev = cached.prev /\ new.phase = cached.phase
        BY <1>0 DEF RootStatus
    <2> HIDE DEF new
    <2>2. Update(new) /\ UNCHANGED <<root, rootCR, seen, staging>>
        BY <1>9 DEF AwaitingTier1, Condition, rootHandlerEnv, rootVars, new
    <2> QED BY <2>1, <2>2, PhaseKept, StatusWrittenOnly
<1>10. CASE AwaitingTier2
    <2> DEFINE new == [cached EXCEPT !.reissued = "False"]
    <2>1. new.cur = cached.cur /\ new.prev = cached.prev /\ new.phase = cached.phase
        BY <1>0 DEF RootStatus
    <2> HIDE DEF new
    <2>2. Update(new) /\ UNCHANGED <<root, rootCR, seen, staging>>
        BY <1>10 DEF AwaitingTier2, Condition, rootHandlerEnv, rootVars, new
    <2> QED BY <2>1, <2>2, PhaseKept, StatusWrittenOnly
<1>11. CASE AwaitingTier2Reissued
    <2> DEFINE new == [cached EXCEPT !.reissued = "True", !.phase = "VerifyingChain"]
    <2>1. cached = status => /\ Window(new, staging)
                             /\ OneRenewal(new)
                             /\ ExtendedOnce(new, staging.pems)
                             /\ CopyFollows(cached, new)
        BY <1>0, <1>11 DEF RotationInv, AwaitingTier2Reissued, Awaiting, RootStatus, Window,
                           OneRenewal, RootInStatus,
                          ExtendedOnce, CopyFollows
    <2> HIDE DEF new
    <2>2. Update(new) /\ UNCHANGED <<root, rootCR, seen, staging>>
        BY <1>11 DEF AwaitingTier2Reissued, rootHandlerEnv, rootVars, new
    <2> QED BY <2>1, <2>2, StatusWrittenOnly
<1>12. CASE VerifyTier1Fails
    <2> DEFINE new == [cached EXCEPT !.verified = "False"]
    <2>1. new.cur = cached.cur /\ new.prev = cached.prev /\ new.phase = cached.phase
        BY <1>0 DEF RootStatus
    <2> HIDE DEF new
    <2>2. Update(new) /\ UNCHANGED <<root, rootCR, seen, staging>>
        BY <1>12 DEF VerifyTier1Fails, Condition, rootHandlerEnv, rootVars, new
    <2> QED BY <2>1, <2>2, PhaseKept, StatusWrittenOnly
<1>13. ASSUME NEW c \in Tier2, VerifyTier2Fails(c) PROVE RotationInv'
    <2> DEFINE new == [cached EXCEPT !.verified = "False"]
    <2>1. new.cur = cached.cur /\ new.prev = cached.prev /\ new.phase = cached.phase
        BY <1>0 DEF RootStatus
    <2> HIDE DEF new
    <2>2. Update(new) /\ UNCHANGED <<root, rootCR, seen, staging>>
        BY <1>13 DEF VerifyTier2Fails, Condition, rootHandlerEnv, rootVars, new
    <2> QED BY <2>1, <2>2, PhaseKept, StatusWrittenOnly
<1>14. ASSUME NEW l \in TrackedLeaves, VerifyLeafFails(l) PROVE RotationInv'
    <2> DEFINE new == [cached EXCEPT !.verified = "False"]
    <2>1. new.cur = cached.cur /\ new.prev = cached.prev /\ new.phase = cached.phase
        BY <1>0 DEF RootStatus
    <2> HIDE DEF new
    <2>2. Update(new) /\ UNCHANGED <<root, rootCR, seen, staging>>
        BY <1>14 DEF VerifyLeafFails, Condition, rootHandlerEnv, rootVars, new
    <2> QED BY <2>1, <2>2, PhaseKept, StatusWrittenOnly
<1>15. CASE VerifyPasses
    <2> DEFINE new == [cached EXCEPT !.verified = "True", !.phase = "Complete"]
    <2>1. cached = status => /\ Window(new, staging)
                             /\ OneRenewal(new)
                             /\ ExtendedOnce(new, staging.pems)
                             /\ CopyFollows(cached, new)
        BY <1>0, <1>15 DEF RotationInv, VerifyPasses, Verifying, RootStatus, Window, OneRenewal,
                           RootInStatus,
                          ExtendedOnce, CopyFollows
    <2> HIDE DEF new
    <2>2. Update(new) /\ UNCHANGED <<root, rootCR, seen, staging>>
        BY <1>15 DEF VerifyPasses, rootHandlerEnv, rootVars, new
    <2> QED BY <2>1, <2>2, StatusWrittenOnly
<1>16. CASE Complete
    <2> DEFINE new == [cached EXCEPT !.prev = None, !.phase = "Idle"]
    <2>1. cached.phase = "Complete" /\ TrimStagingConfigMap
        BY <1>16 DEF Complete
    <2>2. cached = status => /\ Window(new, staging')
                             /\ OneRenewal(new)
                             /\ ExtendedOnce(new, staging'.pems)
                             /\ CopyFollows(cached, new)
        BY <1>0, <2>1, TrimClosesWindow
        DEF RotationInv, RootStatus, Window, OneRenewal, RootInStatus, ExtendedOnce, CopyFollows
    <2> HIDE DEF new
    <2>3. Update(new) /\ UNCHANGED <<root, rootCR, seen>>
        BY <1>16 DEF Complete, rootHandlerEnv, rootVars, new
    <2> QED BY <2>1, <2>2, <2>3, TrimClosesWindow, StatusWritten
<1> QED
    BY <1>1, <1>2, <1>3, <1>4, <1>5, <1>6, <1>7, <1>8, <1>9, <1>10, <1>11, <1>12, <1>13, <1>14, <1>15, <1>16
    DEF ReconcileRoot

(* A handler of the root that was cut off leaves the window open or closed, not ajar. *)
LEMMA RotationRootInterrupted == RotationInv /\ TrimInv' /\ RootInterrupted => RotationInv'
<1> SUFFICES ASSUME RotationInv, TrimInv', RootInterrupted PROVE RotationInv'
    OBVIOUS
<1>0. cached \in RootStatus /\ StagingSeen = staging
    BY DEF RotationInv, TrimInv, TypeOK, StagingSeen
<1>1. CASE IdleInterrupted
    <2>1. EnsureStagingConfigMap
        BY <1>0, <1>1 DEF IdleInterrupted, EnsureStagingConfigMap
    <2>2. UNCHANGED <<root, rootCR, seen, status, cached>>
        BY <1>1 DEF IdleInterrupted, rootHandlerEnv, rootVars
    <2> QED BY <2>1, <2>2, EnsureOpensWindow, StatusKept
<1>2. CASE DualTrustBlocked
    <2> DEFINE new == [cached EXCEPT !.dual = "False"]
    <2>1. new.cur = cached.cur /\ new.prev = cached.prev /\ new.phase = cached.phase
        BY <1>0 DEF RootStatus
    <2> HIDE DEF new
    <2>2. Update(new) /\ UNCHANGED <<root, rootCR, seen, staging>>
        BY <1>2 DEF DualTrustBlocked, Condition, rootHandlerEnv, rootVars, new
    <2> QED BY <2>1, <2>2, PhaseKept, StatusWrittenOnly
<1>3. CASE DualTrustInterrupted
    <2>1. /\ cached.phase = "DualTrustActive" /\ ExtendStagingConfigMap
          /\ UNCHANGED <<root, rootCR, seen, status, cached>>
        BY <1>3 DEF DualTrustInterrupted, rootHandlerEnv, rootVars
    <2> QED BY <2>1, ExtendOpensWindow, StatusKept
<1>4. CASE AwaitingInterrupted
    <2>1. UNCHANGED <<root, rootCR, seen, status, cached, staging>>
        BY <1>4 DEF AwaitingInterrupted, rootHandlerEnv, rootVars
    <2> QED BY <2>1, StatusKept DEF RotationInv
<1>5. CASE CompleteInterrupted
    <2>1. /\ cached.phase = "Complete" /\ TrimStagingConfigMap
          /\ UNCHANGED <<root, rootCR, seen, status, cached>>
        BY <1>5 DEF CompleteInterrupted, rootHandlerEnv, rootVars
    <2> QED BY <2>1, TrimClosesWindow, StatusKept
<1> QED BY <1>1, <1>2, <1>3, <1>4, <1>5 DEF RootInterrupted

---------------------------------------------------------------------------
(* The environment. *)

(* Where neither the statuses nor the ConfigMap change, the root and the operator's copy of
   it decide. *)
LEMMA RootMoves ==
    ASSUME RotationInv, TrimInv', UNCHANGED <<status, cached, staging>>, OneRenewal(status)',
           status.phase \in {"DualTrustActive", "AwaitingReissuance"} \/ status.cur = None
               => UNCHANGED <<root, RootSecret>>
    PROVE  RotationInv'
<1>1. ExtendedOnce(status, staging.pems)'
    BY DEF RotationInv, ExtendedOnce, RootPEM
<1>2. Window(status, staging)'
    BY DEF RotationInv, Window
<1> QED BY <1>1, <1>2 DEF RotationInv, CopyFollows

(* cert-manager renews the root between rotations, or the one it was asked for before the
   operator recorded the rotation. *)
LEMMA RotationRootRenewal ==
    ASSUME RotationInv, TrimInv',
           RequestRoot \/ RequestAbsentRoot \/ SignRoot \/ FailRoot \/ RetryRoot
               \/ WriteRootSecret \/ DeleteRoot
    PROVE  RotationInv'
<1>0. /\ UNCHANGED <<status, cached, staging, seen>>
      /\ OneRenewal(status) /\ "rootAgain" \notin Env
      /\ root \in Secret
    BY DEF RotationInv, TrimInv, TypeOK, RequestRoot, RequestAbsentRoot, SignRoot, FailRoot, RetryRoot,
           WriteRootSecret, DeleteRoot, crdVars, trustVars
<1>1. CASE RequestRoot
    <2>1. UNCHANGED <<root, RootSecret>> /\ status.phase = "Idle" /\ status.cur = root.key
        BY <1>0, <1>1 DEF RequestRoot, RootSecret
    <2>2. OneRenewal(status)'
        BY <1>0, <2>1 DEF OneRenewal, RootInStatus
    <2> QED BY <1>0, <2>1, <2>2, RootMoves
<1>2. CASE RequestAbsentRoot \/ SignRoot \/ FailRoot \/ RetryRoot
    <2>1. UNCHANGED <<root, RootSecret>> /\ (rootCR # "none" \/ ~root.present)
        BY <1>0, <1>2 DEF RequestAbsentRoot, SignRoot, FailRoot, RetryRoot, RootSecret
    <2>2. OneRenewal(status)'
        BY <1>0, <2>1 DEF OneRenewal, RootInStatus
    <2> QED BY <1>0, <2>1, <2>2, RootMoves
<1>3. CASE WriteRootSecret
    <2>1. PICK key \in {root.serial + 1} \cup {root.key : x \in Env \cap {"sameKey"}} :
             root' = [key |-> key, serial |-> root.serial + 1, present |-> TRUE]
        BY <1>3 DEF WriteRootSecret
    <2>2. rootCR = "signed" /\ rootCR' = "none"
        BY <1>3 DEF WriteRootSecret
    <2>3. /\ status.phase \in {"Idle", "PreservingOldRoot"}
          /\ status.cur # None
          /\ root.key = RootInStatus(status)
        BY <1>0, <2>2 DEF OneRenewal
    <2>4. root'.key # None /\ root'.present
        <3>1. root.serial + 1 # 0 /\ root.key # 0
            BY <1>0 DEF OneRenewal, Secret, None
        <3> QED BY <2>1, <3>1 DEF None
    <2>5. RootSecret' = root' \/ RootSecret' = RootSecret
        BY <1>0 DEF RootSecret
    <2>6. RootSecret.key = RootInStatus(status)
        BY <1>0, <2>3 DEF OneRenewal
    <2>7. /\ RootSecret'.key # None
          /\ RootSecret'.key = RootInStatus(status) \/ RootSecret' = root'
        BY <1>0, <2>4, <2>5, <2>6 DEF OneRenewal
    <2>8. status.phase = "PreservingOldRoot" => status.cur = status.prev
        BY <1>0, <2>3 DEF OneRenewal, RootInStatus
    <2>9. OneRenewal(status)'
        BY <1>0, <2>2, <2>3, <2>4, <2>7, <2>8 DEF OneRenewal, RootInStatus
    <2> QED BY <1>0, <2>3, <2>9, RootMoves
<1>4. CASE DeleteRoot
    <2>1. /\ status.phase = "Idle" /\ status.cur = root.key
          /\ root' = [root EXCEPT !.present = FALSE] /\ UNCHANGED rootCR
        BY <1>0, <1>4 DEF DeleteRoot
    <2>2. status.cur # None
        BY <1>0, <2>1 DEF OneRenewal
    <2>3. root'.key = root.key
        BY <1>0, <2>1 DEF Secret
    <2>4. RootSecret' = root' \/ RootSecret' = RootSecret
        BY <1>0 DEF RootSecret
    <2>5. RootSecret.key = RootInStatus(status)
        BY <1>0, <2>1 DEF OneRenewal, RootInStatus
    <2>6. OneRenewal(status)'
        BY <1>0, <2>1, <2>2, <2>3, <2>4, <2>5 DEF OneRenewal, RootInStatus
    <2> QED BY <1>0, <2>1, <2>2, <2>6, RootMoves
<1> QED BY <1>1, <1>2, <1>3, <1>4

(* The operator's copies catch up with what they are copies of. *)
LEMMA RotationInformers ==
    ASSUME RotationInv, TrimInv', Informers PROVE RotationInv'
<1>1. CASE CacheSync
    <2>1. cached' = status /\ UNCHANGED <<status, staging, root, rootCR, seen>>
        BY <1>1 DEF CacheSync, rootVars, trustVars
    <2>2. RootSecret' = RootSecret
        BY <2>1 DEF RootSecret
    <2>3. Window(status, staging)' /\ OneRenewal(status)' /\ ExtendedOnce(status, staging.pems)'
        BY <2>1, <2>2 DEF RotationInv, Window, OneRenewal, RootInStatus, ExtendedOnce, RootPEM
    <2>4. CopyFollows(cached, status)'
        BY <2>1 DEF CopyFollows
    <2> QED BY <2>1, <2>3, <2>4 DEF RotationInv
<1>2. ASSUME NEW copy \in DOMAIN Lag, Sync(copy) PROVE RotationInv'
    <2>1. /\ seen'.root = root \/ seen'.root = seen.root
          /\ UNCHANGED <<status, cached, staging, root, rootCR>>
        <3>1. seen \in [root : Secret, issuing : SUBSET Certs, staging : ConfigMap]
            BY DEF RotationInv, TrimInv, TypeOK
        <3> QED BY <1>2, <3>1, SyncStep DEF rootVars, trustVars, crdVars
    <2>2. RootSecret' = RootSecret \/ RootSecret' = root
        BY <2>1 DEF RootSecret
    <2>3. OneRenewal(status)'
        BY <2>1, <2>2 DEF RotationInv, OneRenewal, RootInStatus
    <2>4. status.phase \in {"DualTrustActive", "AwaitingReissuance"} \/ status.cur = None
              => RootSecret = root
        BY DEF RotationInv, OneRenewal, RootInStatus, Window
    <2> QED BY <2>1, <2>2, <2>3, <2>4, RootMoves
<1> QED BY <1>1, <1>2 DEF Informers

(* RotationInv is inductive. *)
LEMMA RotationNext == RotationInv /\ [Next]_vars => RotationInv'
<1> SUFFICES ASSUME RotationInv, [Next]_vars PROVE RotationInv'
    OBVIOUS
<1>1. TrimInv'
    BY TrimNext DEF RotationInv
<1>2. ASSUME UNCHANGED <<root, rootCR, seen, status, cached, staging>> PROVE RotationInv'
    BY <1>1, <1>2, StatusKept DEF RotationInv
<1>3. CASE ReconcileRoot
    BY <1>1, <1>3, RotationReconcileRoot
<1>4. CASE RootInterrupted
    BY <1>1, <1>4, RotationRootInterrupted
<1>5. ASSUME NEW c \in CAs, ReconcileChild(c) \/ ChildInterrupted(c) PROVE RotationInv'
    BY <1>2, <1>5, ChildStepFrame DEF childHandlerEnv, rootVars, trustVars
<1>6. CASE EnvironmentStep
    <2>1. CASE Informers
        BY <1>1, <2>1, RotationInformers
    <2>2. CASE RequestRoot \/ RequestAbsentRoot \/ SignRoot \/ FailRoot \/ RetryRoot
                   \/ WriteRootSecret \/ DeleteRoot
        BY <1>1, <2>2, RotationRootRenewal
    <2>3. ~DeleteConfigMap
        BY DEF DeleteConfigMap, Disrupt, RotationInv
    <2> QED
        BY <1>2, <1>6, <2>1, <2>2, <2>3
        DEF EnvironmentStep, CertManager, Disruption, Issue, Publish, LoadIssuer, RenewCertificate,
            DeleteSecret, DeleteChild, Distribute, rootVars, trustVars, crdVars
<1>7. CASE UNCHANGED vars
    BY <1>2, <1>7 DEF vars, rootVars, trustVars, crdVars
<1> QED BY <1>3, <1>4, <1>5, <1>6, <1>7 DEF Next, OperatorStep

(* In every phase the ConfigMap holds exactly the roots the phase stands for, one PEM each, and
   a reconcile that runs on an old copy of the status or of the root's Secret, is cut off, or is
   refused its write finds nothing left to do (extendStagingConfigMap, trimStagingConfigMap). *)
THEOREM RotationInvariant ==
    ASSUME {"rootAgain", "deleteConfigMap", "configMapLag"} \cap Env = {},
           StagingAtInstall \subseteq {InstalledKey(Root)}
    PROVE  Spec => []RotationInv
<1>1. Init => RotationInv
    BY RotationInit
<1> QED BY <1>1, RotationNext, PTL DEF Spec

---------------------------------------------------------------------------
(* The theorems. *)

(* Whatever is delayed, refused, retried or renewed with the same key, a rotation that is
   over has left one root in the ConfigMap, the recorded one: reconcileComplete trims what
   reconcileDualTrustActive appended and nothing else. *)
THEOREM OneRootWhenIdle ==
    ASSUME {"rootAgain", "deleteConfigMap", "configMapLag"} \cap Env = {},
           StagingAtInstall \subseteq {InstalledKey(Root)}
    PROVE  Spec => []IdleStagesOneRoot
<1>1. RotationInv => IdleStagesOneRoot
    BY DEF RotationInv, Window, IdleStagesOneRoot, StagedKeys
<1> QED BY <1>1, RotationInvariant, PTL

(* In every phase whose handlers have had the occasion to stage it, the recorded root is in
   the ConfigMap: no stale copy of the status or of the Secret makes the operator record one
   root and stage another (reconcilePreservingOldRoot, extendStagingConfigMap). *)
THEOREM RecordedRootStaged ==
    ASSUME {"rootAgain", "deleteConfigMap", "configMapLag"} \cap Env = {},
           StagingAtInstall \subseteq {InstalledKey(Root)}
    PROVE  Spec => []CurrentRootStaged
<1>1. RotationInv => CurrentRootStaged
    BY DEF RotationInv, Window, CurrentRootStaged, StagedKeys
<1> QED BY <1>1, RotationInvariant, PTL

---------------------------------------------------------------------------
(* The refinement of DualTrust. *)

(* The root keys tier-1 carries, as DualTrust sees them. *)
Carried == [t \in Tier1 |-> crt[t].akid]

(* The keys of an installation are those of the abstract initial state. *)
LEMMA RefinesInit ==
    ASSUME TypeOK, Init PROVE DT!Init
<1>1. StagedKeys \subseteq Nat
    BY ReadTypes
<1>2. Carried \in [Tier1 -> Nat]
    BY DEF Carried, TypeOK, Tier1, Certs, Certificate
<1>3. staging.exists \in BOOLEAN /\ (staging.exists \/ StagedKeys = {})
    <2>1. StagedKeys = {} \/ staging.exists
        BY InstalledStagingKeys DEF Init, InstalledStaging, StagedKeys
    <2> QED BY <2>1 DEF TypeOK, ConfigMap
<1> QED BY <1>1, <1>2, <1>3 DEF DT!Init, Carried

(* A step that leaves the staged keys and tier-1 alone is a stutter. *)
LEMMA RefinesStutter ==
    ASSUME StagedKeys' = StagedKeys, Carried' = Carried, staging'.exists = staging.exists
    PROVE  [DT!Next]_(DT!dualTrustVars)
BY DEF DT!dualTrustVars, Carried

(* Creating the ConfigMap and extending it are Extend: the root that is added is the one
   the Secret holds, and nothing staged is younger. *)
LEMMA RefinesExtend ==
    ASSUME TrimInv, Carried' = Carried, staging'.exists = TRUE,
           StagedKeys' = StagedKeys \cup {RootSecret.key}
    PROVE  [DT!Next]_(DT!dualTrustVars)
<1>1. \A k \in StagedKeys : k <= RootSecret.key
    BY DEF TrimInv, StagedWithin, StagedKeys
<1>2. RootSecret.key \in StagedKeys'
    OBVIOUS
<1>3. DT!Extend
    BY <1>1, <1>2 DEF DT!Extend, Carried
<1> QED BY <1>3 DEF DT!Next

(* Trimming is Withdraw: in Complete every tier-1 certificate carries a younger root than
   the one that goes, and a younger one is staged. *)
LEMMA RefinesTrim ==
    ASSUME TrustInv, cached.phase = "Complete", TrimStagingConfigMap, Carried' = Carried
    PROVE  [DT!Next]_(DT!dualTrustVars)
<1>1. /\ StagedKeys \ {cached.prev} \subseteq StagedKeys'
      /\ StagedKeys' \subseteq StagedKeys
    BY TrimKeepsOtherKeys DEF TrustInv
<1>0. staging'.exists = staging.exists
    BY TrimKeepsOtherKeys DEF TrustInv, TrimInv, TypeOK, ConfigMap, TrimStagingConfigMap,
                              PatchStaging, StagingSeen
<1>2. CASE StagedKeys' = StagedKeys
    BY <1>0, <1>2, RefinesStutter
<1>3. CASE StagedKeys' # StagedKeys
    <2>1. cached.prev \in StagedKeys /\ StagedKeys' = StagedKeys \ {cached.prev}
        BY <1>1, <1>3
    <2>2. staging.exists
        BY <2>1 DEF TrustInv, TrimInv, StagedWithin, StagedKeys
    <2>3. \E n \in StagedKeys : n > cached.prev
        BY <2>2 DEF TrustInv, SuccessorStaged
    <2>4. \A t \in Tier1 : crt[t].akid > cached.prev
        BY DEF TrustInv, TrimInv, LeavesBehind
    <2>5. \A t \in Tier1 : Carried[t] > cached.prev
        BY <2>4 DEF Carried
    <2>6. DT!Withdraw
        BY <1>0, <2>1, <2>2, <2>3, <2>5 DEF DT!Withdraw, Carried
    <2> QED BY <2>6 DEF DT!Next
<1> QED BY <1>2, <1>3

(* The root's handlers: creating, extending and trimming are all they do to the ConfigMap. *)
LEMMA RefinesRoot ==
    ASSUME TrustInv, ReconcileRoot \/ RootInterrupted
    PROVE  [DT!Next]_(DT!dualTrustVars)
<1>0. TrimInv
    BY DEF TrustInv
<1>1. UNCHANGED crt
    BY DEF ReconcileRoot, InitialisePhase, IdleSKIDChanged, IdleBaseline, IdleRequestDetected,
        IdleQuiet, PreservingAbort, PreservingRenewed, DualTrustExtended, AwaitingTier1,
        AwaitingTier2, AwaitingTier2Reissued, VerifyTier1Fails, VerifyTier2Fails,
        VerifyLeafFails, VerifyPasses, Complete, RootInterrupted, IdleInterrupted,
        DualTrustBlocked, DualTrustInterrupted, AwaitingInterrupted, CompleteInterrupted,
        rootHandlerEnv
<1>2. Carried' = Carried
    BY <1>1 DEF Carried
<1>3. CASE UNCHANGED staging
    BY <1>2, <1>3, RefinesStutter DEF StagedKeys
<1>4. CASE EnsureStagingConfigMap
    <2>1. StagedKeys' = IF staging.exists THEN StagedKeys ELSE {RootSecret.key}
        BY <1>0, <1>4, EnsureKeepsKeys
    <2>2. ~staging.exists => StagedKeys = {}
        BY <1>0 DEF TrimInv, StagedWithin, StagedKeys
    <2>3. CASE staging.exists
        <3>1. UNCHANGED staging
            BY <1>0, <1>4, <2>3 DEF EnsureStagingConfigMap, TrimInv, StagingSeen
        <3> QED BY <1>3, <3>1
    <2>4. CASE ~staging.exists
        <3>1. staging'.exists = TRUE
            BY <1>0, <1>4, <2>4 DEF EnsureStagingConfigMap, TrimInv, StagingSeen
        <3>2. StagedKeys' = StagedKeys \cup {RootSecret.key}
            BY <2>1, <2>2, <2>4
        <3> QED BY <1>0, <1>2, <3>1, <3>2, RefinesExtend
    <2> QED BY <2>3, <2>4
<1>5. CASE ExtendStagingConfigMap
    BY <1>0, <1>2, <1>5, ExtendKeepsKeys, RefinesExtend
<1>6. CASE cached.phase = "Complete" /\ TrimStagingConfigMap
    BY <1>2, <1>6, RefinesTrim
<1>7. CASE ReconcileRoot
    BY <1>3, <1>4, <1>5, <1>6, <1>7
    DEF ReconcileRoot, InitialisePhase, IdleSKIDChanged, IdleBaseline, IdleRequestDetected,
        IdleQuiet, PreservingAbort, PreservingRenewed, DualTrustExtended, AwaitingTier1,
        AwaitingTier2, AwaitingTier2Reissued, VerifyTier1Fails, VerifyTier2Fails,
        VerifyLeafFails, VerifyPasses, Complete, EnsureTrustAnchors
<1>8. CASE RootInterrupted
    BY <1>3, <1>4, <1>5, <1>6, <1>8
    DEF RootInterrupted, IdleInterrupted, DualTrustBlocked, DualTrustInterrupted,
        AwaitingInterrupted, CompleteInterrupted
<1> QED BY <1>7, <1>8

(* cert-manager signs tier-1 with a root key no older than before: Reissue, or, of another
   certificate, a stutter. *)
LEMMA RefinesIssue ==
    ASSUME TrimInv, NEW c \in Certs, Issue(c) PROVE [DT!Next]_(DT!dualTrustVars)
<1>1. UNCHANGED staging /\ StagedKeys' = StagedKeys
    BY DEF Issue, trustVars, StagedKeys
<1>2. crt \in [Certs -> Certificate] /\ Tier1 \subseteq Certs
    BY DEF TrimInv, TypeOK, Tier1, Certs
<1>3. \A d \in Certs \ {c} : crt'[d] = crt[d]
    BY <1>2 DEF Issue
<1>4. CASE c \notin Tier1
    <2>1. \A t \in Tier1 : crt'[t].akid = crt[t].akid
        BY <1>2, <1>3, <1>4
    <2>2. Carried' = Carried
        BY <2>1 DEF Carried
    <2> QED BY <1>1, <2>2, RefinesStutter
<1>5. CASE c \in Tier1
    <2>1. Parent[c] = Root /\ crt'[c].akid = SigningWith(Root).key
        BY <1>2, <1>5 DEF Issue, Tier1
    <2>2. SigningWith(Root).key \in Nat /\ crt[c].akid \in Nat
        BY <1>2, ReadTypes DEF TrimInv, Certificate, Signer, Signers
    <2>3. crt[c].akid <= SigningWith(Root).key
        BY <1>5 DEF TrimInv, SignedUpTo
    <2>4. Carried'[c] >= Carried[c]
        BY <1>5, <2>1, <2>2, <2>3 DEF Carried
    <2>5. \A u \in Tier1 \ {c} : Carried'[u] = Carried[u]
        BY <1>2, <1>3 DEF Carried
    <2>6. DT!Reissue
        BY <1>1, <1>5, <2>4, <2>5 DEF DT!Reissue, Carried
    <2> QED BY <2>6 DEF DT!Next
<1> QED BY <1>4, <1>5

(* Every other step of the environment is a stutter, but for the loss of the ConfigMap. *)
LEMMA RefinesEnvironment ==
    ASSUME TrimInv, EnvironmentStep PROVE [DT!Next]_(DT!dualTrustVars)
<1>1. ASSUME NEW c \in Certs, Issue(c) PROVE [DT!Next]_(DT!dualTrustVars)
    BY <1>1, RefinesIssue
<1>2. ASSUME NEW c \in Certs, DeleteSecret(c) PROVE [DT!Next]_(DT!dualTrustVars)
    <2>1. \A t \in Tier1 : crt'[t].akid = crt[t].akid
        BY <1>2 DEF DeleteSecret, TrimInv, TypeOK, Tier1, Certs, Certificate
    <2>2. Carried' = Carried
        BY <2>1 DEF Carried
    <2>3. StagedKeys' = StagedKeys /\ staging'.exists = staging.exists
        BY <1>2 DEF DeleteSecret, trustVars, StagedKeys
    <2> QED BY <2>2, <2>3, RefinesStutter
<1>3. CASE DeleteConfigMap
    <2>1. staging.exists /\ staging'.exists = FALSE /\ StagedKeys' = {}
        BY <1>3 DEF DeleteConfigMap, StagedKeys, Keys
    <2>2. Carried' = Carried
        BY <1>3 DEF DeleteConfigMap, certVars, Carried
    <2>3. DT!Lose
        BY <2>1, <2>2 DEF DT!Lose, Carried
    <2> QED BY <2>3 DEF DT!Next
<1>4. ASSUME UNCHANGED <<crt, staging>> PROVE [DT!Next]_(DT!dualTrustVars)
    <2>1. StagedKeys' = StagedKeys /\ Carried' = Carried /\ staging'.exists = staging.exists
        BY <1>4 DEF StagedKeys, Carried
    <2> QED BY <2>1, RefinesStutter
<1> QED
    BY <1>1, <1>2, <1>3, <1>4
    DEF EnvironmentStep, CertManager, Disruption, Publish, LoadIssuer, RenewCertificate,
        DeleteChild, RequestRoot, RequestAbsentRoot, SignRoot, FailRoot, RetryRoot, WriteRootSecret,
        DeleteRoot, Distribute, Informers, CacheSync, Sync, trustVars, certVars

(* Every step of the operator in its cluster is a step of DualTrust. *)
LEMMA RefinesNext == TrustInv /\ [Next]_vars => [DT!Next]_(DT!dualTrustVars)
<1> SUFFICES ASSUME TrustInv, [Next]_vars PROVE [DT!Next]_(DT!dualTrustVars)
    OBVIOUS
<1>0. TrimInv
    BY DEF TrustInv
<1>1. ASSUME UNCHANGED <<crt, staging>> PROVE [DT!Next]_(DT!dualTrustVars)
    <2>1. StagedKeys' = StagedKeys /\ Carried' = Carried /\ staging'.exists = staging.exists
        BY <1>1 DEF StagedKeys, Carried
    <2> QED BY <2>1, RefinesStutter
<1>2. CASE ReconcileRoot \/ RootInterrupted
    BY <1>2, RefinesRoot
<1>3. ASSUME NEW c \in CAs, ReconcileChild(c) \/ ChildInterrupted(c)
      PROVE  [DT!Next]_(DT!dualTrustVars)
    BY <1>1, <1>3, ChildStepFrame DEF childHandlerEnv, trustVars
<1>4. CASE EnvironmentStep
    BY <1>0, <1>4, RefinesEnvironment
<1>5. CASE UNCHANGED vars
    BY <1>1, <1>5 DEF vars, certVars, trustVars
<1> QED BY <1>2, <1>3, <1>4, <1>5 DEF Next, OperatorStep

(* The operator implements DualTrust: whatever is delayed, disturbed, repeated or cut off,
   the staging ConfigMap opens to one root at a time, always the youngest, and closes to a
   root only when every cluster intermediate has moved past it and a successor is staged
   (ensureStagingConfigMap, extendStagingConfigMap, trimStagingConfigMap). *)
THEOREM OperatorImplementsDualTrust ==
    ASSUME "configMapLag" \notin Env PROVE Spec => ImplementsDualTrust
<1>1. Init => DT!Init
    BY TypeInit, RefinesInit
<1>2. Spec => []TrustInv
    BY TrustInvariant
<1> QED BY <1>1, <1>2, RefinesNext, PTL DEF Spec, ImplementsDualTrust, DT!Spec
=============================================================================
