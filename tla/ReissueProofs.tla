---------------------------- MODULE ReissueProofs ----------------------------
(***************************************************************************)
(* How often a certificate is re-issued in a rotation: the root's cascade, *)
(* the sweeps and the children's objects find the same certificates, and   *)
(* re-issue each of them once for every generation above it that moves.    *)
(***************************************************************************)
EXTENDS AnchorProofs

---------------------------------------------------------------------------
(* How often a certificate is re-issued. *)

(* A certificate that is not of tier-1 is below a tier-1 or a tier-2 CA. *)
LEMMA BelowTier1 ==
    ASSUME ThreeTiers, NEW c \in Certs, c \notin Tier1
    PROVE  /\ Parent[c] \in CAs /\ Parent[c] \in Certs
           /\ Parent[c] \in Tier1 \/ (Parent[c] \in Tier2 /\ Parent[c] \notin Tier1)
           /\ c \in Leaves => c \notin Tier2
           /\ c \notin Leaves => c \in Tier2 /\ Parent[c] \in Tier1
           /\ Parent[c] \notin Tier1 => Parent[Parent[c]] \in Tier1
<1>1. Tier1 \cap Tier2 = {} /\ Tier1 \subseteq CAs /\ Tier2 \subseteq CAs /\ CAs \cap Leaves = {}
    BY TiersApart, ClusterAssumption DEF Tier1, Tier2
<1>2. c \in Leaves => Parent[c] \in Tier1 \cup Tier2
    BY DEF ThreeTiers
<1>3. c \notin Leaves => c \in Tier2
    BY DEF ThreeTiers, Certs
<1>4. \A n \in Tier2 : Parent[n] \in Tier1
    BY DEF Tier2
<1> QED BY <1>1, <1>2, <1>3, <1>4 DEF Certs

(* A leaf of a tier-2 CA is held against that CA, and every leaf against some. *)
LEMMA HeldAgainstIssuer ==
    ASSUME ThreeTiers, NEW l \in Leaves
    PROVE  /\ l \in TrackedLeaves
           /\ HeldAgainst(l) \subseteq CAs
           /\ Parent[l] \in Tier2 => Parent[l] \in HeldAgainst(l)
           /\ Parent[l] \in Tier1 =>
                  (Parent[l] \in HeldAgainst(l) \/ \E n \in Tier2 : n \in HeldAgainst(l))
<1>1. Parent[l] \in Tier1 \/ Parent[l] \in Tier2
    BY DEF ThreeTiers
<1>2. Tier1 \subseteq CAs /\ Tier2 \subseteq CAs
    BY DEF Tier1, Tier2
<1>3. HeldAgainst(l) \subseteq CAs
    BY <1>2 DEF HeldAgainst
<1>4. ASSUME Parent[l] \in Tier2 PROVE l \in TrackedLeaves /\ Parent[l] \in HeldAgainst(l)
    <2>1. Namespace[l] = Namespace[Parent[l]]
        BY <1>4 DEF ThreeTiers
    <2> QED BY <1>4, <2>1 DEF Tier2Namespaces, TrackedLeaves, HeldAgainst
<1>5. ASSUME Parent[l] \in Tier1
      PROVE  /\ l \in TrackedLeaves
             /\ Parent[l] \in HeldAgainst(l) \/ \E n \in Tier2 : n \in HeldAgainst(l)
    <2>1. l \in TrackedLeaves
        BY <1>5 DEF TrackedLeaves
    <2>2. CASE Namespace[l] \in Tier2Namespaces
        BY <2>1, <2>2 DEF Tier2Namespaces, HeldAgainst
    <2>3. CASE Namespace[l] \notin Tier2Namespaces
        BY <1>5, <2>1, <2>3 DEF HeldAgainst
    <2> QED BY <2>1, <2>2, <2>3
<1> QED BY <1>1, <1>3, <1>4, <1>5

(* What the types say of a certificate. *)
LEMMA CertificateTypes ==
    ASSUME ReissueInv
    PROVE  /\ TypeOK /\ crt \in [Certs -> Certificate] /\ clock \in Nat /\ root.key \in Nat
           /\ IssuedInTurn /\ "statusLag" \notin Env /\ "issuerLag" \notin Env
           /\ "apiFail" \notin Env /\ cached = status
           /\ \A c \in Certs : /\ crt[c].nb \in Nat /\ crt[c].key \in Nat /\ crt[c].akid \in Nat
                               /\ crt[c].nb <= clock /\ crt[c].nb # None /\ crt[c].present
<1>1. TypeOK /\ IssuedInTurn /\ {"statusLag", "issuerLag"} \cap Env = {} /\ "apiFail" \notin Env
      /\ cached = status
    BY DEF ReissueInv, AnchorInv, ChainInv, TrimInv
<1>2. \A c \in Certs : crt[c].present /\ crt[c].nb # None
    BY DEF ReissueInv
<1> QED BY <1>1, <1>2 DEF TypeOK, Certificate, Secret, IssuedInTurn

(* The operator reads every certificate as it is. *)
LEMMA ReadAsIs ==
    ASSUME ReissueInv, NEW c \in Certs
    PROVE  /\ NotBefore(c) = crt[c].nb /\ Ready(c)
           /\ SKID(c) = crt[c].key /\ AKID(c) = crt[c].akid
BY CertificateTypes DEF NotBefore, Ready, Published, LiveStatus, SKID, AKID

(* The latest notBefore of tier-1 is that of one of them. *)
LEMMA LatestOfTier1 ==
    ASSUME ReissueInv, NEW t \in Tier1
    PROVE  /\ \A u \in Tier1 : crt[u].nb <= LatestNotBefore(Tier1)
           /\ \E u \in Tier1 : crt[u].nb = LatestNotBefore(Tier1)
<1>0. Tier1 \subseteq Certs
    BY DEF Tier1, Certs
<1>1. \A u \in Tier1 : NotBefore(u) = crt[u].nb
    BY <1>0, ReadAsIs
<1>2. /\ \A u \in Tier1 : NotBefore(u) <= LatestNotBefore(Tier1)
      /\ LatestNotBefore(Tier1) \in Nat
    BY <1>0, CertificateTypes, LatestIsLatest
<1>3. LatestNotBefore(Tier1) \in {None} \cup {NotBefore(u) : u \in Tier1}
    <2>1. PICK m \in {None} \cup {NotBefore(u) : u \in Tier1} :
              \A u \in Tier1 : NotBefore(u) <= m
        BY <1>0, CertificateTypes, LatestAttained
    <2> QED BY <2>1 DEF LatestNotBefore
<1>4. LatestNotBefore(Tier1) # None
    BY <1>0, <1>1, <1>2, CertificateTypes DEF None
<1> QED BY <1>1, <1>2, <1>3, <1>4

(* What the root's handlers compare of a tier-2 certificate and of a leaf. *)
LEMMA Comparisons ==
    ASSUME ThreeTiers, ReissueInv
    PROVE  /\ \A n \in Tier2 : n \in Tier2Predating <=> Predates(n)
           /\ \A n \in Tier2 : n \in Tier2Pending <=> Predates(n)
           /\ \A l \in Leaves, b \in Baselines : LeafFresh(l, b) <=> ~Unfresh(l)
<1>0. /\ Tier1 \subseteq Certs /\ Tier2 \subseteq Certs /\ Leaves \subseteq Certs
      /\ \A n \in Tier2 : Parent[n] \in Tier1
    BY DEF Tier1, Tier2, Certs
<1>1. ASSUME NEW n \in Tier2 PROVE n \in Tier2Predating <=> Predates(n)
    <2>1. PICK t \in Tier1 : crt[t].nb = LatestNotBefore(Tier1)
        BY <1>0, LatestOfTier1
    <2>2. \A u \in Tier1 : crt[u].nb <= crt[t].nb /\ crt[u].nb \in Nat
        BY <1>0, <2>1, LatestOfTier1, CertificateTypes
    <2>3. NotBefore(n) = crt[n].nb /\ crt[n].nb \in Nat
        BY <1>0, ReadAsIs, CertificateTypes
    <2>4. n \in Tier2Predating <=> ~(crt[n].nb > crt[t].nb)
        BY <2>1, <2>3 DEF Tier2Predating
    <2> QED BY <2>2, <2>3, <2>4 DEF Predates
<1>2. \A n \in Tier2 : Ready(n)
    BY <1>0, ReadAsIs
<1>3. ASSUME NEW l \in Leaves, NEW b \in Baselines PROVE LeafFresh(l, b) <=> ~Unfresh(l)
    <2>1. NotBefore(l) = crt[l].nb /\ crt[l].nb \in Nat /\ crt[l].nb # None
        BY <1>0, ReadAsIs, CertificateTypes
    <2>2. CASE Namespace[l] \in Tier2Namespaces
        <3>1. b[Namespace[l]] \in Tier2 /\ Namespace[b[Namespace[l]]] = Namespace[l]
            BY <2>2 DEF Baselines
        <3>2. HeldAgainst(l) = {b[Namespace[l]]}
            BY <2>2, <3>1 DEF HeldAgainst, ThreeTiers
        <3>3. /\ LeafBaseline(l, b) = crt[b[Namespace[l]]].nb
              /\ crt[b[Namespace[l]]].nb \in Nat
            BY <1>0, <2>2, <3>1, ReadAsIs, CertificateTypes DEF LeafBaseline
        <3> QED BY <2>1, <3>2, <3>3 DEF LeafFresh, Unfresh
    <2>3. CASE Namespace[l] \notin Tier2Namespaces
        <3>1. Parent[l] \in Tier1
            BY <2>3, HeldAgainstIssuer DEF HeldAgainst, ThreeTiers, Tier2Namespaces
        <3>2. PICK t \in Tier1 : crt[t].nb = LatestNotBefore(Tier1)
            BY <3>1, LatestOfTier1
        <3>3. \A u \in Tier1 : crt[u].nb <= crt[t].nb /\ crt[u].nb \in Nat
            BY <1>0, <3>2, LatestOfTier1, CertificateTypes
        <3>4. LeafFresh(l, b) <=> crt[l].nb >= crt[t].nb
            BY <2>1, <2>3, <3>2 DEF LeafFresh, LeafBaseline
        <3>5. HeldAgainst(l) = Tier1
            BY <2>3 DEF HeldAgainst
        <3> QED BY <2>1, <3>3, <3>4, <3>5 DEF Unfresh
    <2> QED BY <2>2, <2>3
<1> QED BY <1>1, <1>2, <1>3 DEF Tier2Pending

(* A tier-2 certificate that was signed with another key than its CA's predates it. *)
LEMMA StalePredates ==
    ASSUME ThreeTiers, ReissueInv, NEW n \in Tier2, crt[n].akid # crt[Parent[n]].key
    PROVE  Predates(n)
<1>1. n \in Certs /\ Parent[n] \in Tier1 /\ Parent[n] \in CAs /\ Parent[n] \in Certs
    BY DEF Tier1, Tier2, Certs
<1>2. ~(crt[n].nb > crt[Parent[n]].nb)
    BY <1>1, CertificateTypes DEF IssuedInTurn
<1>3. crt[n].nb <= crt[Parent[n]].nb
    BY <1>1, <1>2, CertificateTypes
<1> QED BY <1>1, <1>3 DEF Predates

(* Between two rotations nothing is left to re-issue but leaves that are marked already. *)
LEMMA NothingDueBetween ==
    ASSUME ThreeTiers, ReissueInv, status.phase \notin {"AwaitingReissuance", "VerifyingChain"}
    PROVE  /\ Tier2 \cap issuing = {}
           /\ \A n \in Tier2 : ~Predates(n)
           /\ \A l \in Leaves : ~Unfresh(l)
           /\ \A c \in Certs \ Tier1 : ~Stale(c)
<1>1. /\ \A n \in Tier2 \cap issuing : Predates(n)
      /\ \A n \in Tier2 : ~Predates(n)
      /\ \A l \in Leaves : ~Unfresh(l)
    BY DEF ReissueInv, GenerationsInTurn
<1>2. ASSUME NEW c \in Certs \ Tier1 PROVE ~Stale(c)
    <2>1. CASE c \notin Leaves
        BY <1>1, <2>1, BelowTier1, StalePredates DEF Stale
    <2>2. CASE c \in Leaves
        <3>0. /\ Parent[c] \in CAs /\ Parent[c] \in Certs
              /\ Parent[c] \in Tier1 \/ Parent[c] \in Tier2
            BY BelowTier1
        <3>1. \A d \in HeldAgainst(c) : d \in Certs /\ crt[c].nb >= crt[d].nb
            BY <1>1, <2>2, HeldAgainstIssuer, CertificateTypes DEF Unfresh, Certs
        <3>2. crt[c].nb >= crt[Parent[c]].nb
            <4>1. CASE Parent[c] \in HeldAgainst(c)
                BY <3>1, <4>1
            <4>2. CASE Parent[c] \notin HeldAgainst(c)
                <5>1. Parent[c] \in Tier1
                    BY <2>2, <3>0, <4>2, HeldAgainstIssuer
                <5>2. PICK n \in Tier2 : n \in HeldAgainst(c)
                    BY <2>2, <4>2, <5>1, HeldAgainstIssuer
                <5>3. crt[n].nb > crt[Parent[c]].nb /\ crt[c].nb >= crt[n].nb /\ n \in Certs
                    BY <1>1, <3>0, <3>1, <5>1, <5>2, CertificateTypes DEF Predates
                <5> QED BY <3>0, <5>3, CertificateTypes
            <4> QED BY <4>1, <4>2
        <3>3. crt[c].nb > crt[Parent[c]].nb
            BY <3>0, <3>2, CertificateTypes DEF IssuedInTurn
        <3> QED BY <3>0, <3>3, CertificateTypes DEF IssuedInTurn, Stale
    <2> QED BY <2>1, <2>2
<1> QED BY <1>1, <1>2


(* A certificate that is marked was found by its issuer's sweep or is due in the rotation. *)
Earned(c) ==
    \/ Stale(c)
    \/ Unmoved = {} /\ Due(c) /\ (c \in Leaves => status'.phase # "AwaitingReissuance")

(* What a step does to what is owed to one certificate, of those that sign nothing. *)
LEMMA MarkSettles ==
    ASSUME ThreeTiers, ReissueInv, UNCHANGED crt, root'.key = root.key, issuing \subseteq issuing',
           status'.phase = "AwaitingReissuance" =>
               status.phase = "AwaitingReissuance" \/ Tier1 \subseteq Unmoved,
           NEW c \in Certs, c \notin Tier1, c \in issuing' => c \in issuing \/ Earned(c)
    PROVE  OwedHere(c)' <= OwedHere(c)
<1>0. Unmoved' = Unmoved
    BY DEF Unmoved
<1>1. \E t \in Tier1 : TRUE
    BY BelowTier1
<1>2. /\ Predates(c)' <=> Predates(c)
      /\ Unfresh(c)' <=> Unfresh(c)
    BY DEF Predates, Unfresh, HeldAgainst
<1> DEFINE other == crt[c].akid # crt[Parent[c]].key
           late  == IF c \in Leaves THEN Unfresh(c) ELSE Predates(c)
<1>3. /\ Stale(c) <=> c \notin issuing /\ other
      /\ Stale(c)' <=> c \notin issuing' /\ other
    BY DEF Stale
<1>4. /\ Due(c) <=> \/ Unmoved # {}
                    \/ c \in Leaves /\ status.phase = "AwaitingReissuance"
                    \/ c \notin issuing /\ late
      /\ Due(c)' <=> \/ Unmoved # {}
                     \/ c \in Leaves /\ status'.phase = "AwaitingReissuance"
                     \/ c \notin issuing' /\ late
    BY <1>0, <1>2 DEF Due
<1> HIDE DEF other, late
<1>5. Due(c)' => Due(c)
    BY <1>1, <1>4
<1>6. /\ OwedHere(c) = One(Stale(c)) + One(c \in issuing) + One(Due(c))
      /\ OwedHere(c)' = One(Stale(c)') + One(c \in issuing') + One(Due(c)')
    BY DEF OwedHere, One
<1>7. CASE c \in issuing
    <2>1. ~Stale(c)' /\ c \in issuing'
        BY <1>3, <1>7
    <2> QED BY <1>5, <1>6, <1>7, <2>1 DEF One
<1>8. CASE c \notin issuing'
    <2>1. c \notin issuing /\ (Stale(c)' <=> Stale(c))
        BY <1>3, <1>8
    <2> QED BY <1>5, <1>6, <1>8, <2>1 DEF One
<1>9. CASE c \in issuing' /\ c \notin issuing
    <2>1. ~Stale(c)' /\ Earned(c)
        BY <1>3, <1>9
    <2>2. CASE Stale(c)
        BY <1>5, <1>6, <1>9, <2>1, <2>2 DEF One
    <2>3. CASE ~Stale(c)
        <3>1. Due(c) /\ ~Due(c)'
            BY <1>4, <1>9, <2>1, <2>3 DEF Earned
        <3> QED BY <1>6, <1>9, <2>1, <3>1 DEF One
    <2> QED BY <2>2, <2>3
<1> QED BY <1>7, <1>8, <1>9

(* Marks are numbers. *)
LEMMA OwedNumbers ==
    ASSUME NEW c
    PROVE  OwedHere(c) \in Nat /\ OwedHere(c)' \in Nat /\ Owed(c) \in Nat /\ Owed(c)' \in Nat
<1>1. \A p : OwedHere(p) \in Nat /\ OwedHere(p)' \in Nat
    BY DEF OwedHere, One
<1> QED BY <1>1 DEF Owed, One

(* Where nothing is issued and every mark was earned, nobody is owed more than before. *)
LEMMA MarksCounted ==
    ASSUME ThreeTiers, ReissueInv, UNCHANGED crt, root'.key = root.key, issuing \subseteq issuing',
           status'.phase = "AwaitingReissuance" =>
               status.phase = "AwaitingReissuance" \/ Tier1 \subseteq Unmoved,
           \A c \in Certs \ Tier1 : c \in issuing' => c \in issuing \/ Earned(c)
    PROVE  ReissuesCounted'
<1>1. \A c \in Certs \ Tier1 : OwedHere(c)' <= OwedHere(c)
    BY MarkSettles
<1>2. Unmoved' = Unmoved
    BY DEF Unmoved
<1>3. ASSUME NEW c \in Certs PROVE Owed(c)' <= Owed(c)
    <2>1. CASE c \in Tier1
        BY <1>2, <2>1 DEF Owed, One
    <2>2. CASE c \notin Tier1 /\ Parent[c] \in Tier1
        BY <1>1, <1>2, <2>2, OwedNumbers DEF Owed, One
    <2>3. CASE c \notin Tier1 /\ Parent[c] \notin Tier1
        <3>1. Parent[c] \in Certs
            BY <2>3, BelowTier1
        <3>2. OwedHere(c)' <= OwedHere(c) /\ OwedHere(Parent[c])' <= OwedHere(Parent[c])
            BY <1>1, <2>3, <3>1
        <3> QED BY <1>2, <2>3, <3>2, OwedNumbers DEF Owed, One
    <2> QED BY <2>1, <2>2, <2>3
<1>4. ASSUME NEW c \in Certs PROVE crt'[c].key + Owed(c)' <= 1 + Rounds(c) * (root'.key - 1)
    <2>1. crt'[c].key = crt[c].key /\ crt[c].key \in Nat /\ Rounds(c)' = Rounds(c) /\ root.key \in Nat
        BY CertificateTypes DEF Rounds
    <2>2. Rounds(c) \in {1, 2, 3}
        BY DEF Rounds
    <2>3. crt[c].key + Owed(c) <= 1 + Rounds(c) * (root.key - 1)
        BY DEF ReissueInv, ReissuesCounted
    <2> QED BY <1>3, <2>1, <2>2, <2>3, OwedNumbers
<1> QED BY <1>4 DEF ReissuesCounted, Rounds


(* What is issued, and when: tier-1 only while it waits for the new root, and a CA only while
   the rotation waits for CAs. *)
LEMMA IssuedWhen ==
    ASSUME ThreeTiers, ReissueInv, NEW c \in Certs, Issue(c)
    PROVE  /\ c \in issuing /\ issuing' = issuing \ {c}
           /\ UNCHANGED <<root, rootCR, status, cached, child>>
           /\ crt' \in [Certs -> Certificate]
           /\ crt'[c].key = crt[c].key + 1 /\ crt'[c].nb = clock + 1 /\ crt'[c].present
           /\ \A d \in Certs : d # c => crt'[d] = crt[d]
           /\ c \in Tier1 => c \in Unmoved /\ crt'[c].akid = root.key
           /\ c \notin Tier1 => crt'[c].akid = crt[Parent[c]].key
           /\ c \notin Leaves => status.phase = "AwaitingReissuance"
<1>1. /\ c \in issuing /\ issuing' = issuing \ {c}
      /\ UNCHANGED <<root, rootCR, status, cached, child>>
      /\ crt' \in [Certs -> Certificate]
      /\ crt'[c].key = crt[c].key + 1 /\ crt'[c].nb = clock + 1 /\ crt'[c].present
      /\ crt'[c].akid = LiveSigner(Parent[c]).key
      /\ \A d \in Certs : d # c => crt'[d] = crt[d]
    <2>1. TypeOK /\ "issuerLag" \notin Env /\ "sameSecond" \notin Env
        BY CertificateTypes DEF ReissueInv, AnchorInv, ChainInv
    <2> QED BY <2>1, IssueOutcome DEF Issue, SigningWith
<1>2. ASSUME c \in Tier1
      PROVE  c \in Unmoved /\ crt'[c].akid = root.key /\ status.phase = "AwaitingReissuance"
    <2>1. status.phase = "AwaitingReissuance" /\ crt[c].akid # status.cur
        BY <1>1, <1>2 DEF ReissueInv, AnchorInv, Tier1InTurn
    <2>2. status.cur = root.key
        BY <2>1 DEF ReissueInv, AnchorInv, RotationInv, OneRenewal
    <2>3. Parent[c] = Root
        BY <1>2 DEF Tier1
    <2> QED BY <1>1, <1>2, <2>1, <2>2, <2>3 DEF Unmoved, LiveSigner
<1>3. ASSUME c \notin Tier1 PROVE crt'[c].akid = crt[Parent[c]].key
    <2>1. Parent[c] # Root
        BY <1>3, BelowTier1, ClusterAssumption DEF Certs
    <2> QED BY <1>1, <2>1 DEF LiveSigner
<1>4. ASSUME c \notin Leaves, c \notin Tier1 PROVE status.phase = "AwaitingReissuance"
    BY <1>1, <1>4, BelowTier1 DEF ReissueInv, GenerationsInTurn
<1> QED BY <1>1, <1>2, <1>3, <1>4

(* A certificate that was just issued predates nothing. *)
LEMMA JustIssued ==
    ASSUME ThreeTiers, ReissueInv, NEW c \in Certs, Issue(c), c \notin Tier1
    PROVE  /\ c \notin Leaves => ~Predates(c)'
           /\ c \in Leaves => ~Unfresh(c)'
<1>1. crt'[c].nb = clock + 1 /\ \A d \in Certs : d # c => crt'[d].nb <= clock /\ crt'[d].nb \in Nat
    BY IssuedWhen, CertificateTypes
<1>2. clock \in Nat /\ Tier1 \subseteq Certs
    BY CertificateTypes DEF Tier1, Certs
<1>3. ~Predates(c)'
    BY <1>1, <1>2 DEF Predates
<1>4. ASSUME c \in Leaves PROVE ~Unfresh(c)'
    <2>1. \A d \in HeldAgainst(c) : d \in Certs /\ d # c
        BY <1>4, HeldAgainstIssuer, ClusterAssumption DEF Certs
    <2>2. HeldAgainst(c)' = HeldAgainst(c)
        BY DEF HeldAgainst
    <2> QED BY <1>1, <1>2, <2>1, <2>2 DEF Unfresh
<1> QED BY <1>3, <1>4

(* What an issue leaves of the comparisons of the others. *)
LEMMA OthersCompared ==
    ASSUME ThreeTiers, ReissueInv, NEW c \in Certs, Issue(c), NEW d \in Certs, d # c, d \notin Tier1
    PROVE  /\ c \notin Tier1 => (Predates(d)' <=> Predates(d))
           /\ c \in Leaves /\ d \in Leaves => (Unfresh(d)' <=> Unfresh(d))
           /\ Predates(d) => Predates(d)'
<1>1. /\ \A e \in Certs : e # c => crt'[e] = crt[e]
      /\ crt'[c].nb = clock + 1
      /\ \A e \in Certs : crt[e].nb <= clock /\ crt[e].nb \in Nat
      /\ clock \in Nat /\ Tier1 \subseteq Certs
    BY IssuedWhen, CertificateTypes DEF Tier1, Certs
<1>2. c \notin Tier1 => (Predates(d)' <=> Predates(d))
    BY <1>1 DEF Predates
<1>3. ASSUME c \in Leaves, d \in Leaves PROVE Unfresh(d)' <=> Unfresh(d)
    <2>1. \A e \in HeldAgainst(d) : e \in Certs /\ e # c
        BY <1>3, HeldAgainstIssuer, ClusterAssumption DEF Certs
    <2>2. HeldAgainst(d)' = HeldAgainst(d)
        BY DEF HeldAgainst
    <2> QED BY <1>1, <2>1, <2>2 DEF Unfresh
<1>4. ASSUME Predates(d) PROVE Predates(d)'
    <2>1. PICK t \in Tier1 : crt[d].nb <= crt[t].nb
        BY <1>4 DEF Predates
    <2>2. crt'[d].nb <= crt'[t].nb
        BY <1>1, <2>1
    <2> QED BY <2>1, <2>2 DEF Predates
<1> QED BY <1>2, <1>3, <1>4

(* An issue settles one re-issue of the certificate, and what it signs is found stale at most
   once more. *)
LEMMA IssueSettles ==
    ASSUME ThreeTiers, ReissueInv, NEW c \in Certs, Issue(c)
    PROVE  /\ c \notin Tier1 => OwedHere(c)' + 1 <= OwedHere(c)
           /\ \A d \in Certs \ Tier1 : d # c /\ Parent[d] # c => OwedHere(d)' <= OwedHere(d)
           /\ \A d \in Certs \ Tier1 : Parent[d] = c => OwedHere(d)' <= OwedHere(d) + 1
           /\ c \notin Tier1 => Unmoved' = Unmoved
           /\ c \in Tier1 => c \in Unmoved /\ Unmoved' = Unmoved \ {c}
<1>1. /\ c \in issuing /\ issuing' = issuing \ {c} /\ UNCHANGED <<root, status>>
      /\ \A d \in Certs : d # c => crt'[d] = crt[d]
      /\ crt'[c].key = crt[c].key + 1
      /\ c \in Tier1 => c \in Unmoved /\ crt'[c].akid = root.key
      /\ c \notin Tier1 => crt'[c].akid = crt[Parent[c]].key
      /\ c \notin Leaves => status.phase = "AwaitingReissuance"
    BY IssuedWhen
<1>2. Tier1 \subseteq Certs /\ Tier1 \cap Leaves = {}
    BY ClusterAssumption DEF Tier1, Certs
<1>3. c \notin Tier1 => Unmoved' = Unmoved
    BY <1>1, <1>2 DEF Unmoved
<1>4. c \in Tier1 => Unmoved' = Unmoved \ {c}
    BY <1>1, <1>2 DEF Unmoved
<1>5. \A d : /\ OwedHere(d) = One(Stale(d)) + One(d \in issuing) + One(Due(d))
             /\ OwedHere(d)' = One(Stale(d)') + One(d \in issuing') + One(Due(d)')
    BY DEF OwedHere, One
<1>6. ASSUME c \notin Tier1 PROVE OwedHere(c)' + 1 <= OwedHere(c)
    <2>1. Parent[c] \in Certs /\ Parent[c] # c
        BY <1>6, BelowTier1, DepthOfIssuer
    <2>2. ~Stale(c)'
        BY <1>1, <1>6, <2>1 DEF Stale
    <2>3. Due(c)' => Due(c)
        BY <1>1, <1>3, <1>6, JustIssued DEF Due
    <2> QED BY <1>1, <1>5, <2>2, <2>3 DEF One
<1>7. ASSUME NEW d \in Certs \ Tier1, d # c PROVE Due(d)' => Due(d)
    <2>1. d \in issuing' <=> d \in issuing
        BY <1>1, <1>7
    <2>2. CASE c \in Tier1
        BY <1>1, <2>2 DEF Due
    <2>3. CASE c \notin Tier1 /\ c \notin Leaves
        BY <1>1, <1>3, <1>7, <2>1, <2>3, OthersCompared DEF Due
    <2>4. CASE c \in Leaves
        BY <1>1, <1>2, <1>3, <1>7, <2>1, <2>4, OthersCompared DEF Due
    <2> QED BY <2>2, <2>3, <2>4
<1>8. ASSUME NEW d \in Certs \ Tier1, d # c, Parent[d] # c PROVE OwedHere(d)' <= OwedHere(d)
    <2>1. Parent[d] \in Certs
        BY <1>8, BelowTier1
    <2>2. Stale(d)' <=> Stale(d)
        BY <1>1, <1>8, <2>1 DEF Stale
    <2>3. d \in issuing' <=> d \in issuing
        BY <1>1, <1>8
    <2>4. Due(d)' => Due(d)
        BY <1>7, <1>8
    <2> QED BY <1>5, <2>2, <2>3, <2>4 DEF One
<1>9. ASSUME NEW d \in Certs \ Tier1, Parent[d] = c PROVE OwedHere(d)' <= OwedHere(d) + 1
    <2>1. d # c
        BY <1>9, BelowTier1, DepthOfIssuer
    <2>2. d \in issuing' <=> d \in issuing
        BY <1>1, <2>1
    <2>3. Due(d)' => Due(d)
        BY <1>7, <1>9, <2>1
    <2> QED BY <1>5, <2>2, <2>3 DEF One
<1> QED BY <1>1, <1>3, <1>4, <1>6, <1>8, <1>9

(* Every issue was owed. *)
LEMMA IssueCounted ==
    ASSUME ThreeTiers, ReissueInv, NEW c \in Certs, Issue(c)
    PROVE  ReissuesCounted'
<1>0. /\ root'.key = root.key /\ root.key \in Nat
      /\ crt'[c].key = crt[c].key + 1 /\ \A d \in Certs : d # c => crt'[d].key = crt[d].key
      /\ \A d \in Certs : crt[d].key \in Nat
      /\ \A d \in Certs : crt[d].key + Owed(d) <= 1 + Rounds(d) * (root.key - 1)
      /\ \A d : Rounds(d)' = Rounds(d)
    BY IssuedWhen, CertificateTypes DEF ReissueInv, ReissuesCounted, Rounds
<1>1. /\ c \notin Tier1 => OwedHere(c)' + 1 <= OwedHere(c)
      /\ \A d \in Certs \ Tier1 : d # c /\ Parent[d] # c => OwedHere(d)' <= OwedHere(d)
      /\ \A d \in Certs \ Tier1 : Parent[d] = c => OwedHere(d)' <= OwedHere(d) + 1
      /\ c \notin Tier1 => Unmoved' = Unmoved
      /\ c \in Tier1 => c \in Unmoved /\ Unmoved' = Unmoved \ {c}
    BY IssueSettles
<1>2. \A t \in Tier1 : One(t \in Unmoved)' <= One(t \in Unmoved)
    BY <1>1 DEF One
<1>3. c \in Tier1 => One(c \in Unmoved)' + 1 <= One(c \in Unmoved)
    BY <1>1 DEF One
<1>4. \A p : One(p \in Unmoved) \in {0, 1} /\ One(p \in Unmoved)' \in {0, 1}
    BY DEF One
<1>5. ASSUME NEW d \in Certs
      PROVE  /\ d # c => Owed(d)' <= Owed(d)
             /\ d = c => Owed(d)' + 1 <= Owed(d)
    <2>1. CASE d \in Tier1
        <3>1. Owed(d) = One(d \in Unmoved) /\ Owed(d)' = One(d \in Unmoved)'
            BY <2>1 DEF Owed, One
        <3> QED BY <1>2, <1>3, <2>1, <3>1
    <2>2. CASE d \notin Tier1 /\ Parent[d] \in Tier1
        <3>1. /\ Owed(d) = One(Parent[d] \in Unmoved) + OwedHere(d)
              /\ Owed(d)' = One(Parent[d] \in Unmoved)' + OwedHere(d)'
            BY <2>2 DEF Owed, One, OwedHere
        <3>2. One(Parent[d] \in Unmoved)' <= One(Parent[d] \in Unmoved)
            BY <1>2, <2>2
        <3>3. Parent[d] # d
            BY <2>2
        <3>4. CASE d = c
            BY <1>1, <1>4, <2>2, <3>1, <3>2, <3>4, OwedNumbers
        <3>5. CASE d # c /\ Parent[d] = c
            <4>1. /\ OwedHere(d)' <= OwedHere(d) + 1
                  /\ One(Parent[d] \in Unmoved)' + 1 <= One(Parent[d] \in Unmoved)
                BY <1>1, <1>3, <2>2, <3>5
            <4> QED BY <1>4, <3>1, <3>5, <4>1, OwedNumbers
        <3>6. CASE d # c /\ Parent[d] # c
            <4>1. OwedHere(d)' <= OwedHere(d)
                BY <1>1, <2>2, <3>6
            <4> QED BY <1>4, <3>1, <3>2, <3>6, <4>1, OwedNumbers
        <3> QED BY <3>4, <3>5, <3>6
    <2>3. CASE d \notin Tier1 /\ Parent[d] \notin Tier1
        <3> DEFINE p == Parent[d]
                   t == Parent[p]
        <3>1. p \in Certs /\ t \in Tier1 /\ p \notin Tier1 /\ p # d /\ t # d /\ t # p
            BY <2>3, BelowTier1, DepthOfIssuer
        <3>2. /\ Owed(d) = One(t \in Unmoved) + OwedHere(p) + OwedHere(d)
              /\ Owed(d)' = One(t \in Unmoved)' + OwedHere(p)' + OwedHere(d)'
            BY <2>3 DEF Owed, One, OwedHere
        <3>3. One(t \in Unmoved)' <= One(t \in Unmoved)
            BY <1>2, <3>1
        <3>4. /\ One(t \in Unmoved) \in {0, 1} /\ One(t \in Unmoved)' \in {0, 1}
              /\ OwedHere(p) \in Nat /\ OwedHere(p)' \in Nat
              /\ OwedHere(d) \in Nat /\ OwedHere(d)' \in Nat
            BY <1>4, OwedNumbers
        <3>5. t = c => One(t \in Unmoved)' + 1 <= One(t \in Unmoved)
            BY <1>3, <3>1
        <3>6. /\ p = c => OwedHere(p)' + 1 <= OwedHere(p)
              /\ t = c => OwedHere(p)' <= OwedHere(p) + 1
              /\ p # c /\ t # c => OwedHere(p)' <= OwedHere(p)
            BY <1>1, <3>1
        <3>7. /\ d = c => OwedHere(d)' + 1 <= OwedHere(d)
              /\ p = c => OwedHere(d)' <= OwedHere(d) + 1
              /\ d # c /\ p # c => OwedHere(d)' <= OwedHere(d)
            BY <1>1, <2>3
        <3> HIDE DEF p, t
        <3>8. CASE d = c
            <4>1. p # c /\ t # c
                BY <3>1, <3>8
            <4> QED BY <3>2, <3>3, <3>4, <3>6, <3>7, <3>8, <4>1
        <3>9. CASE d # c /\ p = c
            BY <3>2, <3>3, <3>4, <3>6, <3>7, <3>9
        <3>10. CASE d # c /\ t = c
            <4>1. p # c
                BY <3>1, <3>10
            <4> QED BY <3>2, <3>4, <3>5, <3>6, <3>7, <3>10, <4>1
        <3>11. CASE d # c /\ p # c /\ t # c
            BY <3>2, <3>3, <3>4, <3>6, <3>7, <3>11
        <3> QED BY <3>8, <3>9, <3>10, <3>11
    <2> QED BY <2>1, <2>2, <2>3
<1>6. ASSUME NEW d \in Certs PROVE crt'[d].key + Owed(d)' <= 1 + Rounds(d) * (root.key - 1)
    <2>1. Rounds(d) \in {1, 2, 3}
        BY DEF Rounds
    <2>2. crt[d].key \in Nat /\ crt[d].key + Owed(d) <= 1 + Rounds(d) * (root.key - 1)
        BY <1>0
    <2>3. CASE d = c
        BY <1>0, <1>5, <2>1, <2>2, <2>3, OwedNumbers
    <2>4. CASE d # c
        BY <1>0, <1>5, <2>1, <2>2, <2>4, OwedNumbers
    <2> QED BY <2>3, <2>4
<1> QED BY <1>0, <1>6 DEF ReissuesCounted


(* A renewal of the root owes a certificate what one rotation may re-issue it, and finds
   nothing owed. *)
LEMMA RenewalCounted ==
    ASSUME ThreeTiers, ReissueInv, WriteRootSecret PROVE ReissuesCounted'
<1>0. /\ UNCHANGED <<crt, issuing, status>> /\ root.key \in Nat /\ root.serial \in Nat
      /\ root'.key = root.serial + 1 \/ root'.key = root.key
      /\ root.key <= root.serial
    <2>1. PICK key \in {root.serial + 1} \cup {root.key : x \in Env \cap {"sameKey"}} :
              root' = [key |-> key, serial |-> root.serial + 1, present |-> TRUE]
        BY DEF WriteRootSecret
    <2>2. root'.key = key
        BY <2>1
    <2>3. root \in Secret /\ root.key <= root.serial
        BY CertificateTypes DEF TypeOK, ReissueInv, AnchorInv, ChainInv, TrimInv, SignedUpTo
    <2> QED BY <2>2, <2>3 DEF WriteRootSecret, certVars, crdVars, Secret
<1>1. CASE root'.key = root.key
    BY <1>0, <1>1, MarksCounted
<1>2. CASE root'.key = root.serial + 1
    <2>1. /\ status.phase \in {"Idle", "PreservingOldRoot"}
          /\ Unmoved = {}
        <3>1. /\ status.phase \in {"Idle", "PreservingOldRoot"} /\ status.cur # None
              /\ root.key = RootInStatus(status)
            BY DEF WriteRootSecret, ReissueInv, AnchorInv, RotationInv, OneRenewal
        <3>2. \A t \in Tier1 : crt[t].akid = root.key
            BY <3>1 DEF ReissueInv, AnchorInv, Tier1InTurn, RootInStatus
        <3> QED BY <3>1, <3>2 DEF Unmoved
    <2>2. /\ Tier2 \cap issuing = {}
          /\ \A n \in Tier2 : ~Predates(n)
          /\ \A l \in Leaves : ~Unfresh(l)
          /\ \A c \in Certs \ Tier1 : ~Stale(c)
        BY <2>1, NothingDueBetween
    <2>3. \A c : /\ OwedHere(c) = One(Stale(c)) + One(c \in issuing) + One(Due(c))
                 /\ OwedHere(c)' = One(Stale(c)') + One(c \in issuing') + One(Due(c)')
        BY DEF OwedHere, One
    <2>4. ASSUME NEW c \in Certs \ Tier1 PROVE OwedHere(c)' <= OwedHere(c) + 1
        <3>1. Stale(c)' <=> Stale(c)
            BY <1>0 DEF Stale
        <3> QED BY <1>0, <2>3, <3>1 DEF One
    <2>5. \A n \in Certs \ Tier1 : n \in Tier2 => OwedHere(n)' <= 1
        <3> SUFFICES ASSUME NEW n \in Certs \ Tier1, n \in Tier2 PROVE OwedHere(n)' <= 1
            OBVIOUS
        <3>1. ~Stale(n)' /\ n \notin issuing'
            BY <1>0, <2>2 DEF Stale
        <3> QED BY <2>3, <3>1 DEF One
    <2>6. \A t \in Tier1 : One(t \in Unmoved)' <= 1 /\ One(t \in Unmoved) = 0
        BY <2>1 DEF One
    <2>7. ASSUME NEW c \in Certs PROVE Owed(c)' <= Owed(c) + Rounds(c)
        <3>1. CASE c \in Tier1
            BY <2>6, <3>1 DEF Owed, Rounds, One
        <3>2. CASE c \notin Tier1 /\ Parent[c] \in Tier1
            <4>1. /\ Owed(c) = One(Parent[c] \in Unmoved) + OwedHere(c)
                  /\ Owed(c)' = One(Parent[c] \in Unmoved)' + OwedHere(c)'
                  /\ Rounds(c) = 2
                BY <3>2 DEF Owed, One, OwedHere, Rounds
            <4>2. /\ One(Parent[c] \in Unmoved)' \in {0, 1} /\ One(Parent[c] \in Unmoved) = 0
                  /\ OwedHere(c)' <= OwedHere(c) + 1
                BY <2>4, <2>6, <3>2 DEF One
            <4> QED BY <4>1, <4>2, OwedNumbers
        <3>3. CASE c \notin Tier1 /\ Parent[c] \notin Tier1
            <4> DEFINE p == Parent[c]
                       t == Parent[p]
            <4>1. p \in Certs /\ p \notin Tier1 /\ p \in Tier2 /\ t \in Tier1
                BY <3>3, BelowTier1
            <4>2. /\ Owed(c) = One(t \in Unmoved) + OwedHere(p) + OwedHere(c)
                  /\ Owed(c)' = One(t \in Unmoved)' + OwedHere(p)' + OwedHere(c)'
                  /\ Rounds(c) = 3
                BY <3>3 DEF Owed, One, OwedHere, Rounds
            <4>3. /\ One(t \in Unmoved)' \in {0, 1} /\ One(t \in Unmoved) = 0
                  /\ OwedHere(p)' <= 1 /\ OwedHere(c)' <= OwedHere(c) + 1
                BY <2>4, <2>5, <2>6, <3>3, <4>1 DEF One
            <4>4. /\ OwedHere(p) \in Nat /\ OwedHere(p)' \in Nat
                  /\ OwedHere(c) \in Nat /\ OwedHere(c)' \in Nat
                BY OwedNumbers
            <4> HIDE DEF p, t
            <4> QED BY <4>2, <4>3, <4>4
        <3> QED BY <3>1, <3>2, <3>3
    <2>8. ASSUME NEW c \in Certs PROVE crt'[c].key + Owed(c)' <= 1 + Rounds(c) * (root'.key - 1)
        <3>1. /\ crt[c].key \in Nat /\ crt'[c].key = crt[c].key
              /\ crt[c].key + Owed(c) <= 1 + Rounds(c) * (root.key - 1)
            BY <1>0, CertificateTypes DEF ReissueInv, ReissuesCounted
        <3>2. Rounds(c) \in {1, 2, 3}
            BY DEF Rounds
        <3>3. root'.key - 1 >= (root.key - 1) + 1
            BY <1>0, <1>2
        <3>4. Owed(c)' <= Owed(c) + Rounds(c) /\ Owed(c) \in Nat /\ Owed(c)' \in Nat
            BY <2>7, OwedNumbers
        <3>5. root'.key \in Nat
            BY <1>0, <1>2
        <3> QED BY <1>0, <3>1, <3>2, <3>3, <3>4, <3>5
    <2>9. \A c : Rounds(c)' = Rounds(c)
        BY DEF Rounds
    <2> QED BY <2>8, <2>9 DEF ReissuesCounted
<1> QED BY <1>0, <1>1, <1>2

---------------------------------------------------------------------------
(* The phases of a rotation, and what the handlers mark. *)

(* The way through the phases: each is left by one handler. *)
LEMMA PhaseStep ==
    ASSUME ReissueInv, ReconcileRoot \/ RootInterrupted
    PROVE  \/ status'.phase = status.phase
           \/ /\ status.phase \in {"", "Idle", "PreservingOldRoot"}
              /\ status'.phase \in {"Idle", "PreservingOldRoot", "DualTrustActive"}
           \/ DualTrustExtended /\ status'.phase = "AwaitingReissuance"
           \/ AwaitingTier2Reissued /\ status'.phase = "VerifyingChain"
           \/ VerifyPasses /\ status'.phase = "Complete"
           \/ Complete /\ status'.phase = "Idle"
<1>0. cached = status /\ cached \in RootStatus /\ AnchorInv
    BY CertificateTypes DEF TypeOK, ReissueInv
<1>1. ASSUME NEW new, Update(new) PROVE status' = new
    BY <1>0, <1>1, UpdateWritten
<1>2. ASSUME NEW field \in {"dual", "reissued", "verified"}, NEW value, Condition(field, value)
      PROVE  status'.phase = status.phase
    BY <1>0, <1>1, <1>2 DEF Condition, RootStatus
<1>3. CASE InitialisePhase
    BY <1>0, <1>1, <1>3 DEF InitialisePhase, RootStatus
<1>4. CASE IdleSKIDChanged
    BY <1>0, <1>1, <1>4 DEF IdleSKIDChanged, Idle, RootStatus
<1>5. CASE IdleBaseline
    BY <1>0, <1>1, <1>5 DEF IdleBaseline, Idle, RootStatus
<1>6. CASE IdleRequestDetected
    BY <1>0, <1>1, <1>6 DEF IdleRequestDetected, Idle, RootStatus
<1>7. CASE PreservingAbort
    BY <1>0, <1>1, <1>7 DEF PreservingAbort, Preserving, RootStatus
<1>8. CASE PreservingRenewed
    BY <1>0, <1>1, <1>8 DEF PreservingRenewed, Preserving, RootStatus
<1>9. CASE DualTrustExtended
    BY <1>0, <1>1, <1>9 DEF DualTrustExtended, RootStatus
<1>10. CASE AwaitingTier2Reissued
    BY <1>0, <1>1, <1>10 DEF AwaitingTier2Reissued, RootStatus
<1>11. CASE VerifyPasses
    BY <1>0, <1>1, <1>11 DEF VerifyPasses, RootStatus
<1>12. CASE Complete
    BY <1>0, <1>1, <1>12 DEF Complete, RootStatus
<1>13. CASE \/ AwaitingTier1 \/ AwaitingTier2 \/ VerifyTier1Fails
            \/ \E c \in Tier2 : VerifyTier2Fails(c)
            \/ \E l \in TrackedLeaves : VerifyLeafFails(l)
            \/ DualTrustBlocked
    BY <1>2, <1>13
    DEF AwaitingTier1, AwaitingTier2, VerifyTier1Fails, VerifyTier2Fails, VerifyLeafFails, DualTrustBlocked
<1>14. CASE IdleQuiet \/ IdleInterrupted \/ DualTrustInterrupted \/ AwaitingInterrupted
              \/ CompleteInterrupted
    BY <1>14
    DEF IdleQuiet, IdleInterrupted, DualTrustInterrupted, AwaitingInterrupted, CompleteInterrupted
<1> QED
    BY <1>3, <1>4, <1>5, <1>6, <1>7, <1>8, <1>9, <1>10, <1>11, <1>12, <1>13, <1>14
    DEF ReconcileRoot, RootInterrupted

(* Where tier-1 passes its comparison, none of it is still to move. *)
LEMMA NoneUnmoved ==
    ASSUME ReissueInv, Tier1Reissued, status.phase \in {"AwaitingReissuance", "VerifyingChain"}
    PROVE  Unmoved = {}
<1>1. status.cur = root.key /\ cached = status
    BY DEF ReissueInv, AnchorInv, RotationInv, OneRenewal
<1>2. \A t \in Tier1 : crt[t].akid = root.key
    BY <1>1, ReadAsIs DEF Tier1Reissued, Tier1, Certs
<1> QED BY <1>2 DEF Unmoved

(* Tier-1 is under the old root when the window has opened. *)
LEMMA AllUnmoved ==
    ASSUME ReissueInv, status.phase = "DualTrustActive" PROVE Tier1 \subseteq Unmoved
<1>1. /\ status.cur = root.key /\ status.cur # None /\ status.prev < status.cur
      /\ status \in RootStatus
    BY DEF ReissueInv, AnchorInv, RotationInv, OneRenewal, TrimInv, TypeOK, LeavesBehind
<1>2. \A t \in Tier1 : crt[t].akid = status.prev
    BY <1>1 DEF ReissueInv, AnchorInv, Tier1InTurn
<1>3. status.prev # status.cur
    BY <1>1 DEF RootStatus
<1> QED BY <1>1, <1>2, <1>3 DEF Unmoved

(* Without failing calls everything that is to be triggered is tried. *)
LEMMA TriedAll ==
    ASSUME "apiFail" \notin Env, NEW S, NEW T \in Attempts(S) PROVE T = S
BY DEF Attempts

(* Every mark a handler of the root sets was earned. *)
LEMMA RootMarksEarned ==
    ASSUME ThreeTiers, ReissueInv, ReconcileRoot \/ RootInterrupted
    PROVE  /\ issuing \subseteq issuing'
           /\ \A c \in Certs \ Tier1 : c \in issuing' => c \in issuing \/ Earned(c)
<1>0. /\ cached = status /\ "apiFail" \notin Env
      /\ Tier1 \cap Leaves = {} /\ Tier2 \cap Leaves = {} /\ TrackedLeaves \subseteq Leaves
    BY CertificateTypes, ClusterAssumption DEF Tier1, Tier2, TrackedLeaves
<1>1. ASSUME NEW S, Trigger(S), \A c \in S : c \in Certs \ Tier1 /\ c \notin issuing => Earned(c)
      PROVE  /\ issuing \subseteq issuing'
             /\ \A c \in Certs \ Tier1 : c \in issuing' => c \in issuing \/ Earned(c)
    BY <1>1 DEF Trigger
<1>2. CASE UNCHANGED issuing
    BY <1>2
<1>3. CASE EnsureThenSweep
    <2>1. CASE SweepRootChildren
        <3>1. PICK S \in Attempts(StaleChildren(Root, RootSecret.key)) : Trigger(S)
            BY <2>1 DEF SweepRootChildren
        <3>2. S \subseteq Tier1
            BY AttemptsSubset, TiersApart DEF StaleChildren
        <3> QED BY <1>1, <3>1, <3>2
    <2> QED BY <1>2, <1>3, <2>1 DEF EnsureThenSweep
<1>4. CASE DualTrustExtended
    BY <1>1, <1>4 DEF DualTrustExtended
<1>5. CASE AwaitingTier2
    <2>1. Unmoved = {}
        BY <1>0, <1>5, NoneUnmoved DEF AwaitingTier2, Awaiting
    <2>2. \A n \in Tier2Predating : n \in Tier2 /\ Predates(n)
        BY Comparisons DEF Tier2Predating
    <2>3. \A n \in Tier2Predating : n \notin issuing => Earned(n)
        BY <1>0, <2>1, <2>2 DEF Earned, Due
    <2> QED BY <1>1, <1>5, <2>3 DEF AwaitingTier2
<1>6. CASE AwaitingTier2Reissued
    <2>1. Unmoved = {} /\ status.phase = "AwaitingReissuance"
        BY <1>0, <1>6, NoneUnmoved DEF AwaitingTier2Reissued, Awaiting
    <2>2. status'.phase = "VerifyingChain"
        <3> DEFINE new == [cached EXCEPT !.reissued = "True", !.phase = "VerifyingChain"]
        <3>1. cached \in RootStatus /\ AnchorInv
            BY CertificateTypes DEF TypeOK, ReissueInv
        <3>2. Update(new) /\ new.phase = "VerifyingChain"
            BY <1>6, <3>1 DEF AwaitingTier2Reissued, RootStatus
        <3> HIDE DEF new
        <3> QED BY <3>1, <3>2, UpdateWritten
    <2>3. \A l \in TrackedLeaves : Earned(l)
        BY <1>0, <2>1, <2>2 DEF Earned, Due
    <2> QED BY <1>1, <1>6, <2>3 DEF AwaitingTier2Reissued
<1>7. ASSUME NEW n \in Tier2, VerifyTier2Fails(n) PROVE FALSE
    <2>1. status.phase = "VerifyingChain" /\ n \in Tier2Pending
        BY <1>0, <1>7 DEF VerifyTier2Fails, Verifying
    <2>2. Predates(n)
        BY <2>1, Comparisons
    <2> QED BY <2>1, <2>2 DEF ReissueInv, GenerationsInTurn
<1>8. ASSUME NEW l \in TrackedLeaves, VerifyLeafFails(l)
      PROVE  /\ issuing \subseteq issuing'
             /\ \A c \in Certs \ Tier1 : c \in issuing' => c \in issuing \/ Earned(c)
    <2>1. /\ status.phase = "VerifyingChain" /\ Unmoved = {}
        BY <1>0, <1>8, NoneUnmoved DEF VerifyLeafFails, Verifying
    <2>2. status'.phase = "VerifyingChain"
        <3> DEFINE new == [cached EXCEPT !["verified"] = "False"]
        <3>1. cached \in RootStatus /\ AnchorInv
            BY CertificateTypes DEF TypeOK, ReissueInv
        <3>2. Update(new)
            BY <1>8 DEF VerifyLeafFails, Condition
        <3>3. new.phase = "VerifyingChain"
            BY <1>0, <2>1, <3>1 DEF RootStatus
        <3> HIDE DEF new
        <3> QED BY <3>1, <3>2, <3>3, UpdateWritten
    <2>3. PICK b \in Baselines : \/ ~Ready(l) /\ UNCHANGED issuing
                                 \/ Ready(l) /\ ~LeafFresh(l, b) /\ Retrigger({l})
        BY <1>8 DEF VerifyLeafFails
    <2>4. CASE ~LeafFresh(l, b) /\ Retrigger({l})
        <3>1. Unfresh(l) /\ l \in Leaves
            BY <1>0, <2>4, Comparisons
        <3>2. l \notin issuing => Earned(l)
            BY <2>1, <2>2, <3>1 DEF Earned, Due
        <3>3. Trigger({l})
            BY <1>0, <2>4, TriedAll DEF Retrigger
        <3> QED BY <1>1, <3>2, <3>3
    <2> QED BY <1>2, <2>3, <2>4
<1>9. CASE ReconcileRoot
    BY <1>2, <1>3, <1>4, <1>5, <1>6, <1>7, <1>8, <1>9
    DEF ReconcileRoot, InitialisePhase, IdleSKIDChanged, IdleBaseline, IdleRequestDetected, IdleQuiet,
        PreservingAbort, PreservingRenewed, AwaitingTier1, VerifyTier1Fails, VerifyPasses, Complete
<1>10. CASE RootInterrupted
    BY <1>0, <1>2, <1>10
    DEF RootInterrupted, IdleInterrupted, DualTrustBlocked, DualTrustInterrupted,
        AwaitingInterrupted, CompleteInterrupted, Disrupt
<1> QED BY <1>9, <1>10


(* No child has anything to do but follow and sweep. *)
LEMMA ChildSteps ==
    ASSUME ReissueInv, NEW c \in CAs, ReconcileChild(c) \/ ChildInterrupted(c)
    PROVE  /\ child[c].exists
           /\ \/ ChildQuiet(c)
              \/ ChildYields(c)
<1>0. /\ child[c].exists
          => /\ child[c].phase \in {"", "Idle"} /\ child[c].cur # None
             /\ status.phase \notin {"AwaitingReissuance", "VerifyingChain", "Complete"} =>
                    child[c].cur = crt[c].key
      /\ cached = status /\ "apiFail" \notin Env /\ c \in Certs
    BY CertificateTypes DEF ReissueInv, ChildrenFollow, Certs
<1>1. /\ ~ChildBaseline(c) /\ ~ChildDrift(c) /\ ~ChildTriggers(c) /\ ~ChildPending(c)
      /\ ~ChildVerified(c) /\ ~ChildCompletes(c) /\ ~ChildInterrupted(c)
    BY <1>0
    DEF ChildBaseline, ChildIdle, Reconciled, ChildDrift, ChildTriggers, ChildPending, ChildVerifying,
        ChildVerified, ChildCompletes, ChildInterrupted, Disrupt
<1>2. ~ChildCascades(c)
    <2>1. SKID(c) = crt[c].key
        BY <1>0, ReadAsIs
    <2> QED BY <1>0, <2>1 DEF ChildCascades, SKIDChanged, OwnerIdle, ChildIdle, Reconciled
<1> QED BY <1>1, <1>2 DEF ReconcileChild, ChildQuiet, ChildYields, SKIDChanged, ChildIdle, Reconciled

(* A child's sweep marks what was signed with another key than its CA's. *)
LEMMA ChildMarksEarned ==
    ASSUME ThreeTiers, ReissueInv, NEW c \in CAs, ReconcileChild(c) \/ ChildInterrupted(c)
    PROVE  /\ issuing \subseteq issuing'
           /\ \A d \in Certs \ Tier1 : d \in issuing' => d \in issuing \/ Earned(d)
<1>1. CASE ChildQuiet(c)
    <2>1. PICK S \in Attempts(StaleChildren(c, SKID(c))) : Trigger(S)
        BY <1>1 DEF ChildQuiet, SweepIntermediateChildren
    <2>2. \A d \in S : d \in Certs /\ Parent[d] = c /\ AKID(d) # SKID(c)
        BY AttemptsSubset DEF StaleChildren, Children
    <2>3. c \in Certs
        BY DEF Certs
    <2>4. \A d \in S : d \notin issuing => Earned(d)
        BY <2>2, <2>3, ReadAsIs DEF Earned, Stale
    <2> QED BY <2>1, <2>4 DEF Trigger
<1>2. CASE ChildYields(c)
    BY <1>2 DEF ChildYields
<1> QED BY <1>1, <1>2, ChildSteps

(* Handlers of the root make children in Idle and correct their SKIDs in Complete. *)
LEMMA RootChildren ==
    ASSUME ReissueInv, ReconcileRoot \/ RootInterrupted, NEW c \in CAs
    PROVE  /\ child'[c] \in {child[c], NewChild(c), [child[c] EXCEPT !.cur = SKID(c)]}
           /\ Complete /\ child[c].exists => child'[c].cur = SKID(c)
<1>0. "apiFail" \notin Env /\ crt[c].present /\ child[c] \in Child
    BY CertificateTypes DEF Certs, TypeOK
<1>1. CASE UNCHANGED child /\ ~Complete
    BY <1>1
<1>2. ASSUME NEW made, EnsureIntermediateCACRs(made)
      PROVE  child'[c] \in {child[c], NewChild(c)}
    <2>1. PICK booted \in Attempts(CAs) :
              child' = [d \in CAs |-> IF child[d].exists \/ d \notin made THEN child[d]
                                      ELSE IF d \in booted THEN NewChild(d)
                                      ELSE [NewChild(d) EXCEPT !.cur = None]]
        BY <1>2 DEF EnsureIntermediateCACRs
    <2>2. booted = CAs
        BY <1>0, TriedAll
    <2> QED BY <2>1, <2>2
<1>3. CASE Complete
    <2>1. PICK S \in Attempts(CAs) : SyncChildSKIDs(S)
        BY <1>3 DEF Complete
    <2>2. S = CAs
        BY <1>0, TriedAll
    <2>3. child'[c] = IF child[c].exists THEN [child[c] EXCEPT !.cur = SKID(c)] ELSE child[c]
        BY <1>0, <2>1, <2>2 DEF SyncChildSKIDs
    <2> QED BY <1>0, <2>3 DEF Child
<1>4. CASE (IdleBaseline \/ IdleQuiet) /\ ~Complete
    BY <1>1, <1>2, <1>4 DEF IdleBaseline, IdleQuiet, EnsureThenSweep
<1>5. CASE ReconcileRoot
    BY <1>1, <1>3, <1>4, <1>5
    DEF ReconcileRoot, InitialisePhase, IdleSKIDChanged, IdleRequestDetected,
        PreservingAbort, PreservingRenewed, DualTrustExtended, AwaitingTier1,
        AwaitingTier2, AwaitingTier2Reissued, VerifyTier1Fails, VerifyTier2Fails,
        VerifyLeafFails, VerifyPasses
<1>6. CASE RootInterrupted
    BY <1>0, <1>1, <1>3, <1>6
    DEF RootInterrupted, IdleInterrupted, DualTrustBlocked, DualTrustInterrupted,
        AwaitingInterrupted, CompleteInterrupted, Disrupt
<1> QED BY <1>5, <1>6

(* Every child follows its CA after a step. *)
LEMMA FollowNext ==
    ASSUME ThreeTiers, ReissueInv, [Next]_vars PROVE ChildrenFollow'
<1> DEFINE Moving == {"AwaitingReissuance", "VerifyingChain", "Complete"}
           Follows(ch, key, phase) ==
               ch.exists => /\ ch.phase \in {"", "Idle"} /\ ch.cur # None
                            /\ phase \notin Moving => ch.cur = key
<1>0. /\ TypeOK /\ CAs \subseteq Certs /\ child \in [CAs -> Child]
      /\ \A c \in CAs : Follows(child[c], crt[c].key, status.phase)
      /\ \A c \in CAs : SKID(c) = crt[c].key /\ crt[c].key # None
    <2>1. CAs \subseteq Certs
        BY DEF Certs
    <2>2. \A c \in Certs : crt[c].key # None
        BY CertificateTypes DEF ReissueInv, KeysNumbered, None
    <2> QED BY <2>1, <2>2, CertificateTypes, ReadAsIs DEF ReissueInv, ChildrenFollow, TypeOK
<1>1. SUFFICES ASSUME NEW c \in CAs PROVE Follows(child'[c], crt'[c].key, status'.phase)
    BY DEF ChildrenFollow
<1>2. CASE ReconcileRoot \/ RootInterrupted
    <2>1. crt' = crt
        BY <1>2, HandlersIssueNothing DEF OperatorStep
    <2>2. status.phase \in Moving /\ status'.phase \notin Moving => Complete
        BY <1>2, PhaseStep
    <2>3. CASE Complete
        <3>1. child'[c] \in {child[c], NewChild(c), [child[c] EXCEPT !.cur = SKID(c)]}
              /\ (child[c].exists => child'[c].cur = SKID(c))
            BY <1>2, <2>3, RootChildren
        <3>2. /\ [child[c] EXCEPT !.cur = SKID(c)].phase = child[c].phase
              /\ [child[c] EXCEPT !.cur = SKID(c)].exists = child[c].exists
            BY <1>0 DEF Child
        <3>3. NewChild(c).phase = "" /\ NewChild(c).cur = SKID(c)
            BY DEF NewChild
        <3>4. CASE child'[c] = NewChild(c)
            BY <1>0, <2>1, <3>3, <3>4
        <3>5. CASE child'[c] # NewChild(c)
            BY <1>0, <2>1, <3>1, <3>2, <3>5
        <3> QED BY <3>4, <3>5
    <2>4. CASE ~Complete
        <3>1. child'[c] \in {child[c], NewChild(c), [child[c] EXCEPT !.cur = SKID(c)]}
            BY <1>2, RootChildren
        <3>2. /\ [child[c] EXCEPT !.cur = SKID(c)].phase = child[c].phase
              /\ [child[c] EXCEPT !.cur = SKID(c)].exists = child[c].exists
              /\ [child[c] EXCEPT !.cur = SKID(c)].cur = SKID(c)
            BY <1>0 DEF Child
        <3>3. NewChild(c).phase = "" /\ NewChild(c).cur = SKID(c)
            BY DEF NewChild
        <3>4. CASE child'[c] = child[c]
            BY <1>0, <2>1, <2>2, <2>4, <3>4
        <3>5. CASE child'[c] = NewChild(c)
            BY <1>0, <2>1, <3>3, <3>5
        <3>6. CASE child'[c] = [child[c] EXCEPT !.cur = SKID(c)]
            BY <1>0, <2>1, <3>2, <3>6
        <3> QED BY <3>1, <3>4, <3>5, <3>6
    <2> QED BY <2>3, <2>4
<1>3. ASSUME NEW d \in CAs, ReconcileChild(d) \/ ChildInterrupted(d)
      PROVE  Follows(child'[c], crt'[c].key, status'.phase)
    <2>1. UNCHANGED <<crt, status>>
        BY <1>3, ChildStepFrame DEF childHandlerEnv
    <2>2. \/ child' = [child EXCEPT ![d] = [child[d] EXCEPT !.phase = "Idle"]]
          \/ child' = [child EXCEPT ![d] = [child[d] EXCEPT !.cur = SKID(d), !.phase = "Idle"]]
        BY <1>3, ChildSteps DEF ChildQuiet, ChildYields, UpdateChild
    <2>3. /\ [child[d] EXCEPT !.phase = "Idle"].phase = "Idle"
          /\ [child[d] EXCEPT !.phase = "Idle"].cur = child[d].cur
          /\ [child[d] EXCEPT !.phase = "Idle"].exists = child[d].exists
          /\ [child[d] EXCEPT !.cur = SKID(d), !.phase = "Idle"].phase = "Idle"
          /\ [child[d] EXCEPT !.cur = SKID(d), !.phase = "Idle"].cur = SKID(d)
        BY <1>0 DEF Child
    <2>4. CASE d = c
        <3>1. child'[c] \in {[child[d] EXCEPT !.phase = "Idle"],
                             [child[d] EXCEPT !.cur = SKID(d), !.phase = "Idle"]}
            BY <1>0, <2>2, <2>4
        <3>2. Follows([child[d] EXCEPT !.phase = "Idle"], crt[c].key, status.phase)
            BY <1>0, <2>3, <2>4
        <3>3. Follows([child[d] EXCEPT !.cur = SKID(d), !.phase = "Idle"], crt[c].key, status.phase)
            BY <1>0, <2>3, <2>4
        <3> HIDE DEF Follows
        <3> QED BY <2>1, <3>1, <3>2, <3>3
    <2>5. CASE d # c
        <3>1. child'[c] = child[c]
            BY <1>0, <2>2, <2>5
        <3> QED BY <1>0, <2>1, <3>1
    <2> QED BY <2>4, <2>5
<1>4. CASE EnvironmentStep
    <2>1. ASSUME NEW d \in Certs, Issue(d) PROVE Follows(child'[c], crt'[c].key, status'.phase)
        <3>1. UNCHANGED <<child, status>> /\ (d \notin Leaves => status.phase = "AwaitingReissuance")
              /\ \A e \in Certs : e # d => crt'[e] = crt[e]
            BY <2>1, IssuedWhen
        <3>2. CASE d = c
            <4>1. d \notin Leaves
                BY <3>2, ClusterAssumption
            <4> QED BY <1>0, <3>1, <4>1
        <3>3. CASE d # c
            BY <1>0, <3>1, <3>3
        <3> QED BY <3>2, <3>3
    <2>2. ASSUME NEW d \in CAs, DeleteChild(d) PROVE Follows(child'[c], crt'[c].key, status'.phase)
        <3>1. child' = [child EXCEPT ![d] = NoChild] /\ UNCHANGED <<crt, status>> /\ ~NoChild.exists
            BY <2>2 DEF DeleteChild, certVars, NoChild
        <3>2. child'[c] = child[c] \/ child'[c] = NoChild
            BY <1>0, <3>1
        <3> QED BY <1>0, <3>1, <3>2
    <2>3. \A d \in Certs : ~DeleteSecret(d)
        BY DEF DeleteSecret, Disrupt, ReissueInv, AnchorInv
    <2>4. CASE UNCHANGED <<crt, child, status>>
        BY <1>0, <2>4
    <2> QED
        BY <1>4, <2>1, <2>2, <2>3, <2>4
        DEF EnvironmentStep, CertManager, Disruption, Publish, LoadIssuer, RenewCertificate,
            RequestRoot, RequestAbsentRoot, SignRoot, FailRoot, RetryRoot, WriteRootSecret, DeleteRoot,
            DeleteConfigMap, Distribute, Informers, CacheSync, Sync, certVars, crdVars
<1>5. CASE UNCHANGED vars
    BY <1>0, <1>5 DEF vars, certVars, crdVars
<1> QED BY <1>2, <1>3, <1>4, <1>5 DEF Next, OperatorStep


(* A step of the operator marks what was earned, and issues nothing. *)
LEMMA OperatorSettles ==
    ASSUME ThreeTiers, ReissueInv, OperatorStep
    PROVE  /\ UNCHANGED <<root, rootCR, crt>>
           /\ issuing \subseteq issuing'
           /\ \A c \in Certs \ Tier1 : c \in issuing' => c \in issuing \/ Earned(c)
           /\ \/ status'.phase = status.phase
              \/ /\ status.phase \in {"", "Idle", "PreservingOldRoot"}
                 /\ status'.phase \in {"Idle", "PreservingOldRoot", "DualTrustActive"}
              \/ DualTrustExtended /\ status'.phase = "AwaitingReissuance"
              \/ AwaitingTier2Reissued /\ status'.phase = "VerifyingChain"
              \/ VerifyPasses /\ status'.phase = "Complete"
              \/ Complete /\ status'.phase = "Idle"
<1>1. UNCHANGED <<root, rootCR, crt>>
    BY HandlersIssueNothing
<1>2. ASSUME NEW c \in CAs, ReconcileChild(c) \/ ChildInterrupted(c) PROVE status' = status
    BY <1>2, ChildStepFrame DEF childHandlerEnv
<1> QED BY <1>1, <1>2, RootMarksEarned, ChildMarksEarned, PhaseStep DEF OperatorStep

(* A rotation leaves AwaitingReissuance when no tier-2 certificate predates a tier-1 one, and
   VerifyingChain when no leaf predates what it is held against. *)
LEMMA PassedComparisons ==
    ASSUME ThreeTiers, ReissueInv
    PROVE  /\ AwaitingTier2Reissued => \A n \in Tier2 : ~Predates(n)
           /\ VerifyPasses => \A l \in Leaves : ~Unfresh(l)
<1>1. AwaitingTier2Reissued => \A n \in Tier2 : ~Predates(n)
    BY Comparisons DEF AwaitingTier2Reissued
<1>2. ASSUME VerifyPasses, NEW l \in Leaves PROVE ~Unfresh(l)
    <2>1. PICK b \in Baselines : \A m \in TrackedLeaves : Ready(m) /\ LeafFresh(m, b)
        BY <1>2 DEF VerifyPasses
    <2> QED BY <2>1, HeldAgainstIssuer, Comparisons
<1> QED BY <1>1, <1>2

(* The generations stay in turn. *)
LEMMA GenerationsNext ==
    ASSUME ThreeTiers, ReissueInv, [Next]_vars PROVE GenerationsInTurn'
<1>0. /\ \A n \in Tier2 \cap issuing : Predates(n)
      /\ status.phase # "AwaitingReissuance" => \A n \in Tier2 : ~Predates(n)
      /\ status.phase \notin {"AwaitingReissuance", "VerifyingChain"} => \A l \in Leaves : ~Unfresh(l)
      /\ Tier2 \subseteq Certs \ Tier1 /\ Tier2 \cap Leaves = {}
      /\ Leaves \subseteq Certs \ Tier1
    BY TiersApart, ClusterAssumption DEF ReissueInv, GenerationsInTurn, Tier1, Tier2, Certs
<1>1. ASSUME UNCHANGED crt,
             \A n \in Tier2 : n \in issuing' => n \in issuing \/ Predates(n),
             status'.phase # "AwaitingReissuance" => \A n \in Tier2 : ~Predates(n),
             status'.phase \notin {"AwaitingReissuance", "VerifyingChain"} =>
                 \A l \in Leaves : ~Unfresh(l)
      PROVE  GenerationsInTurn'
    <2>1. /\ \A n : Predates(n)' <=> Predates(n)
          /\ \A l : Unfresh(l)' <=> Unfresh(l)
        BY <1>1 DEF Predates, Unfresh, HeldAgainst
    <2> QED BY <1>0, <1>1, <2>1 DEF GenerationsInTurn
<1>2. CASE OperatorStep
    <2>1. \A n \in Tier2 : n \in issuing' => n \in issuing \/ Predates(n)
        <3> SUFFICES ASSUME NEW n \in Tier2, n \in issuing', n \notin issuing PROVE Predates(n)
            OBVIOUS
        <3>1. Earned(n) /\ n \notin Leaves
            BY <1>0, <1>2, OperatorSettles
        <3> QED BY <3>1, StalePredates DEF Earned, Stale, Due
    <2>2. status'.phase # "AwaitingReissuance" => \A n \in Tier2 : ~Predates(n)
        <3>1. status'.phase # "AwaitingReissuance" =>
                  status.phase # "AwaitingReissuance" \/ AwaitingTier2Reissued
            <4>1. /\ VerifyPasses => status.phase = "VerifyingChain"
                  /\ Complete => status.phase = "Complete"
                BY CertificateTypes DEF VerifyPasses, Verifying, Complete
            <4> QED BY <1>2, <4>1, OperatorSettles
        <3> QED BY <1>0, <3>1, PassedComparisons
    <2>3. status'.phase \notin {"AwaitingReissuance", "VerifyingChain"} =>
              \A l \in Leaves : ~Unfresh(l)
        <3>1. status'.phase \notin {"AwaitingReissuance", "VerifyingChain"} =>
                  status.phase \notin {"AwaitingReissuance", "VerifyingChain"} \/ VerifyPasses
            <4>1. Complete => status.phase = "Complete"
                BY CertificateTypes DEF Complete
            <4> QED BY <1>2, <4>1, OperatorSettles
        <3> QED BY <1>0, <3>1, PassedComparisons
    <2> QED BY <1>1, <1>2, <2>1, <2>2, <2>3, OperatorSettles
<1>3. ASSUME NEW c \in Certs, Issue(c) PROVE GenerationsInTurn'
    <2>1. /\ issuing' = issuing \ {c} /\ UNCHANGED status
          /\ c \notin Leaves => status.phase = "AwaitingReissuance"
        BY <1>3, IssuedWhen
    <2>2. ASSUME NEW n \in Tier2 \cap issuing' PROVE Predates(n)'
        BY <1>0, <1>3, <2>1, <2>2, OthersCompared
    <2>3. ASSUME status.phase # "AwaitingReissuance"
          PROVE  /\ \A n \in Tier2 : ~Predates(n)'
                 /\ status.phase # "VerifyingChain" => \A l \in Leaves : ~Unfresh(l)'
        <3>1. c \in Leaves /\ c \notin Tier1 /\ c \notin Tier2
            BY <1>0, <2>1, <2>3
        <3>2. \A n \in Tier2 : ~Predates(n)'
            BY <1>0, <1>3, <2>3, <3>1, OthersCompared
        <3>3. ASSUME status.phase # "VerifyingChain", NEW l \in Leaves PROVE ~Unfresh(l)'
            <4>1. CASE l = c
                BY <1>3, <3>1, <4>1, JustIssued
            <4>2. CASE l # c
                BY <1>0, <1>3, <2>3, <3>1, <3>3, <4>2, OthersCompared
            <4> QED BY <4>1, <4>2
        <3> QED BY <3>2, <3>3
    <2> QED BY <2>1, <2>2, <2>3 DEF GenerationsInTurn
<1>4. CASE UNCHANGED <<crt, issuing, status>>
    BY <1>0, <1>1, <1>4
<1>5. \A c \in Certs : ~DeleteSecret(c) /\ ~RenewCertificate(c)
    BY DEF DeleteSecret, RenewCertificate, Disrupt, ReissueInv, AnchorInv
<1>6. CASE EnvironmentStep
    BY <1>3, <1>4, <1>5, <1>6
    DEF EnvironmentStep, CertManager, Disruption, Publish, LoadIssuer, DeleteChild,
        RequestRoot, RequestAbsentRoot, SignRoot, FailRoot, RetryRoot, WriteRootSecret, DeleteRoot,
        DeleteConfigMap, Distribute, Informers, CacheSync, Sync, certVars, crdVars
<1> QED BY <1>2, <1>4, <1>6 DEF Next, vars, certVars, crdVars

(* A renewal is asked for while the bound on the root's certificates is not reached. *)
LEMMA SerialNext ==
    ASSUME TypeOK, "rootAgain" \notin Env, SerialBounded, [Next]_vars PROVE SerialBounded'
<1>0. root \in Secret /\ root.serial \in Nat /\ MaxSerial \in Nat
    BY ClusterAssumption DEF TypeOK, Secret
<1>1. CASE UNCHANGED <<root, rootCR>>
    BY <1>1 DEF SerialBounded
<1>2. CASE OperatorStep
    BY <1>1, <1>2, HandlersIssueNothing
<1>3. CASE RequestRoot \/ RequestAbsentRoot \/ SignRoot \/ FailRoot \/ RetryRoot
    BY <1>3 DEF RequestRoot, RequestAbsentRoot, SignRoot, FailRoot, RetryRoot, SerialBounded
<1>4. CASE WriteRootSecret
    <2>1. root'.serial = root.serial + 1 /\ root'.present /\ rootCR' = "none" /\ rootCR = "signed"
        BY <1>4 DEF WriteRootSecret
    <2> QED BY <1>0, <2>1 DEF SerialBounded
<1>5. CASE DeleteRoot
    <2>1. root'.serial = root.serial /\ root.serial < MaxSerial
        BY <1>0, <1>5 DEF DeleteRoot, Secret
    <2> QED BY <1>0, <2>1 DEF SerialBounded
<1>6. CASE EnvironmentStep
    BY <1>1, <1>3, <1>4, <1>5, <1>6
    DEF EnvironmentStep, CertManager, Disruption, Issue, Publish, LoadIssuer, RenewCertificate,
        DeleteSecret, DeleteChild, DeleteConfigMap, Distribute, Informers, CacheSync, Sync, rootVars
<1> QED BY <1>1, <1>2, <1>6 DEF Next, vars, rootVars

(* No certificate is issued that was not owed. *)
LEMMA CountNext ==
    ASSUME ThreeTiers, ReissueInv, [Next]_vars PROVE ReissuesCounted'
<1>1. CASE OperatorStep
    <2>1. status'.phase = "AwaitingReissuance" =>
              status.phase = "AwaitingReissuance" \/ Tier1 \subseteq Unmoved
        <3>1. DualTrustExtended => status.phase = "DualTrustActive"
            BY CertificateTypes DEF DualTrustExtended
        <3> QED BY <1>1, <3>1, OperatorSettles, AllUnmoved
    <2> QED BY <1>1, <2>1, OperatorSettles, MarksCounted
<1>2. ASSUME NEW c \in Certs, Issue(c) PROVE ReissuesCounted'
    BY <1>2, IssueCounted
<1>3. CASE root'.key = root.key /\ UNCHANGED <<crt, issuing, status>>
    BY <1>3, MarksCounted
<1>4. CASE DeleteRoot
    <2>1. root'.key = root.key /\ UNCHANGED <<crt, issuing, status>>
        BY <1>4, CertificateTypes DEF DeleteRoot, TypeOK, Secret, certVars, crdVars
    <2> QED BY <1>3, <2>1
<1>5. \A c \in Certs : ~DeleteSecret(c) /\ ~RenewCertificate(c)
    BY DEF DeleteSecret, RenewCertificate, Disrupt, ReissueInv, AnchorInv
<1>6. CASE EnvironmentStep
    BY <1>2, <1>3, <1>4, <1>5, <1>6, RenewalCounted
    DEF EnvironmentStep, CertManager, Disruption, Publish, LoadIssuer, DeleteChild,
        RequestRoot, RequestAbsentRoot, SignRoot, FailRoot, RetryRoot,
        DeleteConfigMap, Distribute, Informers, CacheSync, Sync, rootVars, certVars, crdVars
<1> QED BY <1>1, <1>3, <1>6 DEF Next, vars, rootVars, certVars, crdVars

(* ReissueInv is inductive. *)
LEMMA ReissueNext == ThreeTiers /\ ReissueInv /\ [Next]_vars => ReissueInv'
<1> SUFFICES ASSUME ThreeTiers, ReissueInv, [Next]_vars PROVE ReissueInv'
    OBVIOUS
<1>1. AnchorInv' /\ KeysNumbered'
    BY CertificateTypes, AnchorNext, NumberedNext DEF ReissueInv
<1>2. SerialBounded'
    BY CertificateTypes, SerialNext DEF ReissueInv, AnchorInv, RotationInv
<1>3. \A c \in Certs : crt'[c].present /\ crt'[c].nb # None
    <2>1. \A c \in Certs : crt[c].present /\ crt[c].nb # None
        BY CertificateTypes
    <2>2. ASSUME NEW c \in Certs, Issue(c) PROVE \A d \in Certs : crt'[d].present /\ crt'[d].nb # None
        <3>1. crt'[c].nb = clock + 1 /\ crt'[c].present /\ \A d \in Certs : d # c => crt'[d] = crt[d]
            BY <2>2, IssuedWhen
        <3>2. clock + 1 # None
            BY CertificateTypes DEF None
        <3> QED BY <2>1, <3>1, <3>2
    <2>3. \A c \in Certs : ~DeleteSecret(c)
        BY DEF DeleteSecret, Disrupt, ReissueInv, AnchorInv
    <2>4. (\E p \in Signers : LoadIssuer(p)) \/ WriteRootSecret \/ DeleteRoot => UNCHANGED crt
        BY DEF LoadIssuer, WriteRootSecret, DeleteRoot, certVars
    <2> QED BY <2>1, <2>2, <2>3, <2>4, IssuingSteps
<1> QED BY <1>1, <1>2, <1>3, GenerationsNext, FollowNext, CountNext DEF ReissueInv

(* The certificates of the installation are at the depth of their tier. *)
LEMMA InstalledDepths ==
    ASSUME ThreeTiers
    PROVE  /\ \A t \in Tier1 : Depth(t) = 0
           /\ \A n \in Tier2 : Depth(n) = 1
           /\ \A l \in Leaves : Depth(l) \in {1, 2}
<1>1. ASSUME NEW t \in Tier1 PROVE Depth(t) = 0
    <2>1. t \in Certs /\ Parent[t] = Root
        BY DEF Tier1, Certs
    <2>2. t \in Level(Root)[0]
        BY <2>1, LevelOfIssuer
    <2>3. \E n \in 0 .. Cardinality(Certs) : t \in Level(Root)[n]
        BY <2>1, TreeAssumption DEF Below
    <2>4. Depth(t) \in 0 .. Cardinality(Certs) /\ t \in Level(Root)[Depth(t)]
        BY <2>3 DEF Depth
    <2>5. Cardinality(Certs) \in Nat
        BY TreeAssumption, FS_CardinalityType
    <2> QED BY <2>1, <2>2, <2>4, <2>5, OneLevel
<1>2. ASSUME NEW n \in Tier2 PROVE Depth(n) = 1
    <2>1. n \in Certs /\ Parent[n] \in Tier1 /\ Parent[n] \in CAs
        BY DEF Tier1, Tier2, Certs
    <2> QED BY <1>1, <2>1, DepthOfIssuer
<1>3. ASSUME NEW l \in Leaves PROVE Depth(l) \in {1, 2}
    <2>1. l \in Certs /\ Parent[l] \in CAs /\ (Parent[l] \in Tier1 \/ Parent[l] \in Tier2)
        BY DEF Tier1, Tier2, ThreeTiers, Certs
    <2> QED BY <1>1, <1>2, <2>1, DepthOfIssuer
<1> QED BY <1>1, <1>2, <1>3

(* Nothing is owed where nothing was rotated before the installation. *)
LEMMA ReissueInit ==
    ASSUME {"rootAgain", "deleteConfigMap", "configMapLag", "statusLag", "issuerLag", "sameSecond",
            "apiFail", "cacheLag", "renew", "deleteSecret"} \cap Env = {},
           RotatedBeforeInstall = {}, MaxSerial >= 1, ThreeTiers, Init
    PROVE  ReissueInv
<1>1. AnchorInv /\ KeysNumbered
    BY AnchorInit, NumberedInit
<1>2. /\ root.key = 1 /\ root.serial = 1 /\ root.present /\ rootCR = "none" /\ issuing = {}
      /\ status.phase = ""
      /\ \A c \in Certs : /\ crt[c].key = 1 /\ crt[c].akid = 1 /\ crt[c].nb = 1 + Depth(c)
                          /\ crt[c].present
    BY DEF Init, InstalledCertificate, InstalledKey
<1>3. SerialBounded
    BY <1>2 DEF SerialBounded
<1>4. /\ Tier1 \subseteq Certs /\ Tier2 \subseteq Certs /\ Leaves \subseteq Certs
    BY DEF Tier1, Tier2, Certs
<1>5. /\ \A t \in Tier1 : crt[t].nb = 1
      /\ \A n \in Tier2 : crt[n].nb = 2
      /\ \A l \in Leaves : crt[l].nb \in {2, 3}
    <2>1. ASSUME NEW t \in Tier1 PROVE crt[t].nb = 1
        <3>1. Depth(t) = 0 /\ crt[t].nb = 1 + Depth(t)
            BY <1>2, <1>4, InstalledDepths
        <3> QED BY <3>1
    <2>2. ASSUME NEW n \in Tier2 PROVE crt[n].nb = 2
        <3>1. Depth(n) = 1 /\ crt[n].nb = 1 + Depth(n)
            BY <1>2, <1>4, InstalledDepths
        <3> QED BY <3>1
    <2>3. ASSUME NEW l \in Leaves PROVE crt[l].nb \in {2, 3}
        <3>1. Depth(l) \in {1, 2} /\ crt[l].nb = 1 + Depth(l)
            BY <1>2, <1>4, InstalledDepths
        <3> QED BY <3>1
    <2> QED BY <2>1, <2>2, <2>3
<1>6. \A n \in Tier2 : ~Predates(n)
    BY <1>5 DEF Predates
<1>7. \A l \in Leaves : ~Unfresh(l)
    <2>1. \A l : HeldAgainst(l) \subseteq Tier1 \cup Tier2
        BY DEF HeldAgainst
    <2> QED BY <1>5, <2>1 DEF Unfresh
<1>8. GenerationsInTurn
    BY <1>2, <1>6, <1>7 DEF GenerationsInTurn
<1>9. ChildrenFollow
    BY DEF Init, NoChild, ChildrenFollow
<1>10. Unmoved = {}
    BY <1>2, <1>4 DEF Unmoved
<1>11. ASSUME NEW c \in Certs \ Tier1 PROVE OwedHere(c) = 0
    <2>1. ~Stale(c)
        BY <1>2, BelowTier1 DEF Stale
    <2>2. ~Due(c)
        BY <1>2, <1>6, <1>7, <1>10, BelowTier1 DEF Due
    <2>3. c \notin issuing
        BY <1>2
    <2>4. OwedHere(c) = 0 + 0 + 0
        BY <2>1, <2>2, <2>3, Zenon DEF OwedHere, One
    <2> QED BY <2>4
<1>12. ASSUME NEW c \in Certs PROVE Owed(c) = 0
    <2>1. \A p : One(p \in Unmoved) = 0
        BY <1>10 DEF One
    <2> QED BY <1>10, <1>11, <2>1, BelowTier1 DEF Owed, One
<1>13. ReissuesCounted
    <2>1. ASSUME NEW c \in Certs PROVE crt[c].key + Owed(c) <= 1 + Rounds(c) * (root.key - 1)
        <3>1. Rounds(c) \in {1, 2, 3}
            BY DEF Rounds
        <3>2. crt[c].key = 1 /\ Owed(c) = 0 /\ root.key = 1
            BY <1>2, <1>12
        <3> HIDE DEF Owed, Rounds
        <3> QED BY <3>1, <3>2
    <2> QED BY <2>1 DEF ReissuesCounted
<1>14. \A c \in Certs : crt[c].present /\ crt[c].nb # None
    <2>1. \A c \in Certs : c \in Tier1 \/ c \in Tier2 \/ c \in Leaves
        BY DEF ThreeTiers, Certs
    <2>2. \A c \in Certs : crt[c].nb \in {1, 2, 3}
        BY <1>5, <2>1
    <2>3. \A c \in Certs : crt[c].nb # None
        BY <2>2 DEF None
    <2> QED BY <1>2, <2>3
<1> QED BY <1>1, <1>3, <1>8, <1>9, <1>13, <1>14 DEF ReissueInv

(* The count holds throughout. *)
LEMMA ReissueInvariant ==
    ASSUME {"rootAgain", "deleteConfigMap", "configMapLag", "statusLag", "issuerLag", "sameSecond",
            "apiFail", "cacheLag", "renew", "deleteSecret"} \cap Env = {},
           RotatedBeforeInstall = {}, MaxSerial >= 1, ThreeTiers
    PROVE  Spec => []ReissueInv
<1>1. Init => ReissueInv
    BY ReissueInit
<1>2. ReissueInv /\ [Next]_vars => ReissueInv'
    BY ReissueNext
<1> QED BY <1>1, <1>2, PTL DEF Spec

(* In every rotation a tier-1 certificate is re-issued at most once, a tier-2 certificate and a
   leaf of tier-1 at most twice, and a leaf of tier-2 at most three times: once for every
   generation above it that moves, and not again because the sweeps, the cascade of the root
   and the verification find it in turn. *)
THEOREM RotationReissuesOnceAGeneration ==
    ASSUME {"rootAgain", "deleteConfigMap", "configMapLag", "statusLag", "issuerLag", "sameSecond",
            "apiFail", "cacheLag", "renew", "deleteSecret"} \cap Env = {},
           RotatedBeforeInstall = {}, MaxSerial >= 1, ThreeTiers
    PROVE  Spec => [](\A c \in Certs : crt[c].key - 1 <= Rounds(c) * (root.key - 1))
<1> DEFINE Bounded == \A c \in Certs : crt[c].key - 1 <= Rounds(c) * (root.key - 1)
<1>1. ReissueInv => Bounded
    <2> SUFFICES ASSUME ReissueInv, NEW c \in Certs
                 PROVE  crt[c].key - 1 <= Rounds(c) * (root.key - 1)
        OBVIOUS
    <2>1. crt[c].key \in Nat /\ root.key \in Nat /\ Owed(c) \in Nat
        BY CertificateTypes, OwedNumbers
    <2>2. crt[c].key + Owed(c) <= 1 + Rounds(c) * (root.key - 1)
        BY DEF ReissueInv, ReissuesCounted
    <2>3. Rounds(c) \in {1, 2, 3}
        BY DEF Rounds
    <2> QED BY <2>1, <2>2, <2>3
<1> QED BY <1>1, ReissueInvariant, PTL

(* So MaxKey, the bound an instance puts on the certificates issued, is no bound of the
   system where it leaves room for three re-issues a rotation: the root's cascade, the
   children's sweeps and the yield to the owner do not feed each other. *)
THEOREM ReissuesStayBounded ==
    ASSUME {"rootAgain", "deleteConfigMap", "configMapLag", "statusLag", "issuerLag", "sameSecond",
            "apiFail", "cacheLag", "renew", "deleteSecret"} \cap Env = {},
           RotatedBeforeInstall = {}, MaxSerial >= 1, 3 * MaxSerial < MaxKey + 2, ThreeTiers
    PROVE  Spec => []ReissuesBounded
<1>1. ReissueInv => ReissuesBounded
    <2> SUFFICES ASSUME ReissueInv, NEW c \in Certs PROVE crt[c].key < MaxKey
        BY DEF ReissuesBounded
    <2>1. /\ crt[c].key \in Nat /\ root.key \in Nat /\ Owed(c) \in Nat
          /\ root.serial \in Nat /\ MaxSerial \in Nat /\ MaxKey \in Nat
        BY CertificateTypes, OwedNumbers, ClusterAssumption DEF TypeOK, Secret
    <2>2. crt[c].key + Owed(c) <= 1 + Rounds(c) * (root.key - 1)
        BY DEF ReissueInv, ReissuesCounted
    <2>3. Rounds(c) \in {1, 2, 3}
        BY DEF Rounds
    <2>4. root.key >= 1 /\ root.key <= root.serial /\ root.serial <= MaxSerial
        BY DEF ReissueInv, KeysNumbered, SerialBounded, AnchorInv, ChainInv, TrimInv, SignedUpTo
    <2>5. crt[c].key <= 1 + 3 * (root.key - 1)
        BY <2>1, <2>2, <2>3, <2>4
    <2> QED BY <2>1, <2>4, <2>5
<1> QED BY <1>1, ReissueInvariant, PTL
=============================================================================
