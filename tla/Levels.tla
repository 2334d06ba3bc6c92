------------------------------- MODULE Levels -------------------------------
(***************************************************************************)
(* Facts about the levels of a search, which Cluster and Discovery both    *)
(* define by a recursive function on Nat. The induction theorems of the    *)
(* library quantify over operators; here an induction is over the set of   *)
(* the numbers for which something holds, so that no operator has to be    *)
(* instantiated.                                                           *)
(***************************************************************************)
EXTENDS Naturals, FiniteSets, TLAPS, FiniteSetTheorems, WellFoundedInduction

(* A set of natural numbers that is not empty has a least one. *)
LEMMA LeastNumber ==
    ASSUME NEW S \in SUBSET Nat, S # {}
    PROVE  \E m \in S : \A n \in S : m <= n
<1> DEFINE less == {ss \in Nat \X Nat : ss[1] < ss[2]}
<1>1. IsWellFoundedOn(less, Nat)
    BY NatLessThanWellFounded DEF OpToRel
<1>2. PICK m \in S : \A n \in S : <<n, m>> \notin less
    BY <1>1, WFMin
<1>3. ASSUME NEW n \in S PROVE m <= n
    <2>1. n \in Nat /\ m \in Nat
        OBVIOUS
    <2>2. ~(n < m)
        BY <1>2, <2>1
    <2> QED BY <2>1, <2>2
<1> QED BY <1>3

(* Induction, over a set. *)
LEMMA EveryNumber ==
    ASSUME NEW S, 0 \in S, \A n \in Nat : n \in S => n + 1 \in S
    PROVE  Nat \subseteq S
<1> SUFFICES ASSUME Nat \ S # {} PROVE FALSE
    OBVIOUS
<1>1. PICK m \in Nat \ S : \A n \in Nat \ S : m <= n
    BY LeastNumber
<1>2. m # 0 /\ m - 1 \in Nat
    BY <1>1
<1>3. m - 1 \in S
    BY <1>1, <1>2
<1>4. (m - 1) + 1 \in S
    BY <1>2, <1>3
<1> QED BY <1>1, <1>4

(* f is the beginning, up to n, of a sequence that starts with a and goes on with step. *)
Upto(n, f, T, a, step) ==
    /\ f \in [0 .. n -> T]
    /\ f[0] = a
    /\ \A i \in Nat : i < n => f[i + 1] = step[f[i]]

(* Two beginnings agree as far as both go. *)
LEMMA BeginningsAgree ==
    ASSUME NEW T, NEW a, NEW step, NEW m \in Nat, NEW n \in Nat, NEW f, NEW h,
           Upto(m, f, T, a, step), Upto(n, h, T, a, step), NEW k \in Nat, k <= m, k <= n
    PROVE  f[k] = h[k]
<1> DEFINE S == {i \in Nat : i <= m /\ i <= n => f[i] = h[i]}
<1>1. 0 \in S
    BY DEF Upto
<1>2. ASSUME NEW i \in Nat, i \in S PROVE i + 1 \in S
    <2> SUFFICES ASSUME i + 1 <= m, i + 1 <= n PROVE f[i + 1] = h[i + 1]
        OBVIOUS
    <2>1. i < m /\ i < n /\ f[i] = h[i]
        BY <1>2
    <2> QED BY <2>1 DEF Upto
<1>3. Nat \subseteq S
    <2> HIDE DEF S
    <2> QED BY <1>1, <1>2, EveryNumber
<1> QED BY <1>3

(* A step on T, iterated from a, gives a function on Nat. *)
LEMMA IterationExists ==
    ASSUME NEW T, NEW a \in T, NEW step \in [T -> T]
    PROVE  \E g \in [Nat -> T] : g[0] = a /\ \A n \in Nat : g[n + 1] = step[g[n]]
<1> DEFINE Beginning(n, f) == Upto(n, f, T, a, step)
           S == {n \in Nat : \E f : Beginning(n, f)}
<1>1. 0 \in S
    <2>1. Beginning(0, [i \in 0 .. 0 |-> a])
        BY DEF Upto
    <2> QED BY <2>1
<1>2. ASSUME NEW n \in Nat, n \in S PROVE n + 1 \in S
    <2>1. PICK f : Beginning(n, f)
        BY <1>2
    <2> DEFINE h == [i \in 0 .. n + 1 |-> IF i = n + 1 THEN step[f[n]] ELSE f[i]]
    <2>2. f[n] \in T
        BY <2>1 DEF Upto
    <2>3. h \in [0 .. n + 1 -> T]
        BY <2>1, <2>2 DEF Upto
    <2>4. h[0] = a
        BY <2>1 DEF Upto
    <2>5. ASSUME NEW i \in Nat, i < n + 1 PROVE h[i + 1] = step[h[i]]
        <3>1. CASE i = n
            BY <3>1
        <3>2. CASE i # n
            <4>1. i < n /\ i \in 0 .. n + 1 /\ i + 1 \in 0 .. n + 1 /\ i # n + 1 /\ i + 1 # n + 1
                BY <2>5, <3>2
            <4>2. h[i] = f[i] /\ h[i + 1] = f[i + 1]
                BY <4>1
            <4>3. f[i + 1] = step[f[i]]
                BY <2>1, <4>1 DEF Upto
            <4> QED BY <4>2, <4>3
        <3> QED BY <3>1, <3>2
    <2>6. Beginning(n + 1, h)
        <3> HIDE DEF h
        <3> QED BY <2>3, <2>4, <2>5 DEF Upto
    <2> QED BY <2>6
<1>3. Nat \subseteq S
    <2> HIDE DEF S
    <2> QED BY <1>1, <1>2, EveryNumber
<1> DEFINE F(n) == CHOOSE f : Beginning(n, f)
           g == [n \in Nat |-> F(n)[n]]
<1>4. ASSUME NEW n \in Nat PROVE Beginning(n, F(n))
    BY <1>3
<1> HIDE DEF F
<1>5. g \in [Nat -> T]
    <2>1. ASSUME NEW n \in Nat PROVE F(n)[n] \in T
        BY <1>4 DEF Upto
    <2> QED BY <2>1
<1>6. g[0] = a
    BY <1>4 DEF Upto
<1>7. ASSUME NEW n \in Nat PROVE g[n + 1] = step[g[n]]
    <2>1. F(n + 1)[n + 1] = step[F(n + 1)[n]]
        BY <1>4 DEF Upto
    <2>2. F(n + 1)[n] = F(n)[n]
        <3>1. Beginning(n, F(n)) /\ Beginning(n + 1, F(n + 1))
            BY <1>4
        <3> HIDE DEF Beginning
        <3> QED BY <3>1, BeginningsAgree DEF Beginning
    <2> QED BY <2>1, <2>2
<1> QED BY <1>5, <1>6, <1>7

(* The first levels of a search over a finite set of inner nodes are all of it: level[n]
   holds what next leads to from the nodes of the level above, and whatever the levels up to
   the number of nodes lead to is in them. *)
LEMMA LevelsClosed ==
    ASSUME NEW nodes, IsFiniteSet(nodes), NEW next, NEW level,
           \A n \in Nat : level[n + 1] = UNION {next[c] : c \in level[n] \cap nodes},
           NEW c \in nodes, NEW k \in 0 .. Cardinality(nodes), c \in level[k],
           NEW d \in next[c]
    PROVE  \E n \in 0 .. Cardinality(nodes) : d \in level[n]
<1> DEFINE N == Cardinality(nodes)
           Old(m) == \A x \in level[m] \cap nodes : \E i \in 0 .. m - 1 : x \in level[i]
<1>1. N \in Nat
    BY FS_CardinalityType
<1> HIDE DEF N
<1>2. PICK m \in 0 .. N : Old(m)
    <2> SUFFICES ASSUME \A m \in 0 .. N : ~Old(m) PROVE FALSE
        OBVIOUS
    <2> DEFINE fresh == [m \in 0 .. N |->
                            CHOOSE x \in level[m] \cap nodes : \A i \in 0 .. m - 1 : x \notin level[i]]
    <2>1. ASSUME NEW m \in 0 .. N
          PROVE  /\ fresh[m] \in level[m] \cap nodes
                 /\ \A i \in 0 .. m - 1 : fresh[m] \notin level[i]
        OBVIOUS
    <2>2. fresh \in [0 .. N -> nodes]
        BY <2>1
    <2> HIDE DEF fresh
    <2>3. IsFiniteSet(0 .. N) /\ Cardinality(0 .. N) = N + 1
        BY <1>1, FS_Interval
    <2>4. PICK x \in 0 .. N, y \in 0 .. N : x # y /\ fresh[x] = fresh[y]
        <3> DEFINE D == 0 .. N
        <3>1. Cardinality(nodes) < Cardinality(D)
            BY <1>1, <2>3 DEF N
        <3>2. IsFiniteSet(D) /\ fresh \in [D -> nodes]
            BY <2>2, <2>3
        <3> HIDE DEF D
        <3>3. \E x, y \in D : x # y /\ fresh[x] = fresh[y]
            BY <3>1, <3>2, FS_PigeonHole
        <3> QED BY <3>3 DEF D
    <2>5. CASE x < y
        <3>1. x \in 0 .. y - 1
            BY <1>1, <2>5
        <3> QED BY <2>1, <2>4, <3>1
    <2>6. CASE y < x
        <3>1. y \in 0 .. x - 1
            BY <1>1, <2>6
        <3> QED BY <2>1, <2>4, <3>1
    <2> QED BY <1>1, <2>4, <2>5, <2>6
<1> HIDE DEF Old
<1>3. ASSUME NEW n \in Nat, n >= m, NEW x \in level[n] \cap nodes
      PROVE  \E i \in 0 .. m - 1 : x \in level[i]
    <2> DEFINE S == {j \in Nat : \A y \in level[m + j] \cap nodes :
                                     \E i \in 0 .. m - 1 : y \in level[i]}
    <2>1. 0 \in S
        BY <1>1, <1>2 DEF Old
    <2>2. ASSUME NEW j \in Nat, j \in S PROVE j + 1 \in S
        <3> SUFFICES ASSUME NEW y \in level[m + (j + 1)] \cap nodes
                     PROVE  \E i \in 0 .. m - 1 : y \in level[i]
            OBVIOUS
        <3>1. m + (j + 1) = (m + j) + 1 /\ m + j \in Nat
            BY <1>1
        <3>2. PICK z \in level[m + j] \cap nodes : y \in next[z]
            BY <3>1
        <3>3. PICK i \in 0 .. m - 1 : z \in level[i]
            BY <2>2
        <3>4. y \in level[i + 1]
            BY <1>1, <3>2, <3>3
        <3>5. CASE i + 1 \in 0 .. m - 1
            BY <3>4, <3>5
        <3>6. CASE i + 1 \notin 0 .. m - 1
            <4>1. i + 1 = m
                BY <1>1, <3>6
            <4> QED BY <1>2, <3>4, <4>1 DEF Old
        <3> QED BY <3>5, <3>6
    <2>3. Nat \subseteq S
        <3> HIDE DEF S
        <3> QED BY <2>1, <2>2, EveryNumber
    <2>4. n - m \in Nat /\ m + (n - m) = n
        BY <1>1, <1>3
    <2>5. n - m \in S
        BY <2>3, <2>4
    <2> QED BY <2>4, <2>5
<1>4. k \in 0 .. N
    BY DEF N
<1>5. CASE k < N
    <2>1. d \in level[k + 1] /\ k + 1 \in 0 .. N
        BY <1>1, <1>4, <1>5
    <2> QED BY <2>1 DEF N
<1>6. CASE k = N
    <2>1. PICK i \in 0 .. m - 1 : c \in level[i]
        BY <1>1, <1>3, <1>6
    <2>2. d \in level[i + 1] /\ i + 1 \in 0 .. N
        BY <1>1, <2>1
    <2> QED BY <2>2 DEF N
<1> QED BY <1>1, <1>4, <1>5, <1>6
=============================================================================
