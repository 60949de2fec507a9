--------------------------- MODULE RecursionProofs ---------------------------
(***************************************************************************)
(* What the proofs about lists share.  Induction over the naturals is used *)
(* as the existence of a smallest counterexample, which is a statement     *)
(* about a set; a recursive function is, to the provers, some function     *)
(* that satisfies its equation, so that there is one comes first.  Then    *)
(* the facts about the elements a selection keeps.                         *)
(***************************************************************************)
EXTENDS Selection, Integers, WellFoundedInduction, TLAPS

(* A set of naturals that is not empty has a smallest element. *)
LEMMA SmallestExists ==
  ASSUME NEW T, T \subseteq Nat, T # {}
  PROVE  \E x \in T : \A y \in T : x <= y
<1>1. PICK x \in T : \A y \in T : ~(<<y, x>> \in OpToRel(<, Nat))
  BY NatLessThanWellFounded, WFMin
<1>2. \A y \in T : ~(y < x)
  BY <1>1 DEF OpToRel
<1> QED
  BY <1>2

(* A set that holds 0 and, with a number below N, the next one, holds all  *)
(* the numbers up to N.                                                    *)
LEMMA UpwardClosed ==
  ASSUME NEW N \in Nat, NEW T, 0 \in T,
         \A n \in 1..N : n - 1 \in T => n \in T
  PROVE  \A n \in 0..N : n \in T
<1> DEFINE Bad == {n \in 0..N : n \notin T}
<1> SUFFICES ASSUME Bad # {} PROVE FALSE
  OBVIOUS
<1>1. PICK n \in Bad : \A m \in Bad : n <= m
  <2>1. Bad \subseteq Nat
    OBVIOUS
  <2> HIDE DEF Bad
  <2> QED
    BY <2>1, SmallestExists
<1>2. n \in 1..N /\ n \notin T /\ n - 1 \in 0..N
  BY <1>1
<1>3. n - 1 \in T
  BY <1>1, <1>2
<1> QED
  BY <1>2, <1>3

(* f starts from a value and goes from each value to the next one as step  *)
(* says: step[n] maps the value at n - 1 to the value at n.                *)
Recurs(f, S, N, base, step) ==
    /\ f \in [0..N -> S]
    /\ f[0] = base
    /\ \A n \in 1..N : f[n] = step[n][f[n - 1]]

(* There is such a function. *)
LEMMA RecursiveFunctionExists ==
  ASSUME NEW S, NEW N \in Nat, NEW base \in S, NEW step \in [1..N -> [S -> S]]
  PROVE  \E f : Recurs(f, S, N, base, step)
<1> DEFINE IsUpTo(f, m) == /\ f[0] = base
                           /\ \A n \in 1..m : f[n] = step[n][f[n - 1]]
           T == {m \in 0..N : \E f \in [0..m -> S] : IsUpTo(f, m)}
<1>1. 0 \in T
  <2>1. [n \in 0..0 |-> base] \in [0..0 -> S] /\ IsUpTo([n \in 0..0 |-> base], 0)
    OBVIOUS
  <2> HIDE DEF IsUpTo
  <2> QED
    BY <2>1
<1>2. ASSUME NEW m \in 1..N, m - 1 \in T PROVE m \in T
  <2>1. PICK f \in [0..(m - 1) -> S] : IsUpTo(f, m - 1)
    BY <1>2
  <2> DEFINE g == [n \in 0..m |-> IF n = m THEN step[m][f[m - 1]] ELSE f[n]]
  <2>2. step[m][f[m - 1]] \in S
    <3>1. f[m - 1] \in S
      OBVIOUS
    <3> QED
      BY <3>1
  <2>3. g \in [0..m -> S]
    BY <2>2
  <2>4. \A n \in 0..(m - 1) : g[n] = f[n]
    OBVIOUS
  <2>5. g[m] = step[m][f[m - 1]]
    OBVIOUS
  <2> HIDE DEF g
  <2>6. IsUpTo(g, m)
    <3>1. g[0] = base
      BY <2>1, <2>4
    <3>2. ASSUME NEW n \in 1..m PROVE g[n] = step[n][g[n - 1]]
      <4>1. CASE n = m
        BY <2>4, <2>5, <4>1
      <4>2. CASE n \in 1..(m - 1)
        <5>1. f[n] = step[n][f[n - 1]]
          BY <2>1, <4>2
        <5>2. g[n] = f[n] /\ g[n - 1] = f[n - 1]
          BY <2>4, <4>2
        <5> QED
          BY <5>1, <5>2
      <4> QED
        BY <4>1, <4>2
    <3> QED
      BY <3>1, <3>2
  <2> HIDE DEF IsUpTo
  <2> QED
    BY <2>3, <2>6
<1> HIDE DEF T
<1>3. \A m \in 0..N : m \in T
  BY <1>1, <1>2, UpwardClosed
<1>4. N \in T
  BY <1>3
<1> QED
  BY <1>4 DEF T, Recurs

-----------------------------------------------------------------------------
(* What the selection's recursive function keeps grows element by element. *)
KeptGrows(s, S) ==
    /\ KeptUpTo(s, S)[0] = <<>>
    /\ \A n \in 1..Len(s) :
         KeptUpTo(s, S)[n] = IF s[n] \in S
                             THEN Append(KeptUpTo(s, S)[n - 1], s[n])
                             ELSE KeptUpTo(s, S)[n - 1]

(* That function is defined, and is a sequence of elements of both at      *)
(* every point.                                                            *)
LEMMA KeptUpToDefined ==
  ASSUME NEW X, NEW s \in Seq(X), NEW S
  PROVE  /\ \A n \in 0..Len(s) : KeptUpTo(s, S)[n] \in Seq(X \cap S)
         /\ KeptGrows(s, S)
<1> DEFINE Q == Seq(X \cap S)
           step == [n \in 1..Len(s) |->
                      [q \in Q |-> IF s[n] \in S THEN Append(q, s[n]) ELSE q]]
           Value(f, n) == IF n = 0 THEN <<>>
                          ELSE IF s[n] \in S THEN Append(f[n - 1], s[n])
                          ELSE f[n - 1]
<1>1. Len(s) \in Nat /\ \A n \in 1..Len(s) : s[n] \in X
  OBVIOUS
<1>2. <<>> \in Q
  OBVIOUS
<1>3. step \in [1..Len(s) -> [Q -> Q]]
  <2> SUFFICES ASSUME NEW q \in Q, NEW n \in 1..Len(s)
               PROVE  (IF s[n] \in S THEN Append(q, s[n]) ELSE q) \in Q
    OBVIOUS
  <2> QED
    BY <1>1
<1>4. PICK f \in [0..Len(s) -> Q] :
         /\ f[0] = <<>>
         /\ \A n \in 1..Len(s) : f[n] = step[n][f[n - 1]]
  <2> DEFINE N == Len(s)
             base == <<>>
  <2>1. N \in Nat /\ base \in Q /\ step \in [1..N -> [Q -> Q]]
    BY <1>1, <1>2, <1>3
  <2> HIDE DEF Q, step, N, base
  <2>2. \E f : Recurs(f, Q, N, base, step)
    BY <2>1, RecursiveFunctionExists
  <2> QED
    BY <2>2 DEF N, base, Recurs
<1>5. \A n \in 1..Len(s) : f[n] = IF s[n] \in S THEN Append(f[n - 1], s[n])
                                                ELSE f[n - 1]
  <2> SUFFICES ASSUME NEW n \in 1..Len(s)
               PROVE  step[n][f[n - 1]]
                        = IF s[n] \in S THEN Append(f[n - 1], s[n]) ELSE f[n - 1]
    BY <1>4
  <2>1. f[n - 1] \in Q
    BY <1>1
  <2> QED
    BY <2>1
<1> HIDE DEF step, Q
<1>6. f = [n \in 0..Len(s) |-> Value(f, n)]
  <2>1. ASSUME NEW n \in 0..Len(s) PROVE f[n] = Value(f, n)
    <3>1. CASE n = 0
      BY <1>4, <3>1
    <3>2. CASE n \in 1..Len(s)
      <4>1. n # 0
        BY <3>2
      <4> QED
        BY <1>5, <3>2, <4>1
    <3> QED
      BY <1>1, <3>1, <3>2
  <2> HIDE DEF Value
  <2> QED
    BY <1>4, <2>1
<1> DEFINE k == KeptUpTo(s, S)
<1>7. k = [n \in 0..Len(s) |-> Value(k, n)]
  BY <1>6 DEF KeptUpTo
<1> HIDE DEF k
<1>8. /\ k[0] = <<>>
      /\ \A n \in 1..Len(s) : k[n] = IF s[n] \in S THEN Append(k[n - 1], s[n])
                                                   ELSE k[n - 1]
  <2>1. \A n \in 0..Len(s) : k[n] = Value(k, n)
    <3> HIDE DEF Value
    <3> QED
      BY <1>7
  <2> QED
    BY <1>1, <2>1
<1>9. \A n \in 0..Len(s) : k[n] \in Q
  <2> DEFINE T == {n \in 0..Len(s) : k[n] \in Q}
  <2>1. 0 \in T
    BY <1>1, <1>2, <1>8
  <2>2. ASSUME NEW n \in 1..Len(s), n - 1 \in T PROVE n \in T
    <3>1. k[n - 1] \in Q /\ n \in 0..Len(s)
      BY <1>1, <2>2
    <3>2. s[n] \in S => Append(k[n - 1], s[n]) \in Q
      BY <1>1, <3>1 DEF Q
    <3> QED
      BY <1>8, <3>1, <3>2
  <2> HIDE DEF T
  <2>3. \A n \in 0..Len(s) : n \in T
    BY <1>1, <2>1, <2>2, UpwardClosed
  <2> QED
    BY <2>3 DEF T
<1> QED
  BY <1>8, <1>9 DEF k, Q, KeptGrows

(* The whole selection is the function's last value. *)
LEMMA KeptIsTyped ==
  ASSUME NEW X, NEW s \in Seq(X), NEW S
  PROVE  Kept(s, S) \in Seq(X \cap S)
<1>1. Len(s) \in 0..Len(s)
  OBVIOUS
<1>2. \A n \in 0..Len(s) : KeptUpTo(s, S)[n] \in Seq(X \cap S)
  BY KeptUpToDefined
<1> QED
  BY <1>1, <1>2 DEF Kept

(* q is what S keeps of the first n elements of s, and place says where in *)
(* s each element of it stands.                                            *)
KeepsAt(place, q, n, s, S) ==
    /\ place \in [1..Len(q) -> 1..n]
    /\ \A j, k \in 1..Len(q) : j < k => place[j] < place[k]
    /\ \A k \in 1..Len(q) : q[k] = s[place[k]] /\ q[k] \in S
    /\ \A m \in 1..n : s[m] \in S => \E k \in 1..Len(q) : place[k] = m

(* A selection keeps the order of the list and each element of it, at each *)
(* of its places, that is in the set: none twice, none missed.             *)
LEMMA KeptPositions ==
  ASSUME NEW X, NEW s \in Seq(X), NEW S
  PROVE  \E place : KeepsAt(place, Kept(s, S), Len(s), s, S)
<1> DEFINE kept == KeptUpTo(s, S)
<1>1. /\ \A n \in 0..Len(s) : kept[n] \in Seq(X \cap S)
      /\ kept[0] = <<>>
      /\ \A n \in 1..Len(s) :
            kept[n] = IF s[n] \in S THEN Append(kept[n - 1], s[n]) ELSE kept[n - 1]
  <2>1. (\A n \in 0..Len(s) : kept[n] \in Seq(X \cap S)) /\ KeptGrows(s, S)
    BY KeptUpToDefined
  <2> QED
    BY <2>1 DEF KeptGrows
<1>2. Len(s) \in Nat /\ \A n \in 1..Len(s) : s[n] \in X
  OBVIOUS
<1> HIDE DEF kept
<1> DEFINE T == {n \in 0..Len(s) : \E place : KeepsAt(place, kept[n], n, s, S)}
<1>3. 0 \in T
  <2>1. KeepsAt([k \in {} |-> 0], kept[0], 0, s, S)
    BY <1>1 DEF KeepsAt
  <2> QED
    BY <1>2, <2>1
<1>4. ASSUME NEW n \in 1..Len(s), n - 1 \in T PROVE n \in T
  <2> DEFINE q == kept[n - 1]
  <2>1. PICK place : KeepsAt(place, q, n - 1, s, S)
    BY <1>4
  <2>2. q \in Seq(X \cap S) /\ Len(q) \in Nat /\ n \in 0..Len(s)
    <3>1. n - 1 \in 0..Len(s) /\ n \in 0..Len(s)
      BY <1>2
    <3>2. q \in Seq(X \cap S)
      BY <1>1, <3>1
    <3> HIDE DEF q
    <3> QED
      BY <3>1, <3>2
  <2>3. kept[n] = IF s[n] \in S THEN Append(q, s[n]) ELSE q
    BY <1>1
  <2> HIDE DEF q
  <2>4. CASE s[n] \notin S
    <3>1. KeepsAt(place, q, n, s, S)
      BY <1>2, <2>1, <2>2, <2>4 DEF KeepsAt
    <3> QED
      BY <2>2, <2>3, <2>4, <3>1
  <2>5. CASE s[n] \in S
    <3> DEFINE r == Append(q, s[n])
               next == [k \in 1..Len(r) |-> IF k = Len(r) THEN n ELSE place[k]]
    <3>1. /\ Len(r) = Len(q) + 1 /\ r[Len(r)] = s[n]
          /\ \A k \in 1..Len(q) : r[k] = q[k]
      BY <1>2, <2>2, <2>5
    <3> HIDE DEF r
    <3>2. /\ next[Len(r)] = n
          /\ \A k \in 1..Len(q) : next[k] = place[k] /\ place[k] \in 1..(n - 1)
      BY <2>1, <2>2, <3>1 DEF KeepsAt
    <3>3. next \in [1..Len(r) -> 1..n]
      BY <2>1, <2>2, <3>1 DEF KeepsAt
    <3> HIDE DEF next
    <3>4. \A j, k \in 1..Len(r) : j < k => next[j] < next[k]
      <4> SUFFICES ASSUME NEW j \in 1..Len(r), NEW k \in 1..Len(r), j < k
                   PROVE  next[j] < next[k]
        OBVIOUS
      <4>1. j \in 1..Len(q)
        BY <2>2, <3>1
      <4>2. CASE k = Len(r)
        BY <3>2, <4>1, <4>2
      <4>3. CASE k \in 1..Len(q)
        BY <2>1, <3>2, <4>1, <4>3 DEF KeepsAt
      <4> QED
        BY <2>2, <3>1, <4>2, <4>3
    <3>5. \A k \in 1..Len(r) : r[k] = s[next[k]] /\ r[k] \in S
      <4> SUFFICES ASSUME NEW k \in 1..Len(r)
                   PROVE  r[k] = s[next[k]] /\ r[k] \in S
        OBVIOUS
      <4>1. CASE k = Len(r)
        BY <2>5, <3>1, <3>2, <4>1
      <4>2. CASE k \in 1..Len(q)
        BY <2>1, <3>1, <3>2, <4>2 DEF KeepsAt
      <4> QED
        BY <2>2, <3>1, <4>1, <4>2
    <3>6. \A m \in 1..n : s[m] \in S => \E k \in 1..Len(r) : next[k] = m
      <4> SUFFICES ASSUME NEW m \in 1..n, s[m] \in S
                   PROVE  \E k \in 1..Len(r) : next[k] = m
        OBVIOUS
      <4>1. CASE m = n
        BY <2>2, <3>1, <3>2, <4>1
      <4>2. CASE m \in 1..(n - 1)
        <5>1. PICK k \in 1..Len(q) : place[k] = m
          BY <2>1, <4>2 DEF KeepsAt
        <5>2. k \in 1..Len(r)
          BY <2>2, <3>1
        <5> QED
          BY <3>2, <5>1, <5>2
      <4> QED
        BY <4>1, <4>2
    <3>7. KeepsAt(next, r, n, s, S)
      BY <3>3, <3>4, <3>5, <3>6 DEF KeepsAt
    <3> QED
      BY <2>2, <2>3, <2>5, <3>7 DEF r
  <2> QED
    BY <2>4, <2>5
<1> HIDE DEF T
<1>5. \A n \in 0..Len(s) : n \in T
  BY <1>2, <1>3, <1>4, UpwardClosed
<1>6. Len(s) \in T
  BY <1>2, <1>5
<1> QED
  BY <1>6 DEF T, Kept, kept

(* The n elements of s that follow the first a. *)
Stretch(s, a, n) == [k \in 1..n |-> s[a + k]]

(* If exactly the elements from the one after a up to b are in the set,    *)
(* the selection is that stretch of the list.                              *)
LEMMA KeptStretch ==
  ASSUME NEW X, NEW s \in Seq(X), NEW S, NEW a \in Nat, NEW b \in Nat,
         a <= b, b <= Len(s),
         \A n \in 1..Len(s) : s[n] \in S <=> a < n /\ n <= b
  PROVE  Kept(s, S) = Stretch(s, a, b - a)
<1> DEFINE kept == KeptUpTo(s, S)
           Done(n) == IF n <= a THEN 0 ELSE IF n <= b THEN n - a ELSE b - a
           Part(m) == [k \in 1..m |-> s[a + k]]
           T == {n \in 0..Len(s) : kept[n] = Part(Done(n))}
<1>1. /\ kept[0] = <<>>
      /\ \A n \in 1..Len(s) :
            kept[n] = IF s[n] \in S THEN Append(kept[n - 1], s[n]) ELSE kept[n - 1]
  <2>1. KeptGrows(s, S)
    BY KeptUpToDefined
  <2> QED
    BY <2>1 DEF KeptGrows
<1>2. Len(s) \in Nat /\ \A n \in 1..Len(s) : s[n] \in X
  OBVIOUS
<1> HIDE DEF kept
<1>3. \A n \in 0..Len(s) : Done(n) \in Nat
  BY <1>2
<1>4. 0 \in T
  <2>1. Done(0) = 0
    OBVIOUS
  <2>2. Part(0) = <<>>
    OBVIOUS
  <2> HIDE DEF Done, Part
  <2> QED
    BY <1>1, <1>2, <2>1, <2>2
<1>5. ASSUME NEW n \in 1..Len(s), n - 1 \in T PROVE n \in T
  <2>1. kept[n - 1] = Part(Done(n - 1)) /\ n \in 0..Len(s)
    BY <1>2, <1>5
  <2>2. CASE s[n] \notin S
    <3>1. Done(n) = Done(n - 1)
      BY <1>2, <2>2
    <3>2. kept[n] = kept[n - 1]
      BY <1>1, <2>2
    <3> HIDE DEF Done, Part
    <3> QED
      BY <2>1, <3>1, <3>2
  <2>3. CASE s[n] \in S
    <3>1. /\ Done(n) = Done(n - 1) + 1
          /\ a + Done(n) = n
          /\ Done(n - 1) \in Nat
          /\ a + Done(n - 1) = n - 1
      BY <1>2, <2>3
    <3>2. kept[n] = Append(kept[n - 1], s[n])
      BY <1>1, <2>3
    <3> DEFINE m == Done(n - 1)
    <3> HIDE DEF Done
    <3>3. \A k \in 1..(m + 1) : s[a + k] \in X
      BY <1>2, <3>1
    <3>4. Part(m) \in Seq(X) /\ Len(Part(m)) = m
      BY <3>1, <3>3
    <3>5. Part(m + 1) = Append(Part(m), s[n])
      <4>1. Append(Part(m), s[n])
              = [k \in 1..(m + 1) |-> IF k = m + 1 THEN s[n] ELSE Part(m)[k]]
        BY <1>2, <3>1, <3>4
      <4>2. \A k \in 1..(m + 1) :
              (IF k = m + 1 THEN s[n] ELSE Part(m)[k]) = s[a + k]
        BY <3>1
      <4> QED
        BY <4>1, <4>2
    <3> HIDE DEF Part, m
    <3> QED
      BY <2>1, <3>1, <3>2, <3>5 DEF m
  <2> QED
    BY <2>2, <2>3
<1> HIDE DEF T
<1>6. \A n \in 0..Len(s) : n \in T
  BY <1>2, <1>4, <1>5, UpwardClosed
<1>7. Len(s) \in T
  BY <1>2, <1>6
<1>8. kept[Len(s)] = Part(Done(Len(s)))
  BY <1>7 DEF T
<1>9. Done(Len(s)) = b - a
  BY <1>2
<1> QED
  BY <1>8, <1>9 DEF Kept, kept, Stretch
=============================================================================
