------------------------------- MODULE Loops -------------------------------
(***************************************************************************)
(* Induction over the natural numbers and over the turns of a loop, for    *)
(* sets that are given: what the library's induction theorems say of an    *)
(* operator, said of sets and functions.                                   *)
(***************************************************************************)
EXTENDS Integers, FiniteSetTheorems, TLAPS

-----------------------------------------------------------------------------
(* Least elements, and induction over the natural numbers: a set of        *)
(* numbers has a least element because the finite sets 0 .. x are well     *)
(* founded under inclusion.                                                *)

LEMMA Least ==
  ASSUME NEW T \in SUBSET Nat, T # {}
  PROVE  \E x \in T : \A y \in T : x <= y
<1> DEFINE Below(x) == 0 .. x
           B == {Below(x) : x \in T}
<1>1. B \in SUBSET FiniteSubsetsOf(Nat) /\ B # {}
  <2>1. \A x \in T : IsFiniteSet(0 .. x)
    BY FS_Interval
  <2>2. \A x \in T : 0 .. x \in SUBSET Nat
    OBVIOUS
  <2>3. \A x \in T : 0 .. x \in FiniteSubsetsOf(Nat)
    BY <2>1, <2>2 DEF FiniteSubsetsOf
  <2> QED BY <2>3
<1> HIDE DEF B
<1>2. PICK b \in B : \A c \in B : ~ (<<c, b>> \in StrictSubsetOrdering(Nat))
  BY <1>1, FS_StrictSubsetOrderingWellFounded, WFMin
<1>3. PICK x \in T : b = 0 .. x
  BY DEF B
<1>4. ASSUME NEW y \in T, y < x PROVE FALSE
  <2>1. 0 .. y \subseteq b /\ 0 .. y # b
    <3>1. x \in Nat /\ y \in Nat
      OBVIOUS
    <3>2. x \in b /\ x \notin 0 .. y
      BY <3>1, <1>3, <1>4
    <3>3. \A z \in 0 .. y : z \in b
      BY <3>1, <1>3, <1>4
    <3> QED BY <3>2, <3>3
  <2>2. 0 .. y \in B /\ b \in SUBSET Nat /\ 0 .. y \in SUBSET Nat
    BY <1>3 DEF B
  <2>3. <<0 .. y, b>> \in StrictSubsetOrdering(Nat)
    BY <2>1, <2>2, Zenon DEF StrictSubsetOrdering
  <2> QED BY <1>2, <2>2, <2>3
<1> QED BY <1>4

\* Induction over a set of naturals that is given.
LEMMA NatSetInduction ==
  ASSUME NEW S, 0 \in S, \A n \in Nat : n \in S => n + 1 \in S
  PROVE  Nat \subseteq S
<1> DEFINE T == Nat \ S
<1>1. SUFFICES ASSUME T # {} PROVE FALSE
  OBVIOUS
<1>2. PICK x \in T : \A y \in T : x <= y
  BY <1>1, Least
<1>3. x # 0 /\ x - 1 \in Nat /\ x - 1 \notin T
  BY <1>2
<1> QED BY <1>3

LEMMA Recursion ==
  ASSUME NEW D, NEW b \in D, NEW step \in [D -> D]
  PROVE  \E f \in [Nat -> D] : f[0] = b /\ \A n \in Nat : f[n + 1] = step[f[n]]
<1> DEFINE Upto(g, n) == /\ g \in [Nat -> D] /\ g[0] = b
                         /\ \A k \in Nat : k < n => g[k + 1] = step[g[k]]
           S == {n \in Nat : \E g \in [Nat -> D] : Upto(g, n)}
           pick == [n \in Nat |-> CHOOSE g \in [Nat -> D] : Upto(g, n)]
           f == [n \in Nat |-> pick[n][n]]
<1>1. Nat \subseteq S
  <2>1. 0 \in S
    <3>1. Upto([n \in Nat |-> b], 0)
      OBVIOUS
    <3> QED BY <3>1
  <2>2. ASSUME NEW n \in Nat, n \in S PROVE n + 1 \in S
    <3>1. PICK g \in [Nat -> D] : Upto(g, n)
      BY <2>2
    <3> DEFINE h == [g EXCEPT ![n + 1] = step[g[n]]]
    <3>2. h \in [Nat -> D] /\ h[n + 1] = step[g[n]] /\ \A k \in Nat : k # n + 1 => h[k] = g[k]
      BY <3>1
    <3> HIDE DEF h
    <3>3. ASSUME NEW k \in Nat, k < n + 1 PROVE h[k + 1] = step[h[k]]
      <4>1. CASE k = n
        BY <3>2, <4>1
      <4>2. CASE k < n
        <5>1. k # n + 1 /\ k + 1 # n + 1
          BY <4>2
        <5> QED BY <3>1, <3>2, <4>2, <5>1
      <4> QED BY <3>3, <4>1, <4>2
    <3>4. h[0] = b
      BY <3>1, <3>2
    <3>5. Upto(h, n + 1)
      BY <3>2, <3>3, <3>4
    <3> QED BY <3>2, <3>5
  <2> HIDE DEF S
  <2> QED BY <2>1, <2>2, NatSetInduction
<1>2. ASSUME NEW n \in Nat, NEW g, NEW h, NEW m \in Nat, NEW l \in Nat,
             Upto(g, m), Upto(h, l), n <= m, n <= l
      PROVE  g[n] = h[n]
  <2> DEFINE E == {k \in Nat : k <= m /\ k <= l => g[k] = h[k]}
  <2>1. 0 \in E
    BY <1>2
  <2>2. ASSUME NEW k \in Nat, k \in E PROVE k + 1 \in E
    <3> SUFFICES ASSUME k + 1 <= m, k + 1 <= l PROVE g[k + 1] = h[k + 1]
      OBVIOUS
    <3>1. k < m /\ k < l
      OBVIOUS
    <3>2. g[k] = h[k]
      BY <2>2, <3>1
    <3> QED BY <1>2, <3>1, <3>2
  <2> HIDE DEF E
  <2>3. Nat \subseteq E
    BY <2>1, <2>2, NatSetInduction
  <2> QED BY <1>2, <2>3 DEF E
<1>3. \A n \in Nat : pick[n] \in [Nat -> D] /\ Upto(pick[n], n)
  <2> SUFFICES ASSUME NEW n \in Nat PROVE pick[n] \in [Nat -> D] /\ Upto(pick[n], n)
    OBVIOUS
  <2>1. \E g \in [Nat -> D] : Upto(g, n)
    BY <1>1
  <2>2. pick[n] = CHOOSE g \in [Nat -> D] : Upto(g, n)
    OBVIOUS
  <2> HIDE DEF Upto, pick
  <2> QED BY <2>1, <2>2
<1>4. f \in [Nat -> D] /\ f[0] = b
  <2> HIDE DEF pick
  <2>1. \A n \in Nat : pick[n][n] \in D
    BY <1>3
  <2>2. pick[0][0] = b
    BY <1>3
  <2> QED BY <2>1, <2>2
<1>5. ASSUME NEW n \in Nat PROVE f[n + 1] = step[f[n]]
  <2>1. n + 1 \in Nat /\ n < n + 1 /\ n <= n /\ n <= n + 1
    OBVIOUS
  <2>2. pick[n + 1][n + 1] = step[pick[n + 1][n]]
    BY <1>3, <2>1
  <2>3. pick[n + 1][n] = pick[n][n]
    <3> HIDE DEF Upto, pick
    <3> QED BY <1>2, <1>3, <2>1
  <2> QED BY <2>1, <2>2, <2>3
<1> HIDE DEF f
<1> QED BY <1>4, <1>5

\* A step that leads from each I[n] to I[n + 1] keeps a function in them.
LEMMA Along ==
  ASSUME NEW I, NEW f, f[0] \in I[0], \A n \in Nat : f[n] \in I[n] => f[n + 1] \in I[n + 1]
  PROVE  \A n \in Nat : f[n] \in I[n]
<1> DEFINE S == {n \in Nat : f[n] \in I[n]}
<1>1. 0 \in S /\ \A n \in Nat : n \in S => n + 1 \in S
  OBVIOUS
<1> HIDE DEF S
<1>2. Nat \subseteq S
  BY <1>1, NatSetInduction
<1> QED BY <1>2 DEF S

\* The n-th turn of the loop leads from I[n] to I[n + 1].
Keeps(I, base, go) == base \in I[0] /\ \A n \in Nat : \A x \in I[n] : go[<<n, x>>] \in I[n + 1]

\* A loop whose turn depends on how many there were exists, and its state stays in
\* what each turn keeps.
LEMMA CountedRecursion ==
  ASSUME NEW I, NEW base, NEW go, Keeps(I, base, go)
  PROVE  \E f : /\ f = [n \in Nat |-> f[n]] /\ f[0] = base
                /\ \A n \in Nat : f[n + 1] = go[<<n, f[n]>>] /\ f[n] \in I[n]
<1> DEFINE Counted == UNION {{<<n, x>> : x \in I[n]} : n \in Nat}
           turn == [p \in Counted |-> <<p[1] + 1, go[p]>>]
<1>1. <<0, base>> \in Counted
  BY DEF Keeps
<1>2. ASSUME NEW p \in Counted PROVE turn[p] \in Counted /\ turn[p] = <<p[1] + 1, go[p]>>
  <2>1. PICK n \in Nat : p \in {<<n, x>> : x \in I[n]}
    OBVIOUS
  <2>2. PICK x \in I[n] : p = <<n, x>>
    BY <2>1
  <2>3. turn[p] = <<n + 1, go[<<n, x>>]>>
    BY <2>2
  <2>4. n + 1 \in Nat /\ go[<<n, x>>] \in I[n + 1]
    BY DEF Keeps
  <2> QED BY <2>2, <2>3, <2>4
<1>3. turn \in [Counted -> Counted]
  BY <1>2
<1> HIDE DEF Counted, turn
<1>4. PICK g \in [Nat -> Counted] : g[0] = <<0, base>> /\ \A n \in Nat : g[n + 1] = turn[g[n]]
  <2> DEFINE first == <<0, base>>
  <2>1. first \in Counted
    BY <1>1
  <2> HIDE DEF first
  <2>2. \E g \in [Nat -> Counted] : g[0] = first /\ \A n \in Nat : g[n + 1] = turn[g[n]]
    BY <1>3, <2>1, Recursion
  <2> QED BY <2>2 DEF first
<1> DEFINE f == [n \in Nat |-> g[n][2]]
           S == {n \in Nat : g[n] = <<n, g[n][2]>> /\ g[n][2] \in I[n]}
<1>5. Nat \subseteq S
  <2>1. 0 \in S
    BY <1>4 DEF Keeps
  <2>2. ASSUME NEW n \in Nat, n \in S PROVE n + 1 \in S
    <3>1. g[n] = <<n, g[n][2]>> /\ g[n][2] \in I[n]
      BY <2>2
    <3>2. g[n + 1] = <<n + 1, go[<<n, g[n][2]>>]>>
      <4>1. g[n] \in Counted /\ g[n + 1] = turn[g[n]]
        BY <1>4
      <4>2. turn[g[n]] = <<g[n][1] + 1, go[g[n]]>>
        BY <1>2, <4>1
      <4>3. g[n][1] = n
        BY <3>1
      <4> QED BY <3>1, <4>1, <4>2, <4>3, Zenon
    <3>3. go[<<n, g[n][2]>>] \in I[n + 1]
      BY <3>1 DEF Keeps
    <3> QED BY <3>2, <3>3
  <2> HIDE DEF S
  <2> QED BY <2>1, <2>2, NatSetInduction
<1>6. f[0] = base /\ f = [n \in Nat |-> f[n]]
  BY <1>4
<1>7. ASSUME NEW n \in Nat PROVE f[n + 1] = go[<<n, f[n]>>] /\ f[n] \in I[n]
  <2>1. g[n] = <<n, g[n][2]>> /\ g[n][2] \in I[n] /\ f[n] = g[n][2] /\ f[n + 1] = g[n + 1][2]
    BY <1>5
  <2>2. g[n + 1] = <<n + 1, go[g[n]]>>
    <3>1. g[n + 1] = <<g[n][1] + 1, go[g[n]]>>
      BY <1>2, <1>4
    <3> QED BY <2>1, <3>1
  <2> QED BY <2>1, <2>2
<1> HIDE DEF f
<1> QED BY <1>6, <1>7

\* The same of a loop that takes N turns.
KeepsUpto(N, I, base, go) ==
  base \in I[0] /\ \A n \in 0 .. N - 1 : \A x \in I[n] : go[<<n, x>>] \in I[n + 1]

LEMMA BoundedRecursion ==
  ASSUME NEW N \in Nat, NEW I, NEW base, NEW go, KeepsUpto(N, I, base, go)
  PROVE  \E f : /\ f = [n \in 0 .. N |-> f[n]] /\ f[0] = base
                /\ \A n \in 0 .. N : f[n] \in I[n]
                /\ \A n \in 0 .. N - 1 : f[n + 1] = go[<<n, f[n]>>]
<1> DEFINE J == [n \in Nat |-> IF n <= N THEN I[n] ELSE I[N]]
           Stages == UNION {{<<n, x>> : x \in J[n]} : n \in Nat}
           on == [p \in Stages |-> IF p[1] < N THEN go[p] ELSE p[2]]
<1>1. base \in J[0]
  BY DEF KeepsUpto
<1>2. ASSUME NEW n \in Nat, NEW x \in J[n]
      PROVE  /\ on[<<n, x>>] = IF n < N THEN go[<<n, x>>] ELSE x
             /\ on[<<n, x>>] \in J[n + 1]
  <2>1. <<n, x>> \in Stages
    OBVIOUS
  <2>2. on[<<n, x>>] = IF n < N THEN go[<<n, x>>] ELSE x
    BY <2>1
  <2>3. CASE n < N
    <3>1. n \in 0 .. N - 1 /\ x \in I[n]
      BY <2>3
    <3>2. go[<<n, x>>] \in I[n + 1]
      BY <3>1 DEF KeepsUpto
    <3> QED BY <2>2, <2>3, <3>2
  <2>4. CASE ~(n < N)
    <3>1. J[n] = I[N] /\ J[n + 1] = I[N]
      BY <2>4
    <3> HIDE DEF J
    <3> QED BY <2>2, <2>4, <3>1
  <2> QED BY <2>2, <2>3, <2>4
<1> HIDE DEF on, Stages
<1>3. Keeps(J, base, on)
  <2> HIDE DEF J
  <2> QED BY <1>1, <1>2 DEF Keeps
<1>4. PICK g : /\ g = [n \in Nat |-> g[n]] /\ g[0] = base
               /\ \A n \in Nat : g[n + 1] = on[<<n, g[n]>>] /\ g[n] \in J[n]
  <2> HIDE DEF J
  <2> QED BY <1>3, CountedRecursion
<1> DEFINE f == [n \in 0 .. N |-> g[n]]
<1>5. f = [n \in 0 .. N |-> f[n]] /\ f[0] = base
  BY <1>4
<1>6. \A n \in 0 .. N : f[n] = g[n] /\ f[n] \in I[n]
  <2> SUFFICES ASSUME NEW n \in 0 .. N PROVE f[n] = g[n] /\ f[n] \in I[n]
    OBVIOUS
  <2>1. n \in Nat /\ n <= N
    OBVIOUS
  <2>2. g[n] \in J[n]
    <3> HIDE DEF J
    <3> QED BY <1>4, <2>1
  <2> QED BY <2>1, <2>2
<1>7. ASSUME NEW n \in 0 .. N - 1 PROVE f[n + 1] = go[<<n, f[n]>>]
  <2>1. n \in Nat /\ n < N /\ n + 1 \in 0 .. N /\ n \in 0 .. N
    OBVIOUS
  <2>2. g[n] \in J[n]
    BY <1>4, <2>1
  <2>3. g[n + 1] = go[<<n, g[n]>>]
    <3> HIDE DEF J
    <3> QED BY <1>2, <1>4, <2>1, <2>2
  <2> QED BY <1>6, <2>1, <2>3
<1> HIDE DEF f
<1> QED BY <1>5, <1>6, <1>7
=============================================================================
