--------------------------- MODULE GeneratorProofs --------------------------
(***************************************************************************)
(* Proofs about the generator, for every number of pages and jobs, every   *)
(* page size, batch size, draft depth and prompt: types, exact reference   *)
(* counts, unique hashes, no starving allocation and no write to a shared  *)
(* page.  The inductive invariant is IInv.                                 *)
(***************************************************************************)
EXTENDS Generator, Loops, SequenceTheorems

-----------------------------------------------------------------------------
(* Sequences without repetition.                                           *)

Injective(s) == \A i, k \in DOMAIN s : s[i] = s[k] => i = k

\* The empty sequence has no elements.
LEMMA ToSetEmpty ==
  /\ ToSet(<<>>) = {} /\ Injective(<<>>)
  /\ \A S : \A s \in Seq(S) : ToSet(s) = {} <=> s = <<>>
<1>1. \A S : \A s \in Seq(S) : ToSet(s) = {} <=> s = <<>>
  <2> SUFFICES ASSUME NEW S, NEW s \in Seq(S) PROVE ToSet(s) = {} <=> s = <<>>
    OBVIOUS
  <2>1. s # <<>> => 1 \in DOMAIN s
    OBVIOUS
  <2> QED BY <2>1 DEF ToSet
<1> QED BY <1>1 DEF ToSet, Injective

\* Append adds one element and keeps a sequence without repetition so.
LEMMA SeqAppend ==
  ASSUME NEW S, NEW s \in Seq(S), NEW x \in S
  PROVE  /\ Append(s, x) \in Seq(S)
         /\ ToSet(Append(s, x)) = ToSet(s) \cup {x}
         /\ Injective(s) /\ x \notin ToSet(s) => Injective(Append(s, x))
         /\ Last(Append(s, x)) = x /\ Append(s, x) # <<>>
<1> DEFINE t == Append(s, x)
<1>1. /\ t \in Seq(S) /\ Len(t) = Len(s) + 1 /\ DOMAIN t = 1 .. Len(s) + 1
      /\ \A i \in 1 .. Len(s) : t[i] = s[i]
      /\ t[Len(s) + 1] = x /\ DOMAIN s = 1 .. Len(s)
  OBVIOUS
<1> HIDE DEF t
<1>2. ToSet(t) = ToSet(s) \cup {x}
  BY <1>1 DEF ToSet
<1>3. Injective(s) /\ x \notin ToSet(s) => Injective(t)
  BY <1>1 DEF ToSet, Injective
<1> QED BY <1>1, <1>2, <1>3 DEF Last, t

\* Tail loses the first element.
LEMMA SeqTail ==
  ASSUME NEW S, NEW s \in Seq(S), s # <<>>
  PROVE  /\ s[1] \in ToSet(s) /\ s[1] \in S /\ Tail(s) \in Seq(S)
         /\ ToSet(Tail(s)) \subseteq ToSet(s)
         /\ Injective(s) => Injective(Tail(s)) /\ ToSet(Tail(s)) = ToSet(s) \ {s[1]}
<1> DEFINE t == Tail(s)
<1>1. /\ t \in Seq(S) /\ Len(t) = Len(s) - 1 /\ DOMAIN t = 1 .. Len(s) - 1
      /\ \A i \in 1 .. Len(s) - 1 : t[i] = s[i + 1]
      /\ DOMAIN s = 1 .. Len(s) /\ Len(s) \in Nat \ {0}
  OBVIOUS
<1> HIDE DEF t
<1>2. ToSet(t) \subseteq ToSet(s) /\ s[1] \in ToSet(s)
  BY <1>1 DEF ToSet
<1>3. ASSUME Injective(s) PROVE Injective(t) /\ ToSet(t) = ToSet(s) \ {s[1]}
  <2>1. Injective(t)
    BY <1>1, <1>3 DEF Injective
  <2>2. s[1] \notin ToSet(t)
    BY <1>1, <1>3 DEF Injective, ToSet
  <2>3. ASSUME NEW y \in ToSet(s), y # s[1] PROVE y \in ToSet(t)
    <3>1. PICK i \in 1 .. Len(s) : y = s[i]
      BY <1>1 DEF ToSet
    <3>2. i - 1 \in 1 .. Len(s) - 1 /\ t[i - 1] = y
      BY <1>1, <2>3, <3>1
    <3> QED BY <1>1, <3>2 DEF ToSet
  <2> QED BY <1>2, <2>1, <2>2, <2>3
<1> QED BY <1>1, <1>2, <1>3 DEF t

\* list.remove loses the one occurrence of an element.
LEMMA SeqWithout ==
  ASSUME NEW S, NEW s \in Seq(S), NEW x \in ToSet(s), Injective(s)
  PROVE  /\ Without(s, x) \in Seq(S) /\ Injective(Without(s, x))
         /\ ToSet(Without(s, x)) = ToSet(s) \ {x}
         /\ Len(Without(s, x)) = Len(s) - 1
<1> DEFINE i == CHOOSE n \in DOMAIN s : s[n] = x
           t == Without(s, x)
<1>1. i \in 1 .. Len(s) /\ s[i] = x
  BY DEF ToSet
<1>2. t = SubSeq(s, 1, i - 1) \o SubSeq(s, i + 1, Len(s))
  BY DEF Without, RemoveAt
<1> HIDE DEF i, t
<1>3. /\ t \in Seq(S) /\ Len(t) = Len(s) - 1 /\ DOMAIN t = 1 .. Len(s) - 1
      /\ \A n \in 1 .. Len(s) - 1 : t[n] = IF n < i THEN s[n] ELSE s[n + 1]
  <2> DEFINE a == SubSeq(s, 1, i - 1)
             b == SubSeq(s, i + 1, Len(s))
  <2>1. /\ a \in Seq(S) /\ Len(a) = i - 1 /\ \A n \in 1 .. i - 1 : a[n] = s[n]
        /\ b \in Seq(S) /\ Len(b) = Len(s) - i /\ \A n \in 1 .. Len(s) - i : b[n] = s[n + i]
    BY <1>1
  <2> HIDE DEF a, b
  <2>2. t = a \o b
    BY <1>2 DEF a, b
  <2>3. /\ t \in Seq(S) /\ Len(t) = Len(a) + Len(b)
        /\ \A n \in 1 .. Len(a) + Len(b) : t[n] = IF n <= Len(a) THEN a[n] ELSE b[n - Len(a)]
    BY <2>1, <2>2, ConcatProperties
  <2>4. Len(t) = Len(s) - 1 /\ DOMAIN t = 1 .. Len(s) - 1
    BY <1>1, <2>1, <2>3
  <2>5. ASSUME NEW n \in 1 .. Len(s) - 1 PROVE t[n] = IF n < i THEN s[n] ELSE s[n + 1]
    <3>1. n <= i - 1 <=> n < i
      BY <1>1
    <3>2. n >= i => n - (i - 1) \in 1 .. Len(s) - i /\ (n - (i - 1)) + i = n + 1
      BY <1>1
    <3>3. t[n] = IF n <= i - 1 THEN a[n] ELSE b[n - (i - 1)]
      BY <1>1, <2>1, <2>3
    <3>4. n < i => n \in 1 .. i - 1
      BY <1>1
    <3>5. CASE n < i
      BY <2>1, <3>1, <3>3, <3>4, <3>5
    <3>6. CASE n >= i
      <4>1. t[n] = b[n - (i - 1)]
        BY <1>1, <3>1, <3>3, <3>6
      <4> QED BY <1>1, <2>1, <3>2, <3>6, <4>1
    <3> QED BY <1>1, <3>5, <3>6
  <2> QED BY <2>3, <2>4, <2>5
<1>4. Injective(t)
  <2> SUFFICES ASSUME NEW a \in 1 .. Len(s) - 1, NEW b \in 1 .. Len(s) - 1, t[a] = t[b] PROVE a = b
    BY <1>3 DEF Injective
  <2> DEFINE A == IF a < i THEN a ELSE a + 1
             B == IF b < i THEN b ELSE b + 1
  <2>1. A \in DOMAIN s /\ B \in DOMAIN s /\ s[A] = s[B]
    BY <1>1, <1>3
  <2>2. A = B
    BY <2>1 DEF Injective
  <2> QED BY <1>1, <2>2
<1>5. ToSet(t) \subseteq ToSet(s) \ {x}
  <2> SUFFICES ASSUME NEW a \in 1 .. Len(s) - 1 PROVE t[a] \in ToSet(s) /\ t[a] # x
    BY <1>3 DEF ToSet
  <2> DEFINE A == IF a < i THEN a ELSE a + 1
  <2>1. A \in DOMAIN s /\ A # i /\ t[a] = s[A]
    BY <1>1, <1>3
  <2> QED BY <1>1, <2>1 DEF Injective, ToSet
<1>6. ASSUME NEW y \in ToSet(s), y # x PROVE y \in ToSet(t)
  <2>1. PICK n \in 1 .. Len(s) : y = s[n]
    BY DEF ToSet
  <2> DEFINE m == IF n < i THEN n ELSE n - 1
  <2>2. m \in 1 .. Len(s) - 1 /\ t[m] = y
    BY <1>1, <1>3, <1>6, <2>1
  <2> QED BY <1>3, <2>2 DEF ToSet
<1> QED BY <1>3, <1>4, <1>5, <1>6 DEF t

-----------------------------------------------------------------------------
(* The loops of get_input_ids_list and reject_remainder: what every turn   *)
(* passes on to the next one holds at the end.                             *)

IsFedRun(j, b, f) == f = [n \in Nat |-> IF n = 0 THEN b ELSE Put(j, f[n - 1])]
IsRejectedRun(pages, pos, b, f) ==
  f = [n \in Nat |-> IF n = 0 THEN b ELSE Cut(pages, pos, f[n - 1])]

\* get_input_ids_list, as the recursive function of its writes, exists.
LEMMA FedRun ==
  ASSUME NEW I, NEW b \in I, NEW j, \A x \in I : Put(j, x) \in I
  PROVE  \E f : IsFedRun(j, b, f)
<1> DEFINE step == [x \in I |-> Put(j, x)]
<1>1. step \in [I -> I]
  OBVIOUS
<1> HIDE DEF step
<1>2. PICK f \in [Nat -> I] : f[0] = b /\ \A n \in Nat : f[n + 1] = step[f[n]]
  BY <1>1, Recursion
<1>3. ASSUME NEW n \in Nat PROVE f[n] = IF n = 0 THEN b ELSE Put(j, f[n - 1])
  <2>1. CASE n = 0
    BY <1>2, <2>1
  <2>2. CASE n # 0
    <3>1. n - 1 \in Nat /\ (n - 1) + 1 = n
      BY <2>2
    <3> QED BY <1>2, <2>2, <3>1 DEF step
  <2> QED BY <2>1, <2>2
<1>4. IsFedRun(j, b, f)
  BY <1>2, <1>3 DEF IsFedRun
<1> QED BY <1>4

\* reject_remainder, as the recursive function of its turns, exists.
LEMMA RejectedRun ==
  ASSUME NEW I, NEW b \in I, NEW pages, NEW pos, \A x \in I : Cut(pages, pos, x) \in I
  PROVE  \E f : IsRejectedRun(pages, pos, b, f)
<1> DEFINE step == [x \in I |-> Cut(pages, pos, x)]
<1>1. step \in [I -> I]
  OBVIOUS
<1> HIDE DEF step
<1>2. PICK f \in [Nat -> I] : f[0] = b /\ \A n \in Nat : f[n + 1] = step[f[n]]
  BY <1>1, Recursion
<1>3. ASSUME NEW n \in Nat PROVE f[n] = IF n = 0 THEN b ELSE Cut(pages, pos, f[n - 1])
  <2>1. CASE n = 0
    BY <1>2, <2>1
  <2>2. CASE n # 0
    <3>1. n - 1 \in Nat /\ (n - 1) + 1 = n
      BY <2>2
    <3> QED BY <1>2, <2>2, <3>1 DEF step
  <2> QED BY <2>1, <2>2
<1>4. IsRejectedRun(pages, pos, b, f)
  BY <1>2, <1>3 DEF IsRejectedRun
<1> QED BY <1>4

\* What every write of get_input_ids_list keeps holds of the result.
LEMMA FedLoop ==
  ASSUME NEW I, NEW j, NEW row, Len(row) \in Nat,
         [t |-> table, at |-> job[j].kvp, rest |-> row] \in I[0],
         \A n \in Nat : \A x \in I[n] : Put(j, x) \in I[n + 1]
  PROVE  \E x \in I[Len(row)] : Fed(j, row) = x.t
<1> DEFINE b == [t |-> table, at |-> job[j].kvp, rest |-> row]
           w == CHOOSE f : IsFedRun(j, b, f)
<1>1. IsFedRun(j, b, w)
  <2>1. \E f : IsFedRun(j, b, f)
    <3> DEFINE D == UNION {I[n] : n \in Nat}
    <3>1. b \in D
      OBVIOUS
    <3>2. ASSUME NEW x \in D PROVE Put(j, x) \in D
      <4>1. PICK n \in Nat : x \in I[n]
        OBVIOUS
      <4>2. n + 1 \in Nat /\ Put(j, x) \in I[n + 1]
        BY <4>1
      <4> QED BY <4>2
    <3> HIDE DEF b, w, D
    <3> QED BY <3>1, <3>2, FedRun
  <2> QED BY <2>1
<1>2. Fed(j, row) = w[Len(row)].t
  BY DEF Fed, IsFedRun
<1> HIDE DEF w
<1>3. w[0] \in I[0]
  BY <1>1 DEF IsFedRun
<1>4. ASSUME NEW n \in Nat, w[n] \in I[n] PROVE w[n + 1] \in I[n + 1]
  <2>1. n + 1 \in Nat /\ n + 1 # 0 /\ (n + 1) - 1 = n
    OBVIOUS
  <2>2. w[n + 1] = Put(j, w[n])
    <3> HIDE DEF b
    <3> QED BY <1>1, <2>1 DEF IsFedRun
  <2> QED BY <1>4, <2>2
<1>5. w[Len(row)] \in I[Len(row)]
  BY <1>3, <1>4, Along
<1> QED BY <1>2, <1>5

\* What every turn of reject_remainder keeps holds of the result.
LEMMA RejectedLoop ==
  ASSUME NEW I, NEW t, NEW pages, NEW pos, NEW r \in Nat,
         [t |-> t, r |-> r] \in I[0],
         \A n \in Nat : \A x \in I[n] : Cut(pages, pos, x) \in I[n + 1]
  PROVE  \E x \in I[r] : Rejected(t, pages, pos, r) = x.t
<1> DEFINE b == [t |-> t, r |-> r]
           w == CHOOSE f : IsRejectedRun(pages, pos, b, f)
<1>1. IsRejectedRun(pages, pos, b, w)
  <2>1. \E f : IsRejectedRun(pages, pos, b, f)
    <3> DEFINE D == UNION {I[n] : n \in Nat}
    <3>1. b \in D
      OBVIOUS
    <3>2. ASSUME NEW x \in D PROVE Cut(pages, pos, x) \in D
      <4>1. PICK n \in Nat : x \in I[n]
        OBVIOUS
      <4>2. n + 1 \in Nat /\ Cut(pages, pos, x) \in I[n + 1]
        BY <4>1
      <4> QED BY <4>2
    <3> HIDE DEF b, w, D
    <3> QED BY <3>1, <3>2, RejectedRun
  <2> QED BY <2>1
<1>2. Rejected(t, pages, pos, r) = w[r].t
  BY DEF Rejected, IsRejectedRun
<1> HIDE DEF w
<1>3. w[0] \in I[0]
  BY <1>1 DEF IsRejectedRun
<1>4. ASSUME NEW n \in Nat, w[n] \in I[n] PROVE w[n + 1] \in I[n + 1]
  <2>1. n + 1 \in Nat /\ n + 1 # 0 /\ (n + 1) - 1 = n
    OBVIOUS
  <2>2. w[n + 1] = Cut(pages, pos, w[n])
    <3> HIDE DEF b
    <3> QED BY <1>1, <2>1 DEF IsRejectedRun
  <2> QED BY <1>4, <2>2
<1>5. w[r] \in I[r]
  BY <1>3, <1>4, Along
<1> QED BY <1>2, <1>5

-----------------------------------------------------------------------------
(* Pages and positions.                                                    *)

LEMMA DivDef ==
  ASSUME NEW n \in Nat
  PROVE  /\ n \div PageSize \in Nat /\ n % PageSize \in 0 .. PageSize - 1
         /\ n = PageSize * (n \div PageSize) + (n % PageSize)
BY PageTableAssumption
\* Multiples of the page size are ordered as their factors.
LEMMA MultMono ==
  ASSUME NEW a \in Nat, NEW b \in Nat
  PROVE  /\ a * PageSize \in Nat
         /\ a < b => a * PageSize + PageSize <= b * PageSize
         /\ a <= b => a * PageSize <= b * PageSize
         /\ (a + 1) * PageSize = a * PageSize + PageSize
         /\ PageSize * a = a * PageSize
         /\ a * PageSize < b * PageSize + PageSize => a <= b
         /\ a <= a * PageSize
<1>1. a < b => a * PageSize + PageSize <= b * PageSize
  <2>1. a < b => (b - a - 1) \in Nat /\ b * PageSize = a * PageSize + PageSize + (b - a - 1) * PageSize
    BY PageTableAssumption
  <2>2. a < b => (b - a - 1) * PageSize >= 0
    BY <2>1, PageTableAssumption
  <2> QED BY <2>1, <2>2, PageTableAssumption
<1>2. a <= b => a * PageSize <= b * PageSize
  BY <1>1, PageTableAssumption
<1>3. a * PageSize < b * PageSize + PageSize => a <= b
  <2>1. b < a => b * PageSize + PageSize <= a * PageSize
    <3>1. b < a => (a - b - 1) \in Nat /\ a * PageSize = b * PageSize + PageSize + (a - b - 1) * PageSize
      BY PageTableAssumption
    <3>2. b < a => (a - b - 1) * PageSize >= 0
      BY <3>1, PageTableAssumption
    <3> QED BY <3>1, <3>2, PageTableAssumption
  <2> QED BY <2>1, PageTableAssumption
<1>4. a <= a * PageSize
  BY PageTableAssumption
<1> QED BY <1>1, <1>2, <1>3, <1>4, PageTableAssumption
\* Which page a position is in, and which pages end before it.
LEMMA DivBounds ==
  ASSUME NEW n \in Nat
  PROVE  /\ n \div PageSize \in Nat /\ n % PageSize \in 0 .. PageSize - 1
         /\ n = (n \div PageSize) * PageSize + (n % PageSize)
         /\ \A k \in Nat : k * PageSize <= n <=> k <= n \div PageSize
         /\ \A k \in Nat : n < k * PageSize <=> n \div PageSize < k
<1> DEFINE q == n \div PageSize
           r == n % PageSize
<1>1. q \in Nat /\ r \in 0 .. PageSize - 1 /\ n = q * PageSize + r
  BY DivDef, PageTableAssumption
<1> HIDE DEF q, r
<1>2. ASSUME NEW k \in Nat PROVE k * PageSize <= n <=> k <= q
  <2>1. k <= q => k * PageSize <= q * PageSize
    BY <1>1, MultMono
  <2>2. k * PageSize < q * PageSize + PageSize => k <= q
    BY <1>1, MultMono
  <2>3. k * PageSize \in Nat /\ q * PageSize \in Nat
    BY <1>1, MultMono
  <2> QED BY <1>1, <2>1, <2>2, <2>3, PageTableAssumption
<1>3. ASSUME NEW k \in Nat PROVE n < k * PageSize <=> q < k
  BY <1>1, <1>2, MultMono
<1> QED BY <1>1, <1>2, <1>3 DEF q, r
\* The page of a position is the only one that covers it.
LEMMA DivUnique ==
  ASSUME NEW n \in Nat, NEW q \in Nat, q * PageSize <= n, n < q * PageSize + PageSize
  PROVE  n \div PageSize = q /\ n % PageSize = n - q * PageSize
<1>1. q <= n \div PageSize
  BY DivBounds
<1>2. n < (q + 1) * PageSize /\ q + 1 \in Nat
  BY MultMono
<1>3. n \div PageSize < q + 1
  BY <1>2, DivBounds
<1>4. n \div PageSize = q
  BY <1>1, <1>3, DivBounds
<1> QED BY <1>4, DivBounds, MultMono
\* A page boundary starts its page.
LEMMA DivOfMult ==
  ASSUME NEW k \in Nat
  PROVE  /\ k * PageSize \in Nat
         /\ (k * PageSize) \div PageSize = k /\ (k * PageSize) % PageSize = 0
<1>1. k * PageSize \in Nat
  BY MultMono
<1> DEFINE n == k * PageSize
<1>2. n \in Nat /\ n <= n /\ n < n + PageSize /\ n - n = 0
  BY <1>1, PageTableAssumption
<1> QED BY <1>1, <1>2, DivUnique
\* Later positions are in later pages.
LEMMA DivMono ==
  ASSUME NEW m \in Nat, NEW n \in Nat, m <= n
  PROVE  m \div PageSize <= n \div PageSize
<1>1. (m \div PageSize) * PageSize <= m /\ m \div PageSize \in Nat
  BY DivBounds, MultMono
<1>2. (m \div PageSize) * PageSize <= n
  BY <1>1, MultMono
<1> QED BY <1>1, <1>2, DivBounds
\* PagesFor rounds up.
LEMMA PagesForBounds ==
  ASSUME NEW n \in Nat
  PROVE  /\ PagesFor(n) \in Nat
         /\ \A k \in Nat : n <= k * PageSize <=> PagesFor(n) <= k
         /\ n \div PageSize <= PagesFor(n)
<1> DEFINE m == n + PageSize - 1
<1>1. m \in Nat /\ PagesFor(n) = m \div PageSize
  BY PageTableAssumption DEF PagesFor
<1> HIDE DEF m
<1>2. ASSUME NEW k \in Nat PROVE n <= k * PageSize <=> PagesFor(n) <= k
  <2>1. n <= k * PageSize <=> m < (k + 1) * PageSize
    BY MultMono, PageTableAssumption DEF m
  <2>2. k + 1 \in Nat /\ m \div PageSize \in Nat
    BY <1>1, DivBounds
  <2>3. m < (k + 1) * PageSize <=> m \div PageSize < k + 1
    BY <1>1, <2>2, DivBounds
  <2> QED BY <1>1, <2>1, <2>2, <2>3
<1>3. n <= m
  BY PageTableAssumption DEF m
<1> QED BY <1>1, <1>2, <1>3, DivBounds, DivMono

-----------------------------------------------------------------------------
(* A random hash is nobody else's.                                         *)

\* The four places of a page a number can be in use in.
Place(t, p, k) ==
  CASE k = 1 -> Numbers(t[p].hash)
    [] k = 2 -> Numbers(t[p].prev)
    [] k = 3 -> UNION {Numbers(s.hash) : s \in t[p].saved}
    [] k = 4 -> UNION {Numbers(s.prev) : s \in t[p].saved}

\* The size of 1 .. n.
LEMMA CardinalityUpto ==
  ASSUME NEW n \in Nat
  PROVE  IsFiniteSet(1 .. n) /\ Cardinality(1 .. n) = n
<1>1. IsFiniteSet(1 .. n) /\ Cardinality(1 .. n) = IF 1 > n THEN 0 ELSE n - 1 + 1
  BY FS_Interval
<1> QED BY <1>1

\* Four numbers a page at most are in use, so one of the range is free.
LEMMA NumberFree ==
  ASSUME NEW t, \A p \in Pages : \A x, y \in t[p].saved : x = y
  PROVE  \E n \in 1 .. 4 * Cardinality(Pages) + 1 : n \notin InUse(t)
<1> DEFINE N == 4 * Cardinality(Pages) + 1
           S == 1 .. N
           T == Pages \X (1 .. 4)
           f == [n \in S |-> CHOOSE x \in T : n \in Place(t, x[1], x[2])]
<1>1. Cardinality(Pages) \in Nat /\ IsFiniteSet(Pages)
  BY FS_CardinalityType, PageTableAssumption
<1>2. IsFiniteSet(S) /\ Cardinality(S) = N
  BY <1>1, FS_Interval
<1>3. IsFiniteSet(T) /\ Cardinality(T) = Cardinality(Pages) * 4
  <2>1. IsFiniteSet(1 .. 4) /\ Cardinality(1 .. 4) = 4
    <3> HIDE DEF N, S, T, f
    <3> QED BY CardinalityUpto
  <2> QED BY <1>1, <2>1, FS_Product
<1>4. Cardinality(T) < Cardinality(S)
  BY <1>1, <1>2, <1>3
<1> SUFFICES ASSUME S \subseteq InUse(t) PROVE FALSE
  OBVIOUS
<1>5. ASSUME NEW n \in S PROVE f[n] \in T /\ n \in Place(t, f[n][1], f[n][2])
  <2>1. n \in InUse(t)
    OBVIOUS
  <2>2. PICK p \in Pages, k \in 1 .. 4 : n \in Place(t, p, k)
    <3> HIDE DEF N, S, T, f
    <3>1. PICK p \in Pages : n \in NumbersOf(t[p])
      BY <2>1 DEF InUse
    <3>0. PICK u \in t[p].saved \cup {t[p]} : n \in Numbers(u.hash) \/ n \in Numbers(u.prev)
      BY <3>1 DEF NumbersOf
    <3>2. CASE n \in Numbers(t[p].hash)
      BY <3>2 DEF Place
    <3>3. CASE n \in Numbers(t[p].prev)
      BY <3>3 DEF Place
    <3>4. CASE \E s \in t[p].saved : n \in Numbers(s.hash)
      <4>1. n \in Place(t, p, 3)
        BY <3>4 DEF Place
      <4> QED BY <4>1
    <3>5. CASE \E s \in t[p].saved : n \in Numbers(s.prev)
      <4>1. n \in Place(t, p, 4)
        BY <3>5 DEF Place
      <4> QED BY <4>1
    <3> QED BY <3>0, <3>2, <3>3, <3>4, <3>5
  <2>3. <<p, k>> \in T /\ <<p, k>>[1] = p /\ <<p, k>>[2] = k
    OBVIOUS
  <2>4. \E x \in T : n \in Place(t, x[1], x[2])
    BY <2>2, <2>3
  <2>5. f[n] = CHOOSE x \in T : n \in Place(t, x[1], x[2])
    OBVIOUS
  <2> HIDE DEF f, T
  <2> QED BY <2>4, <2>5
<1>6. ASSUME NEW p \in Pages, NEW k \in 1 .. 4, NEW m \in Place(t, p, k), NEW n \in Place(t, p, k)
      PROVE  m = n
  <2>1. \A h : \A x, y \in Numbers(h) : x = y
    BY DEF Numbers
  <2>2. CASE k = 1
    BY <2>1, <2>2 DEF Place
  <2>3. CASE k = 2
    BY <2>1, <2>3 DEF Place
  <2>4. CASE k = 3
    <3>1. PICK x \in t[p].saved, y \in t[p].saved : m \in Numbers(x.hash) /\ n \in Numbers(y.hash)
      BY <2>4 DEF Place
    <3> QED BY <2>1, <3>1
  <2>5. CASE k = 4
    <3>1. PICK x \in t[p].saved, y \in t[p].saved : m \in Numbers(x.prev) /\ n \in Numbers(y.prev)
      BY <2>5 DEF Place
    <3> QED BY <2>1, <3>1
  <2> QED BY <2>2, <2>3, <2>4, <2>5
<1> HIDE DEF N, f
<1>7. f \in [S -> T]
  BY <1>5 DEF f
<1> HIDE DEF S, T
<1>8. PICK m \in S, n \in S : m # n /\ f[m] = f[n]
  BY <1>2, <1>3, <1>4, <1>7, FS_PigeonHole
<1>9. f[m][1] \in Pages /\ f[m][2] \in 1 .. 4
  BY <1>5 DEF T
<1> QED BY <1>5, <1>6, <1>8, <1>9

\* A new random hash is nobody's.
LEMMA Fresh ==
  ASSUME NEW t, \A p \in Pages : \A x, y \in t[p].saved : x = y
  PROVE  /\ RandomHash(t) \in Seq(Int) /\ Len(RandomHash(t)) = 1 /\ RandomHash(t)[1] < 0
         /\ \A p \in Pages : t[p].hash # RandomHash(t) /\ t[p].prev # RandomHash(t)
<1> DEFINE n == CHOOSE n \in 1 .. 4 * Cardinality(Pages) + 1 : n \notin InUse(t)
<1>1. n \in 1 .. 4 * Cardinality(Pages) + 1 /\ n \notin InUse(t)
  BY NumberFree
<1>2. RandomHash(t) = <<-n>>
  BY DEF RandomHash
<1> HIDE DEF n
<1>3. n \in Nat /\ n > 0
  BY <1>1, FS_CardinalityType, PageTableAssumption
<1>4. ASSUME NEW p \in Pages PROVE t[p].hash # <<-n>> /\ t[p].prev # <<-n>>
  <2>1. n \notin Numbers(t[p].hash) /\ n \notin Numbers(t[p].prev)
    <3>1. n \notin NumbersOf(t[p])
      BY <1>1 DEF InUse
    <3> QED BY <3>1 DEF NumbersOf
  <2>2. n \in Numbers(<<-n>>)
    BY <1>3 DEF Numbers, Root
  <2> QED BY <2>1, <2>2
<1> QED BY <1>2, <1>3, <1>4

-----------------------------------------------------------------------------
(* Sets of jobs.                                                           *)

LEMMA SmallSets ==
  ASSUME NEW S \in SUBSET Jobs
  PROVE  /\ IsFiniteSet(S) /\ Cardinality(S) \in Nat
         /\ Cardinality(S) = 0 <=> S = {}
         /\ \A j : j \notin S => Cardinality(S \cup {j}) = Cardinality(S) + 1
         /\ \A j \in S : Cardinality(S \ {j}) = Cardinality(S) - 1
         /\ Cardinality(S) <= 1 => \A j, k \in S : j = k
<1>1. IsFiniteSet(S) /\ Cardinality(S) \in Nat /\ (Cardinality(S) = 0 <=> S = {})
  BY GeneratorAssumption, FS_Subset, FS_CardinalityType, FS_EmptySet
<1>2. \A j : j \notin S => Cardinality(S \cup {j}) = Cardinality(S) + 1
  BY <1>1, FS_AddElement
<1>3. \A j \in S : Cardinality(S \ {j}) = Cardinality(S) - 1
  BY <1>1, FS_RemoveElement
<1>4. ASSUME Cardinality(S) <= 1, NEW j \in S, NEW k \in S PROVE j = k
  <2>1. Cardinality(S) = 1
    BY <1>1, <1>4
  <2>2. \E x : S = {x}
    BY <1>1, <2>1, FS_Singleton
  <2> QED BY <2>2
<1> QED BY <1>1, <1>2, <1>3, <1>4

Holders(p) == {j \in Jobs : p \in ToSet(job[j].pages)}

\* A reference count counts the jobs that hold the page.
LEMMA Held ==
  ASSUME RefCounts, NEW p \in Pages
  PROVE  /\ Holders(p) \in SUBSET Jobs /\ table[p].refs = Cardinality(Holders(p)) /\ table[p].refs \in Nat
         /\ table[p].refs = 0 => \A j \in Jobs : p \notin ToSet(job[j].pages)
         /\ \A j \in Jobs : p \in ToSet(job[j].pages) => table[p].refs >= 1
         /\ table[p].refs <= 1 => \A j, k \in Jobs :
              p \in ToSet(job[j].pages) /\ p \in ToSet(job[k].pages) => j = k
         /\ table[p].refs = 0 \/ \E j \in Jobs : p \in ToSet(job[j].pages)
<1>1. Holders(p) \in SUBSET Jobs /\ table[p].refs = Cardinality(Holders(p))
  BY DEF RefCounts, Holders
<1>2. table[p].refs \in Nat
  BY <1>1, SmallSets
<1>3. table[p].refs = 0 <=> Holders(p) = {}
  BY <1>1, SmallSets
<1>4. table[p].refs <= 1 => \A j, k \in Holders(p) : j = k
  BY <1>1, SmallSets
<1>5. \A j \in Jobs : p \in ToSet(job[j].pages) <=> j \in Holders(p)
  BY DEF Holders
<1>6. table[p].refs # 0 => table[p].refs >= 1 /\ \E j \in Jobs : j \in Holders(p)
  BY <1>2, <1>3 DEF Holders
<1> QED BY <1>1, <1>2, <1>3, <1>4, <1>5, <1>6

-----------------------------------------------------------------------------
(* The queues.                                                             *)

StateOf(j) == job[j].state

QueueTypes ==
  /\ pending \in Seq(Jobs) /\ active \in Seq(Jobs) /\ todo \in Seq(Jobs) /\ finished \in Seq(Jobs)
  /\ Injective(pending) /\ Injective(active) /\ Injective(todo) /\ Injective(finished)
  /\ skipped \in SUBSET Jobs /\ phase \in Phases /\ failed \in BOOLEAN
  /\ Len(active) <= MaxBatch

Queues ==
  /\ QueueTypes
  /\ \A j \in Jobs : StateOf(j) = "queued" <=> j \in ToSet(pending)
  /\ \A j \in Jobs : StateOf(j) = "active" <=> j \in ToSet(active)
  /\ phase \in {"start", "claim"} => ToSet(todo) \subseteq ToSet(pending) \ skipped /\ skipped \subseteq ToSet(pending)
  /\ phase \in {"prefill", "decode"} => ToSet(todo) \subseteq ToSet(active) \ ToSet(finished)
  /\ phase \in {"idle", "start", "claim", "prefill"} => finished = <<>>
  /\ ToSet(finished) \subseteq ToSet(active)
  /\ phase = "claim" => active # <<>>

JobTypes == job \in [Jobs -> Job]

\* What the jobs' states do in a step that leaves the queues to the others.
LEMMA JobSampled ==
  ASSUME JobTypes, NEW j \in Jobs, NEW a, NEW b, NEW c, NEW n,
         job' = [job EXCEPT ![j].ids = a, ![j].pages = b, ![j].kvp = c, ![j].new = @ + n]
  PROVE  /\ \A k \in Jobs : k # j => job'[k] = job[k]
         /\ job'[j].ids = a /\ job'[j].pages = b /\ job'[j].kvp = c /\ job'[j].new = job[j].new + n
         /\ job'[j].prompt = job[j].prompt /\ job'[j].skips = job[j].skips
         /\ job'[j].state = job[j].state
BY DEF JobTypes, Job

\* No step confuses the queue, the batch and what iterate() has still to look
\* at.
LEMMA QueuesStep ==
  ASSUME Queues, JobTypes, Next
  PROVE  Queues'
<1> USE DEF Queues, QueueTypes
<1>0. /\ \A j \in Jobs : NewJob.state = "new" /\ OverJob.state = "over"
      /\ ToSet(<<>>) = {} /\ Injective(<<>>)
      /\ \A s \in Seq(Jobs) : (ToSet(s) = {} <=> s = <<>>) /\ DOMAIN s = 1 .. Len(s)
      /\ \A s \in Seq(Jobs) : \A x \in ToSet(s) : x \in Jobs
      /\ MaxBatch \in Nat \ {0}
  BY ToSetEmpty, GeneratorAssumption DEF NewJob, OverJob, ToSet
<1>1. ASSUME NEW j \in Jobs, Enqueue(j) PROVE Queues'
  <2>1. PICK ids \in Prompts :
          job' = [job EXCEPT ![j].ids = ids, ![j].prompt = Len(ids), ![j].state = "queued"]
    BY <1>1 DEF Enqueue
  <2>2. \A k \in Jobs : StateOf(k)' = IF k = j THEN "queued" ELSE StateOf(k)
    BY <2>1 DEF JobTypes, Job, StateOf
  <2>3. StateOf(j) = "new" /\ phase = "idle"
    BY <1>1 DEF Enqueue, StateOf, At
  <2>4. j \notin ToSet(pending) /\ j \notin ToSet(active)
    BY <2>3
  <2>5. pending' = Append(pending, j) /\ UNCHANGED <<active, phase, todo, skipped, finished, failed>>
    BY <1>1 DEF Enqueue
  <2>6. pending' \in Seq(Jobs) /\ Injective(pending') /\ ToSet(pending') = ToSet(pending) \cup {j}
    BY <2>4, <2>5, SeqAppend
  <2> QED BY <2>2, <2>3, <2>4, <2>5, <2>6
<1>2. ASSUME NEW j \in Jobs, CancelPending(j) PROVE Queues'
  <2>1. j \in ToSet(pending) /\ phase = "idle"
    BY <1>2 DEF CancelPending, At
  <2>2. \A k \in Jobs : StateOf(k)' = IF k = j THEN "over" ELSE StateOf(k)
    BY <1>0, <1>2 DEF CancelPending, JobTypes, Job, StateOf
  <2>3. pending' = Without(pending, j) /\ UNCHANGED <<active, phase, todo, skipped, finished, failed>>
    BY <1>2 DEF CancelPending
  <2>4. pending' \in Seq(Jobs) /\ Injective(pending') /\ ToSet(pending') = ToSet(pending) \ {j}
    BY <2>1, <2>3, SeqWithout
  <2> QED BY <2>1, <2>2, <2>3, <2>4
<1>3. ASSUME NEW j \in Jobs, CancelActive(j) PROVE Queues'
  <2>1. /\ j \in ToSet(active) /\ phase' = "release" /\ finished' = <<j>>
        /\ UNCHANGED <<job, pending, active, todo, skipped, failed>>
    BY <1>3 DEF CancelActive
  <2>2. finished' \in Seq(Jobs) /\ Injective(finished') /\ ToSet(finished') = {j}
    BY <2>1 DEF Injective, ToSet
  <2>3. \A k \in Jobs : StateOf(k)' = StateOf(k)
    BY <2>1 DEF StateOf
  <2> QED BY <2>1, <2>2, <2>3 DEF Phases
<1>4. CASE ClearQueue
  <2>1. /\ job' = [j \in Jobs |-> IF j \in ToSet(pending) THEN OverJob ELSE job[j]]
        /\ pending' = <<>> /\ finished' = active /\ phase' = "release"
        /\ UNCHANGED <<active, todo, skipped, failed>>
    BY <1>4 DEF ClearQueue
  <2>2. \A k \in Jobs : StateOf(k)' = IF k \in ToSet(pending) THEN "over" ELSE StateOf(k)
    BY <1>0, <2>1 DEF StateOf
  <2>3. pending' \in Seq(Jobs) /\ Injective(pending') /\ ToSet(pending') = {}
    BY <1>0, <2>1
  <2> QED BY <2>1, <2>2, <2>3 DEF Phases
<1>5. CASE Iterate
  <2>1. /\ phase = "idle" /\ UNCHANGED <<job, pending, active, finished, failed>>
        /\ \/ phase' = "start" /\ todo' = pending /\ skipped' = {}
           \/ phase' = "prefill" /\ todo' = active /\ skipped' = {}
    BY <1>5 DEF Iterate, Prefilling, At
  <2>2. \A k \in Jobs : StateOf(k)' = StateOf(k)
    BY <2>1 DEF StateOf
  <2> QED BY <1>0, <2>1, <2>2 DEF Phases
<1>6. CASE PassOver
  <2>1. /\ phase = "start" /\ todo # <<>> /\ todo' = Tail(todo) /\ skipped' = skipped \cup {todo[1]}
        /\ UNCHANGED <<job, pending, active, phase, finished, failed>>
    BY <1>6 DEF PassOver, Turn, At
  <2>2. \A k \in Jobs : StateOf(k)' = StateOf(k)
    BY <2>1 DEF StateOf
  <2>3. /\ todo[1] \in ToSet(todo) /\ todo[1] \in Jobs
        /\ todo' \in Seq(Jobs) /\ Injective(todo') /\ ToSet(todo') = ToSet(todo) \ {todo[1]}
    BY <2>1, SeqTail
  <2> QED BY <2>1, <2>2, <2>3
<1>7. CASE StartJob
  <2>1. /\ phase = "start" /\ todo # <<>> /\ todo' = Tail(todo) /\ phase' = "claim"
        /\ pending' = Without(pending, todo[1]) /\ active' = Append(active, todo[1])
        /\ UNCHANGED <<skipped, finished, failed>> /\ Len(active) < MaxBatch
    BY <1>7 DEF StartJob, Turn, At, Fits
  <2>2. /\ todo[1] \in ToSet(todo) /\ todo[1] \in Jobs
        /\ todo' \in Seq(Jobs) /\ Injective(todo') /\ ToSet(todo') = ToSet(todo) \ {todo[1]}
    BY <2>1, SeqTail
  <2>3. todo[1] \in ToSet(pending) /\ todo[1] \notin skipped /\ StateOf(todo[1]) = "queued"
    BY <2>1, <2>2
  <2>4. todo[1] \notin ToSet(active)
    BY <2>2, <2>3
  <2>5. \A k \in Jobs : StateOf(k)' = IF k = todo[1] THEN "active" ELSE StateOf(k)
    <3>1. job' = [k \in Jobs |-> IF k \in skipped THEN [job[k] EXCEPT !.skips = @ + 1]
                                 ELSE IF k = todo[1] THEN [job[k] EXCEPT !.state = "active"]
                                 ELSE job[k]]
      BY <1>7 DEF StartJob, Turn
    <3>2. \A k \in Jobs : job[k] \in Job
      BY DEF JobTypes
    <3> HIDE DEF Queues, QueueTypes
    <3> QED BY <2>2, <2>3, <3>1, <3>2 DEF StateOf, Job
  <2>6. pending' \in Seq(Jobs) /\ Injective(pending') /\ ToSet(pending') = ToSet(pending) \ {todo[1]}
    BY <2>1, <2>3, SeqWithout
  <2>7. /\ active' \in Seq(Jobs) /\ Injective(active') /\ active' # <<>>
        /\ ToSet(active') = ToSet(active) \cup {todo[1]}
    BY <2>1, <2>2, <2>4, SeqAppend
  <2>8. Len(active') <= MaxBatch
    BY <1>0, <2>1, <2>2
  <2> QED BY <2>1, <2>2, <2>3, <2>4, <2>5, <2>6, <2>7, <2>8 DEF Phases
<1>8. CASE StartOver
  <2>1. /\ phase = "start" /\ phase' = "prefill" /\ todo' = active /\ skipped' = {}
        /\ UNCHANGED <<job, pending, active, finished, failed>>
    BY <1>8 DEF StartOver, Prefilling, At
  <2>2. \A k \in Jobs : StateOf(k)' = StateOf(k)
    BY <2>1 DEF StateOf
  <2> QED BY <1>0, <2>1, <2>2 DEF Phases
<1>9. CASE Claim
  <2>1. /\ phase = "claim" /\ UNCHANGED <<pending, active, todo, skipped, finished, failed>>
        /\ phase' \in {"claim", "start"}
    BY <1>9 DEF Claim, ClaimHit, ClaimMiss, ClaimUnique, ClaimOver, At
  <2>3. \A k \in Jobs : StateOf(k)' = StateOf(k)
    <3> HIDE DEF Queues, QueueTypes
    <3>1. CASE \E p : Take(p)
      BY <3>1 DEF Take, StateOf, JobTypes, Job
    <3>2. CASE ClaimOver
      BY <3>2 DEF ClaimOver, StateOf, JobTypes, Job
    <3> QED BY <1>9, <3>1, <3>2 DEF Claim, ClaimHit, ClaimMiss, ClaimUnique
  <2> QED BY <2>1, <2>3 DEF Phases
<1>10. CASE NothingToPrefill \/ Prefill
  <2>1. /\ phase = "prefill" /\ todo # <<>> /\ todo' = Tail(todo)
        /\ UNCHANGED <<pending, active, phase, skipped, finished, failed>>
    BY <1>10 DEF NothingToPrefill, Prefill, At
  <2>3. \A k \in Jobs : StateOf(k)' = StateOf(k)
    <3> HIDE DEF Queues, QueueTypes
    <3>1. CASE NothingToPrefill
      BY <3>1 DEF NothingToPrefill, Turn, StateOf, JobTypes, Job
    <3>2. ASSUME NEW k, NEW n, PrefillFrom(todo[1], k, n) PROVE \A i \in Jobs : StateOf(i)' = StateOf(i)
      BY <3>2 DEF PrefillFrom, StateOf, JobTypes, Job
    <3> QED BY <1>10, <3>1, <3>2 DEF Prefill, Turn
  <2>4. todo' \in Seq(Jobs) /\ Injective(todo') /\ ToSet(todo') \subseteq ToSet(todo)
    BY <2>1, SeqTail
  <2> QED BY <2>1, <2>3, <2>4
<1>11. CASE PrefillOver
  <2>1. /\ phase = "prefill" /\ phase' = "decode" /\ todo' = active
        /\ UNCHANGED <<job, pending, active, skipped, finished, failed>>
    BY <1>11 DEF PrefillOver, At
  <2>2. \A k \in Jobs : StateOf(k)' = StateOf(k)
    BY <2>1 DEF StateOf
  <2> QED BY <1>0, <2>1, <2>2 DEF Phases
<1>12. CASE NotReady \/ Decode
  <2>1. /\ phase = "decode" /\ todo # <<>> /\ todo' = Tail(todo)
        /\ UNCHANGED <<pending, active, phase, skipped>>
    BY <1>12 DEF NotReady, Decode, At
  <2>2. /\ todo[1] \in ToSet(todo) /\ todo[1] \in Jobs
        /\ todo' \in Seq(Jobs) /\ Injective(todo') /\ ToSet(todo') = ToSet(todo) \ {todo[1]}
    BY <2>1, SeqTail
  <2>3. /\ finished' = finished \/ finished' = Append(finished, todo[1])
        /\ failed' \in BOOLEAN /\ \A k \in Jobs : StateOf(k)' = StateOf(k)
    <3>1. CASE NotReady
      BY <3>1 DEF NotReady, StateOf
    <3>2. ASSUME NEW draft, NEW n, NEW token, NEW eos, Sampled(todo[1], draft, n, token, eos)
          PROVE  /\ finished' = finished \/ finished' = Append(finished, todo[1])
                 /\ failed' \in BOOLEAN /\ \A k \in Jobs : StateOf(k)' = StateOf(k)
      <4> HIDE DEF Queues, QueueTypes
      <4>1. CASE Completed(todo[1], draft, n, token).ok
        <5>1. /\ failed' = failed /\ finished' = IF eos THEN Append(finished, todo[1]) ELSE finished
              /\ job' = [job EXCEPT ![todo[1]].ids = Seen(todo[1], draft, n, token),
                                    ![todo[1]].pages = Completed(todo[1], draft, n, token).pages,
                                    ![todo[1]].kvp = NewPos(todo[1], n), ![todo[1]].new = @ + n]
          BY <3>2, <4>1 DEF Sampled
        <5>2. \A k \in Jobs : StateOf(k)' = StateOf(k)
          BY <2>2, <5>1, JobSampled DEF StateOf
        <5> QED BY <5>1, <5>2 DEF Queues, QueueTypes
      <4>2. CASE ~Completed(todo[1], draft, n, token).ok
        BY <3>2, <4>2 DEF StateOf, Sampled
      <4> QED BY <4>1, <4>2
    <3> QED BY <1>12, <3>1, <3>2 DEF Decode, Turn
  <2>4. \A k \in Jobs : StateOf(k)' = StateOf(k)
    BY <2>3
  <2>5. /\ finished' \in Seq(Jobs) /\ Injective(finished')
        /\ ToSet(finished') \subseteq ToSet(finished) \cup {todo[1]}
    <3>1. todo[1] \notin ToSet(finished)
      BY <2>1, <2>2
    <3>2. LET f == Append(finished, todo[1])
          IN  f \in Seq(Jobs) /\ Injective(f) /\ ToSet(f) = ToSet(finished) \cup {todo[1]}
      BY <2>2, <3>1, SeqAppend
    <3> QED BY <2>3, <3>2
  <2> QED BY <2>1, <2>2, <2>3, <2>4, <2>5
<1>13. CASE DecodeOver \/ ReleaseOver \/ Rest
  <2>1. /\ UNCHANGED <<job, pending, active, todo, skipped, finished, failed>>
        /\ \/ phase' = phase
           \/ phase' = "release"
           \/ phase' = "idle" /\ finished = <<>>
    BY <1>13 DEF DecodeOver, ReleaseOver, Rest, vars, At
  <2>2. \A k \in Jobs : StateOf(k)' = StateOf(k)
    BY <2>1 DEF StateOf
  <2> QED BY <2>1, <2>2 DEF Phases
<1>14. CASE ReleasePage
  <2>1. UNCHANGED <<pending, active, phase, todo, skipped, finished, failed>>
    BY <1>14 DEF ReleasePage
  <2>2. \A k \in Jobs : StateOf(k)' = StateOf(k)
    BY <1>14 DEF ReleasePage, StateOf, JobTypes, Job
  <2> QED BY <2>1, <2>2
<1>15. CASE Leave
  <2>1. /\ phase = "release" /\ finished # <<>>
        /\ active' = Without(active, finished[1]) /\ finished' = Tail(finished)
        /\ UNCHANGED <<pending, phase, todo, skipped, failed>>
    BY <1>15 DEF Leave, Leaving, At
  <2>2. /\ finished[1] \in ToSet(finished) /\ finished[1] \in Jobs
        /\ finished' \in Seq(Jobs) /\ Injective(finished') /\ ToSet(finished') = ToSet(finished) \ {finished[1]}
    BY <2>1, SeqTail
  <2>3. /\ active' \in Seq(Jobs) /\ Injective(active') /\ ToSet(active') = ToSet(active) \ {finished[1]}
        /\ Len(active') = Len(active) - 1
    BY <2>1, <2>2, SeqWithout
  <2>4. \A k \in Jobs : StateOf(k)' = IF k = finished[1] THEN "over" ELSE StateOf(k)
    BY <1>0, <1>15, <2>2 DEF Leave, Leaving, StateOf, JobTypes, Job
  <2>5. StateOf(finished[1]) = "active"
    BY <2>2
  <2>6. Len(active') <= MaxBatch
    BY <1>0, <2>3
  <2> QED BY <2>1, <2>2, <2>3, <2>4, <2>5, <2>6
<1> QED BY <1>1, <1>2, <1>3, <1>4, <1>5, <1>6, <1>7, <1>8, <1>9, <1>10, <1>11, <1>12, <1>13, <1>14, <1>15 DEF Next

-----------------------------------------------------------------------------
(* Jobs: positions, chunks, pages needed.                                  *)

Started(j) == job[j].state \in {"queued", "active"}

JobShape(j) ==
  /\ ~Started(j) => job[j].pages = <<>> /\ job[j].kvp = 0 /\ job[j].new = 0
  /\ job[j].state = "queued" => job[j].pages = <<>> /\ job[j].kvp = 0 /\ job[j].new = 0
  /\ Started(j) =>
       /\ job[j].prompt >= 1 /\ Len(job[j].ids) = job[j].prompt + job[j].new
       /\ job[j].kvp < Len(job[j].ids)
       /\ TotalPages(job[j].prompt) <= Cardinality(Pages)
       /\ job[j].new > 0 => PrefillDone(j)
       /\ PrefillDone(j) \/ job[j].kvp % PageSize = 0
  /\ job[j].new <= MaxTokens
  /\ job[j].state = "active" /\ j \notin ToSet(finished) => job[j].new < MaxTokens

\* The pages a prompt may take from the cache end before its last token.
LEMMA HashedBounds ==
  ASSUME NEW j, job[j].prompt \in Nat, job[j].prompt >= 1
  PROVE  /\ HashedPages(j) \in Nat
         /\ HashedPages(j) * PageSize <= job[j].prompt - 1
         /\ (job[j].prompt - 1) \div PageSize \in {HashedPages(j), HashedPages(j) + 1}
         /\ ~MTP => (job[j].prompt - 1) \div PageSize = HashedPages(j)
<1> DEFINE n == job[j].prompt
           m == Larger(0, n - 2)
<1>1. n - 1 \in Nat /\ m \in Nat /\ m <= n - 1 /\ n - 1 <= m + 1
  BY DEF Larger
<1>2. HashedPages(j) = IF MTP THEN m \div PageSize ELSE (n - 1) \div PageSize
  BY DEF HashedPages
<1> HIDE DEF n, m
<1> DEFINE a == m \div PageSize
           b == (n - 1) \div PageSize
<1>3. a \in Nat /\ b \in Nat /\ a <= b
  BY <1>1, DivBounds, DivMono
<1>4. b * PageSize <= n - 1 /\ a * PageSize <= m
  BY <1>1, <1>3, DivBounds
<1>5. b <= a + 1
  <2>1. m < (a + 1) * PageSize
    BY <1>1, <1>3, DivBounds
  <2>2. n - 1 <= (a + 1) * PageSize /\ a + 1 \in Nat /\ a + 2 \in Nat
    BY <1>1, <1>3, <2>1, MultMono
  <2>3. (a + 2) * PageSize = (a + 1) * PageSize + PageSize /\ (a + 1) * PageSize \in Nat
    <3>1. ((a + 1) + 1) * PageSize = (a + 1) * PageSize + PageSize /\ (a + 1) * PageSize \in Nat
      BY <2>2, MultMono
    <3>2. (a + 1) + 1 = a + 2
      BY <1>3
    <3> QED BY <3>1, <3>2
  <2>4. n - 1 < (a + 2) * PageSize
    BY <1>1, <2>2, <2>3, PageTableAssumption
  <2>5. b < a + 2
    BY <1>1, <2>2, <2>4, DivBounds
  <2> QED BY <1>3, <2>5
<1>6. a * PageSize \in Nat /\ b * PageSize \in Nat
  BY <1>3, MultMono
<1> HIDE DEF a, b
<1>7. HashedPages(j) = IF MTP THEN a ELSE b
  BY <1>2 DEF a, b
<1>8. HashedPages(j) \in Nat /\ HashedPages(j) * PageSize <= n - 1
  BY <1>1, <1>3, <1>4, <1>6, <1>7
<1>9. b \in {HashedPages(j), HashedPages(j) + 1} /\ (~MTP => b = HashedPages(j))
  BY <1>3, <1>5, <1>7
<1> QED BY <1>8, <1>9 DEF b, n

\* A job has a page for every position a window can reach.
LEMMA PagesEnough ==
  ASSUME NEW n \in Nat
  PROVE  /\ TotalPages(n) \in Nat
         /\ \A x \in Nat : x < n + MaxTokens + Depth + 1 => x \div PageSize < TotalPages(n)
         /\ PagesFor(n) <= TotalPages(n)
<1> DEFINE m == n + MaxTokens + Depth + 1
<1>1. m \in Nat /\ n <= m
  BY GeneratorAssumption, PageTableAssumption
<1>2. TotalPages(n) = PagesFor(m)
  BY DEF TotalPages
<1> HIDE DEF m
<1>3. TotalPages(n) \in Nat
  BY <1>1, <1>2, PagesForBounds
<1>4. m <= TotalPages(n) * PageSize /\ TotalPages(n) * PageSize \in Nat
  <2>1. PagesFor(m) <= PagesFor(m) /\ PagesFor(m) \in Nat
    BY <1>1, PagesForBounds
  <2> QED BY <1>1, <1>2, <2>1, PagesForBounds, MultMono
<1>5. ASSUME NEW x \in Nat, x < m PROVE x \div PageSize < TotalPages(n)
  BY <1>1, <1>3, <1>4, <1>5, DivBounds
<1>6. PagesFor(n) <= TotalPages(n)
  BY <1>1, <1>3, <1>4, PagesForBounds
<1> QED BY <1>3, <1>5, <1>6 DEF m

\* What a job in the middle of its prompt does next.
LEMMA ChunkRange ==
  ASSUME NEW j \in Jobs, job \in [Jobs -> Job], JobShape(j), Started(j), ~PrefillDone(j)
  PROVE  /\ Stop(j) \in Nat /\ job[j].kvp \in Nat /\ job[j].kvp < Stop(j) /\ Stop(j) = job[j].prompt - 1
         /\ job[j].kvp = FirstPage(j) * PageSize /\ FirstPage(j) \in Nat
         /\ ChunkEnd(j) \in Nat /\ job[j].kvp < ChunkEnd(j) /\ ChunkEnd(j) <= Stop(j)
         /\ ChunkEnd(j) % PageSize = 0 \/ ChunkEnd(j) = Stop(j)
<1> DEFINE k == job[j].kvp
           f == FirstPage(j)
           c == ((k + Chunk) \div PageSize) * PageSize
<1>1. /\ k \in Nat /\ Stop(j) \in Nat /\ k < Stop(j) /\ Stop(j) = job[j].prompt - 1
      /\ k % PageSize = 0
  <2>1. k \in Nat /\ job[j].new \in Nat /\ job[j].prompt \in Nat /\ Len(job[j].ids) \in Nat
    BY DEF Job
  <2>2. /\ job[j].prompt >= 1 /\ Len(job[j].ids) = job[j].prompt + job[j].new
        /\ k < Len(job[j].ids) /\ k # Len(job[j].ids) - 1 /\ ~(job[j].new > 0) /\ k % PageSize = 0
    BY DEF JobShape, PrefillDone
  <2> HIDE DEF k
  <2> QED BY <2>1, <2>2 DEF Stop
<1>2. f = k \div PageSize
  BY DEF FirstPage
<1>3. ChunkEnd(j) = Smaller(c, Stop(j))
  BY DEF ChunkEnd
<1> HIDE DEF k, f
<1>4. f \in Nat /\ k = f * PageSize
  BY <1>1, <1>2, DivBounds, MultMono
<1>5. k + Chunk \in Nat /\ (f + 1) * PageSize <= k + Chunk
  BY <1>1, <1>4, MultMono, GeneratorAssumption, PageTableAssumption
<1>6. f + 1 <= (k + Chunk) \div PageSize /\ (k + Chunk) \div PageSize \in Nat
  BY <1>4, <1>5, DivBounds
<1>7. (f + 1) * PageSize <= c /\ c \in Nat /\ c % PageSize = 0
  BY <1>4, <1>6, MultMono, DivOfMult
<1>8. k < c
  BY <1>4, <1>7, MultMono, PageTableAssumption
<1> HIDE DEF c
<1> QED BY <1>1, <1>3, <1>4, <1>7, <1>8 DEF Smaller, k, f

\* prefill skips full pages only and stays at a page boundary.
LEMMA FromRange ==
  ASSUME NEW j \in Jobs, job \in [Jobs -> Job], JobShape(j), Started(j), ~PrefillDone(j)
  PROVE  /\ From(j) \in Nat /\ From(j) % PageSize = 0 /\ job[j].kvp <= From(j)
         /\ (From(j) \div PageSize) * PageSize = From(j) /\ From(j) \div PageSize \in Nat
         /\ FirstPage(j) <= From(j) \div PageSize
         /\ \A i \in FirstPage(j) .. (From(j) \div PageSize) - 1 : Ready(j, i)
         /\ From(j) \div PageSize <= PagesFor(ChunkEnd(j))
         /\ Hybrid => From(j) = job[j].kvp
         /\ Hybrid \/ From(j) \div PageSize = PagesFor(ChunkEnd(j)) \/ ~Ready(j, From(j) \div PageSize)
<1> DEFINE f == FirstPage(j)
           u == PagesFor(ChunkEnd(j))
           First(n) == n \in f .. u /\ (n = u \/ ~Ready(j, n)) /\ \A k \in f .. n - 1 : Ready(j, k)
           i == CHOOSE n \in f .. u : First(n)
<1>1. /\ job[j].kvp \in Nat /\ job[j].kvp = f * PageSize /\ f \in Nat
      /\ ChunkEnd(j) \in Nat /\ job[j].kvp < ChunkEnd(j)
  BY ChunkRange
<1>2. u \in Nat /\ f <= u
  <2>1. u \in Nat /\ ChunkEnd(j) <= u * PageSize
    <3>1. PagesFor(ChunkEnd(j)) \in Nat /\ PagesFor(ChunkEnd(j)) <= PagesFor(ChunkEnd(j))
      BY <1>1, PagesForBounds
    <3> QED BY <1>1, <3>1, PagesForBounds
  <2>2. f * PageSize < u * PageSize /\ f * PageSize \in Nat /\ u * PageSize \in Nat
    BY <1>1, <2>1, MultMono
  <2> QED BY <1>1, <2>1, <2>2, MultMono, PageTableAssumption
<1> HIDE DEF u, f
<1>3. \E n \in f .. u : First(n)
  <2> DEFINE T == {n \in f .. u : n = u \/ ~Ready(j, n)}
  <2>1. T \in SUBSET Nat /\ u \in T
    BY <1>1, <1>2
  <2>2. PICK n \in T : \A m \in T : n <= m
    BY <2>1, Least
  <2>3. \A k \in f .. n - 1 : Ready(j, k)
    <3> SUFFICES ASSUME NEW k \in f .. n - 1 PROVE Ready(j, k)
      OBVIOUS
    <3>1. k \in f .. u /\ ~(n <= k)
      BY <1>1, <1>2, <2>2
    <3> QED BY <2>2, <3>1
  <2> QED BY <2>2, <2>3
<1>4. First(i)
  <2> HIDE DEF First
  <2> QED BY <1>3
<1>5. From(j) = IF Hybrid \/ i = f THEN job[j].kvp ELSE i * PageSize
  <2>1. i = CHOOSE n \in f .. u : /\ n = u \/ ~Ready(j, n)
                                  /\ \A k \in f .. n - 1 : Ready(j, k)
    <3>1. \A n \in f .. u : First(n) <=> (n = u \/ ~Ready(j, n)) /\ \A k \in f .. n - 1 : Ready(j, k)
      OBVIOUS
    <3> HIDE DEF First
    <3> QED BY <3>1
  <2> HIDE DEF i
  <2> QED BY <2>1 DEF From, FirstPage, f, u
<1> HIDE DEF i
<1>6. i \in Nat /\ f <= i /\ i <= u
  BY <1>1, <1>2, <1>4
<1> DEFINE q == IF Hybrid THEN f ELSE i
<1>7. From(j) = q * PageSize /\ q \in Nat /\ f <= q /\ q <= u /\ (Hybrid => q = f) /\ (~Hybrid => q = i)
  BY <1>1, <1>2, <1>5, <1>6
<1>8. \A k \in f .. q - 1 : Ready(j, k)
  BY <1>1, <1>4, <1>7
<1>9. Hybrid \/ q = u \/ ~Ready(j, q)
  BY <1>4, <1>7
<1> HIDE DEF q, First
<1>10. From(j) \in Nat /\ From(j) \div PageSize = q /\ From(j) % PageSize = 0
  BY <1>7, DivOfMult
<1>11. job[j].kvp <= From(j)
  BY <1>1, <1>7, MultMono
<1>12. Hybrid => From(j) = job[j].kvp
  BY <1>1, <1>7
<1> QED BY <1>7, <1>8, <1>9, <1>10, <1>11, <1>12 DEF f, u

\* A chunk ends at a page boundary or before the last token.
LEMMA ToRange ==
  ASSUME NEW j \in Jobs, job \in [Jobs -> Job], JobShape(j), Started(j), ~PrefillDone(j)
  PROVE  To(j) \in Nat /\ To(j) <= Stop(j) /\ (To(j) % PageSize = 0 \/ To(j) = Stop(j))
<1>1. /\ Stop(j) \in Nat /\ ChunkEnd(j) \in Nat /\ ChunkEnd(j) <= Stop(j)
      /\ ChunkEnd(j) % PageSize = 0 \/ ChunkEnd(j) = Stop(j)
  BY ChunkRange
<1>2. From(j) \div PageSize \in Nat
  BY FromRange
<1> DEFINE ahead == {i \in From(j) \div PageSize .. PagesFor(ChunkEnd(j)) - 1 : Ready(j, i)}
           whole == (Stop(j) \div PageSize) * PageSize
           e == CHOOSE i \in ahead : \A k \in ahead : i <= k
<1>3. To(j) = IF Hybrid
              THEN IF From(j) < whole /\ whole <= ChunkEnd(j) THEN whole ELSE ChunkEnd(j)
              ELSE IF ahead = {} THEN ChunkEnd(j) ELSE e * PageSize
  BY DEF To
<1>4. whole \in Nat /\ whole % PageSize = 0 /\ whole <= Stop(j)
  BY <1>1, DivBounds, DivOfMult
<1>5. ASSUME ahead # {} PROVE e * PageSize \in Nat /\ e * PageSize <= ChunkEnd(j) /\ (e * PageSize) % PageSize = 0
  <2>1. PagesFor(ChunkEnd(j)) \in Nat
    BY <1>1, PagesForBounds
  <2>2. ahead \in SUBSET Nat
    BY <1>2, <2>1
  <2> HIDE DEF ahead
  <2>3. e \in ahead
    BY <1>5, <2>2, Least
  <2>4. e \in Nat /\ e < PagesFor(ChunkEnd(j))
    BY <1>2, <2>1, <2>3 DEF ahead
  <2> HIDE DEF e
  <2>5. ~(ChunkEnd(j) <= e * PageSize) /\ e * PageSize \in Nat
    BY <1>1, <2>1, <2>4, PagesForBounds, MultMono
  <2> QED BY <1>1, <2>4, <2>5, DivOfMult
<1> HIDE DEF ahead, whole, e
<1> QED BY <1>1, <1>3, <1>4, <1>5

-----------------------------------------------------------------------------
(* Operations of the page table.                                           *)

HashShape(h) == Len(h) >= PageSize \/ (Len(h) = 1 /\ h[1] < 0)

PageOk(x) ==
  /\ x \in CachePage /\ Len(x.toks) <= PageSize
  /\ \A a, b \in x.saved : a = b
  /\ x.saved # {} => x.refs = 1
  /\ HashShape(x.hash) /\ \A s \in x.saved : HashShape(s.hash) /\ Len(s.toks) <= PageSize
  /\ Len(x.hash) = 1 => x.refs <= 1

Distinct(t) == \A p, q \in Pages : p # q => t[p].hash # t[q].hash

TableOk(t) ==
  /\ t \in [Pages -> CachePage]
  /\ \A p \in Pages : PageOk(t[p])
  /\ Distinct(t)

\* The fields of a changed page.
LEMMA WithRefs ==
  ASSUME NEW x \in CachePage, NEW n \in Nat
  PROVE  LET y == [x EXCEPT !.refs = n]
         IN  y \in CachePage /\ y.hash = x.hash
             /\ y.prev = x.prev /\ y.refs = n /\ y.toks = x.toks /\ y.saved = x.saved
BY DEF CachePage

Renewed(x, n, s) == [x EXCEPT !.refs = n, !.saved = s]
Rehashed(x, h, r) == [x EXCEPT !.hash = h, !.prev = r]

\* Changing references and what can be reverted leaves the rest.
LEMMA RenewedFields ==
  ASSUME NEW x \in CachePage, NEW n \in Nat, NEW s \in SUBSET Save
  PROVE  LET y == Renewed(x, n, s)
         IN  /\ y \in CachePage /\ y.hash = x.hash /\ y.prev = x.prev /\ y.toks = x.toks
             /\ y.refs = n /\ y.saved = s
BY DEF CachePage, Renewed

\* Changing hash and link leaves the rest.
LEMMA RehashedFields ==
  ASSUME NEW x \in CachePage, NEW h \in Seq(Int), NEW r \in Seq(Int)
  PROVE  LET y == Rehashed(x, h, r)
         IN  /\ y \in CachePage /\ y.hash = h /\ y.prev = r /\ y.toks = x.toks
             /\ y.refs = x.refs /\ y.saved = x.saved
BY DEF CachePage, Rehashed

\* A cleared page.
LEMMA BlankFields ==
  ASSUME NEW h \in Seq(Int)
  PROVE  Blank(h) \in CachePage /\ Blank(h).hash = h /\ Blank(h).prev = Root /\ Blank(h).refs = 0 /\ Blank(h).toks = <<>> /\ Blank(h).saved = {}
BY DEF CachePage, Blank, Root

\* Linking a page just replaced.
LEMMA LinkReplaced ==
  ASSUME NEW t \in [Pages -> CachePage], NEW p \in Pages, NEW y \in CachePage, NEW h
  PROVE  [[t EXCEPT ![p] = y] EXCEPT ![p].prev = h] = [t EXCEPT ![p] = [y EXCEPT !.prev = h]]
OBVIOUS

\* Linking leaves the rest of a page.
LEMMA WithPrev ==
  ASSUME NEW x \in CachePage, NEW h \in Seq(Int)
  PROVE  LET y == [x EXCEPT !.prev = h]
         IN  y \in CachePage /\ y.hash = x.hash
             /\ y.prev = h /\ y.refs = x.refs /\ y.toks = x.toks /\ y.saved = x.saved
BY DEF CachePage

\* Giving back a reference, written as a replacement.
LEMMA LessRef ==
  ASSUME NEW t \in [Pages -> CachePage], NEW p \in Pages
  PROVE  [t EXCEPT ![p].refs = @ - 1] = [t EXCEPT ![p] = [t[p] EXCEPT !.refs = t[p].refs - 1]]
OBVIOUS

\* Replacing a page keeps the table sound when nobody else has the new hash.
LEMMA Replace ==
  ASSUME NEW t, TableOk(t), NEW p \in Pages, NEW x, PageOk(x),
         \A q \in Pages \ {p} : t[q].hash # x.hash
  PROVE  TableOk([t EXCEPT ![p] = x])
<1>1. x \in CachePage
  BY DEF PageOk
<1>2. [t EXCEPT ![p] = x] \in [Pages -> CachePage]
  BY <1>1 DEF TableOk
<1> QED BY <1>2 DEF TableOk, Distinct

\* add_ref keeps the table sound: the page is not one under a random hash that
\* is held.
LEMMA AddRefOk ==
  ASSUME NEW t, TableOk(t), NEW p \in Pages, Len(t[p].hash) # 1 \/ t[p].refs = 0
  PROVE  /\ TableOk(AddRef(t, p))
         /\ \A q \in Pages : q # p => AddRef(t, p)[q] = t[q]
         /\ AddRef(t, p)[p].hash = t[p].hash /\ AddRef(t, p)[p].toks = t[p].toks
         /\ AddRef(t, p)[p].prev = t[p].prev /\ AddRef(t, p)[p].refs = t[p].refs + 1
<1> DEFINE x == Renewed(t[p], t[p].refs + 1, {})
<1>1. t[p] \in CachePage /\ PageOk(t[p]) /\ t \in [Pages -> CachePage]
  BY DEF TableOk
<1>2. x \in CachePage /\ x.hash = t[p].hash /\ x.toks = t[p].toks /\ x.prev = t[p].prev /\ x.refs = t[p].refs + 1 /\ x.saved = {}
  <2>1. t[p].refs + 1 \in Nat /\ {} \in SUBSET Save
    BY <1>1 DEF CachePage
  <2> QED BY <1>1, <2>1, RenewedFields
<1>3. AddRef(t, p) = [t EXCEPT ![p] = x]
  BY <1>1 DEF AddRef, Renewed
<1> HIDE DEF x
<1>4. PageOk(x)
  <2>1. t[p].refs \in Nat
    BY <1>1 DEF CachePage
  <2> QED BY <1>1, <1>2, <2>1 DEF PageOk
<1>5. \A q \in Pages \ {p} : t[q].hash # x.hash
  BY <1>2 DEF TableOk, Distinct
<1>6. TableOk([t EXCEPT ![p] = x])
  BY <1>4, <1>5, Replace
<1> QED BY <1>1, <1>2, <1>3, <1>6

\* add_ref_clear under a hash nobody else has keeps the table sound.
LEMMA AddRefClearOk ==
  ASSUME NEW t, TableOk(t), NEW p \in Pages, NEW h \in Seq(Int), HashShape(h),
         \A q \in Pages \ {p} : t[q].hash # h
  PROVE  /\ TableOk(AddRefClear(t, p, h))
         /\ AddRefClear(t, p, h) = [t EXCEPT ![p] = [Blank(h) EXCEPT !.refs = 1]]
         /\ \A q \in Pages : q # p => AddRefClear(t, p, h)[q] = t[q]
         /\ AddRefClear(t, p, h)[p].hash = h /\ AddRefClear(t, p, h)[p].toks = <<>>
         /\ AddRefClear(t, p, h)[p].prev = Root /\ AddRefClear(t, p, h)[p].refs = 1
<1> DEFINE x == [Blank(h) EXCEPT !.refs = 1]
<1>1. t \in [Pages -> CachePage]
  BY DEF TableOk
<1>2. x \in CachePage /\ x.hash = h /\ x.toks = <<>> /\ x.prev = Root /\ x.refs = 1 /\ x.saved = {}
  BY BlankFields, WithRefs
<1>6. x = [Blank(h) EXCEPT !.refs = 1]
  OBVIOUS
<1>3. AddRefClear(t, p, h) = [t EXCEPT ![p] = x]
  BY DEF AddRefClear
<1> HIDE DEF x
<1>4. PageOk(x)
  BY <1>2, PageTableAssumption DEF PageOk
<1>5. TableOk([t EXCEPT ![p] = x])
  BY <1>2, <1>4, Replace
<1> QED BY <1>1, <1>2, <1>3, <1>5, <1>6

\* add_ref_unique keeps the table sound, whatever the page is linked to.
LEMMA AddRefUniqueOk ==
  ASSUME NEW t, TableOk(t), NEW p \in Pages, NEW h \in Seq(Int)
  PROVE  LET u == [AddRefUnique(t, p) EXCEPT ![p].prev = h]
         IN  /\ TableOk(u)
             /\ \A q \in Pages : q # p => u[q] = t[q]
             /\ Len(u[p].hash) = 1 /\ u[p].toks = <<>> /\ u[p].prev = h /\ u[p].refs = 1
             /\ u[p].saved = {[hash |-> t[p].hash, prev |-> t[p].prev, toks |-> t[p].toks]}
<1> DEFINE s == [hash |-> t[p].hash, prev |-> t[p].prev, toks |-> t[p].toks]
           r == RandomHash(t)
           y == Renewed(Blank(r), 1, {s})
           x == [y EXCEPT !.prev = h]
           u == [AddRefUnique(t, p) EXCEPT ![p].prev = h]
<1>1. t[p] \in CachePage /\ PageOk(t[p]) /\ t \in [Pages -> CachePage]
  BY DEF TableOk
<1>2. r \in Seq(Int) /\ Len(r) = 1 /\ r[1] < 0 /\ \A q \in Pages : t[q].hash # r
  BY Fresh DEF TableOk, PageOk
<1>3. s \in Save /\ HashShape(s.hash) /\ Len(s.toks) <= PageSize
  BY <1>1 DEF CachePage, Save, PageOk
<1>4. AddRefUnique(t, p) = [t EXCEPT ![p] = y]
  BY DEF AddRefUnique, Renewed
<1>5. u = [AddRefUnique(t, p) EXCEPT ![p].prev = h]
  OBVIOUS
<1> HIDE DEF s, r, u
<1>6. y \in CachePage /\ y.hash = r /\ y.prev = Root /\ y.refs = 1 /\ y.toks = <<>> /\ y.saved = {s}
  <2>1. Blank(r) \in CachePage /\ Blank(r).hash = r /\ Blank(r).prev = Root /\ Blank(r).toks = <<>>
    BY <1>2, BlankFields
  <2>2. {s} \in SUBSET Save
    BY <1>3
  <2> QED BY <2>1, <2>2, RenewedFields
<1> HIDE DEF y
<1>7. x \in CachePage /\ x.hash = r /\ x.prev = h /\ x.refs = 1 /\ x.toks = <<>> /\ x.saved = {s}
  BY <1>6, WithPrev
<1>8. u = [t EXCEPT ![p] = x]
  BY <1>1, <1>4, <1>5, <1>6, LinkReplaced
<1> HIDE DEF x
<1>9. HashShape(r)
  BY <1>2 DEF HashShape
<1>10. PageOk(x)
  BY <1>2, <1>3, <1>7, <1>9, PageTableAssumption DEF PageOk
<1>11. TableOk([t EXCEPT ![p] = x])
  BY <1>2, <1>7, <1>10, Replace
<1>12. u[p] = x /\ \A q \in Pages : q # p => u[q] = t[q]
  BY <1>1, <1>8
<1>13. TableOk(u) /\ Len(u[p].hash) = 1 /\ u[p].toks = <<>> /\ u[p].prev = h /\ u[p].refs = 1 /\ u[p].saved = {s}
  BY <1>2, <1>7, <1>8, <1>11, <1>12
<1> QED BY <1>12, <1>13 DEF u, s

\* sub_ref keeps the table sound, the reverted hash that was given away
\* included.
LEMMA SubRefOk ==
  ASSUME NEW t, TableOk(t), NEW p \in Pages, t[p].refs >= 1
  PROVE  /\ TableOk(SubRef(t, p))
         /\ \A q \in Pages : q # p => SubRef(t, p)[q] = t[q]
         /\ SubRef(t, p)[p].refs = t[p].refs - 1
         /\ t[p].refs > 1 => SubRef(t, p)[p].hash = t[p].hash /\ SubRef(t, p)[p].toks = t[p].toks
         /\ t[p].saved = {} => SubRef(t, p)[p].hash = t[p].hash
<1>1. t[p] \in CachePage /\ PageOk(t[p]) /\ t \in [Pages -> CachePage]
  BY DEF TableOk
<1>2. CASE t[p].refs > 1
  <2> DEFINE x == [t[p] EXCEPT !.refs = t[p].refs - 1]
  <2>1. x \in CachePage /\ x.hash = t[p].hash /\ x.toks = t[p].toks /\ x.refs = t[p].refs - 1 /\ x.saved = t[p].saved
    <3>1. t[p].refs - 1 \in Nat
      BY <1>1, <1>2 DEF CachePage
    <3> QED BY <1>1, <3>1, WithRefs
  <2>2. SubRef(t, p) = [t EXCEPT ![p] = x]
    BY <1>1, <1>2, LessRef DEF SubRef
  <2> HIDE DEF x
  <2>3. PageOk(x)
    <3>1. t[p].saved = {} /\ t[p].refs \in Nat
      BY <1>1, <1>2 DEF PageOk, CachePage
    <3> QED BY <1>1, <1>2, <2>1, <3>1 DEF PageOk
  <2>4. \A q \in Pages \ {p} : t[q].hash # x.hash
    BY <2>1 DEF TableOk, Distinct
  <2>5. TableOk([t EXCEPT ![p] = x])
    BY <2>3, <2>4, Replace
  <2> QED BY <1>1, <1>2, <2>1, <2>2, <2>5
<1>3. CASE t[p].refs = 1
  <2> DEFINE back == [Reverted(t[p]) EXCEPT !.refs = 0]
             clash == \E q \in Pages \ {p} : t[q].hash = back.hash
             r == RandomHash(t)
             x == IF clash THEN Rehashed(back, r, Root) ELSE back
  <2>1. /\ back \in CachePage /\ back.refs = 0 /\ back.saved = {}
        /\ HashShape(back.hash) /\ Len(back.toks) <= PageSize
        /\ t[p].saved = {} => back.hash = t[p].hash
    <3>1. CASE t[p].saved = {}
      BY <1>1, <3>1 DEF Reverted, CachePage, PageOk
    <3>2. CASE t[p].saved # {}
      <4> DEFINE s == CHOOSE y \in t[p].saved : TRUE
      <4>1. s \in t[p].saved
        BY <3>2
      <4>2. s \in Save /\ HashShape(s.hash) /\ Len(s.toks) <= PageSize
        BY <1>1, <4>1 DEF CachePage, PageOk
      <4>3. back = [[t[p] EXCEPT !.hash = s.hash, !.prev = s.prev, !.toks = s.toks, !.saved = {}] EXCEPT !.refs = 0]
        BY <3>2 DEF Reverted
      <4> HIDE DEF s, back
      <4> QED BY <1>1, <3>2, <4>2, <4>3 DEF CachePage, Save
    <3> QED BY <3>1, <3>2
  <2>2. r \in Seq(Int) /\ Len(r) = 1 /\ r[1] < 0 /\ \A q \in Pages : t[q].hash # r
    BY Fresh DEF TableOk, PageOk
  <2>3. SubRef(t, p) = [t EXCEPT ![p] = x]
    BY <1>3 DEF SubRef, Rehashed
  <2> HIDE DEF back, r
  <2>4. /\ x \in CachePage /\ x.refs = 0 /\ x.saved = {} /\ HashShape(x.hash) /\ Len(x.toks) <= PageSize
        /\ \A q \in Pages \ {p} : t[q].hash # x.hash
        /\ t[p].saved = {} => x.hash = t[p].hash
    <3>1. HashShape(r)
      BY <2>2 DEF HashShape
    <3>2. CASE clash
      <4>1. t[p].saved # {}
        BY <2>1, <3>2 DEF TableOk, Distinct
      <4>2. x = Rehashed(back, r, Root)
        BY <3>2
      <4>3. x \in CachePage /\ x.hash = r /\ x.refs = 0 /\ x.saved = {} /\ x.toks = back.toks
        <5> DEFINE z == Rehashed(back, r, Root)
        <5>1. Root \in Seq(Int)
          BY DEF Root
        <5>2. z \in CachePage /\ z.hash = r /\ z.refs = back.refs /\ z.saved = back.saved /\ z.toks = back.toks
          BY <2>1, <2>2, <5>1, RehashedFields
        <5> HIDE DEF x
        <5> QED BY <2>1, <4>2, <5>2
      <4> HIDE DEF x
      <4> QED BY <2>1, <2>2, <3>1, <4>1, <4>3
    <3>3. CASE ~clash
      BY <2>1, <3>3
    <3> QED BY <3>2, <3>3
  <2> HIDE DEF x, clash
  <2>5. PageOk(x)
    BY <2>4 DEF PageOk
  <2>6. TableOk([t EXCEPT ![p] = x])
    BY <2>4, <2>5, Replace
  <2> QED BY <1>1, <1>3, <2>3, <2>4, <2>6
<1>4. t[p].refs \in Nat
  BY <1>1 DEF CachePage
<1> QED BY <1>2, <1>3, <1>4

\* clear keeps the table sound.
LEMMA ClearOk ==
  ASSUME NEW t, TableOk(t), NEW p \in Pages
  PROVE  /\ TableOk(Clear(t, p))
         /\ \A q \in Pages : q # p => Clear(t, p)[q] = t[q]
         /\ Len(Clear(t, p)[p].hash) = 1 /\ Clear(t, p)[p].refs = 0 /\ Clear(t, p)[p].toks = <<>>
<1> DEFINE r == RandomHash(t)
           x == Blank(r)
<1>1. t \in [Pages -> CachePage]
  BY DEF TableOk
<1>2. r \in Seq(Int) /\ Len(r) = 1 /\ r[1] < 0 /\ \A q \in Pages : t[q].hash # r
  BY Fresh DEF TableOk, PageOk
<1>3. Clear(t, p) = [t EXCEPT ![p] = x]
  BY DEF Clear
<1> HIDE DEF r
<1>4. x \in CachePage /\ x.hash = r /\ x.toks = <<>> /\ x.refs = 0 /\ x.saved = {}
  BY <1>2 DEF Blank, CachePage, Root
<1>5. HashShape(r)
  BY <1>2 DEF HashShape
<1> HIDE DEF x
<1>6. PageOk(x)
  BY <1>4, <1>5, PageTableAssumption DEF PageOk
<1>7. TableOk([t EXCEPT ![p] = x])
  BY <1>2, <1>4, <1>6, Replace
<1> QED BY <1>1, <1>2, <1>3, <1>4, <1>7

\* An operation that only changes a page's tokens, link and revertibility.
LEMMA WriteOk ==
  ASSUME NEW t, TableOk(t), NEW p \in Pages, NEW x \in CachePage,
         x.hash = t[p].hash, x.refs = t[p].refs, Len(x.toks) <= PageSize,
         x.saved = {} \/ x.saved = t[p].saved
  PROVE  /\ TableOk([t EXCEPT ![p] = x])
         /\ \A q \in Pages : q # p => [t EXCEPT ![p] = x][q] = t[q]
         /\ [t EXCEPT ![p] = x][p] = x
<1>1. t[p] \in CachePage /\ PageOk(t[p]) /\ t \in [Pages -> CachePage]
  BY DEF TableOk
<1>2. PageOk(x)
  BY <1>1 DEF PageOk
<1>3. \A q \in Pages \ {p} : t[q].hash # x.hash
  BY DEF TableOk, Distinct
<1> QED BY <1>1, <1>2, <1>3, Replace

-----------------------------------------------------------------------------
(* The invariant of pages and jobs, and what a step leaves to others.      *)

KvOk == kv \in [Pages -> [1 .. PageSize -> Seq(Tokens)]]

Own(j, i) == table[job[j].pages[i]]

\* Along the pages of a job hashes grow, and once one hangs off a page with a
\* random hash all do.
Grows(a, b) == Len(a) < Len(b) \/ (Rooted(a) /\ ~Rooted(b))

\* The pages a job is done with: taken from the cache, or written.
Done(j) == Larger(HashedPages(j), FirstPage(j))

PagesOf(j) ==
  /\ Len(job[j].pages) = TotalPages(job[j].prompt)
  /\ \A i \in Done(j) + 1 .. Len(job[j].pages) :
       Len(Own(j, i).hash) = 1 /\ (PrefillDone(j) \/ Len(Own(j, i).toks) < PageSize)
  /\ \A y \in 1 .. Done(j) : \A x \in 1 .. y - 1 : Grows(Own(j, x).hash, Own(j, y).hash)
  /\ \A i \in 1 .. HashedPages(j) : Own(j, i).hash = PageHash(j, i)

Running == {j \in Working : phase = "claim" => j # Starting}

Claiming ==
  phase = "claim" =>
    /\ job[Starting].kvp = 0 /\ job[Starting].new = 0
    /\ Claimed <= TotalPages(job[Starting].prompt)
    /\ \A i \in 1 .. Claimed :
         /\ i <= HashedPages(Starting) => Own(Starting, i).hash = PageHash(Starting, i)
         /\ i > HashedPages(Starting) => Len(Own(Starting, i).hash) = 1 /\ Own(Starting, i).toks = <<>>

JobsOk == JobTypes /\ \A j \in Jobs : JobShape(j)

Memory ==
  /\ TableOk(table) /\ KvOk /\ RefCounts
  /\ \A j \in Running : PagesOf(j)
  /\ Claiming /\ NeverStarves

IInv == Queues /\ JobsOk /\ Memory

\* The pages of a job are pages.
LEMMA PageIn ==
  ASSUME JobTypes, NEW j \in Jobs
  PROVE  /\ job[j].pages \in Seq(Pages) /\ Len(job[j].pages) \in Nat
         /\ DOMAIN job[j].pages = 1 .. Len(job[j].pages)
         /\ \A i \in 1 .. Len(job[j].pages) :
              job[j].pages[i] \in Pages /\ job[j].pages[i] \in ToSet(job[j].pages)
BY DEF JobTypes, Job, ToSet

\* Reference counts stay exact when nobody takes or gives back a page.
LEMMA RefCountsKept ==
  ASSUME RefCounts, \A j \in Jobs : job'[j].pages = job[j].pages,
         \A p \in Pages : table'[p].refs = table[p].refs
  PROVE  RefCounts'
<1>1. \A p \in Pages : {j \in Jobs : p \in ToSet(job'[j].pages)} = {j \in Jobs : p \in ToSet(job[j].pages)}
  OBVIOUS
<1> QED BY <1>1 DEF RefCounts

\* The pages a job has completed are fewer than it has.
LEMMA DoneBounds ==
  ASSUME JobTypes, NEW j \in Jobs, Started(j), JobShape(j)
  PROVE  /\ FirstPage(j) \in Nat /\ FirstPage(j) < TotalPages(job[j].prompt)
         /\ HashedPages(j) \in Nat /\ HashedPages(j) < TotalPages(job[j].prompt)
         /\ Done(j) \in Nat /\ Done(j) < TotalPages(job[j].prompt)
         /\ TotalPages(job[j].prompt) \in Nat
         /\ FirstPage(j) <= Done(j) /\ HashedPages(j) <= Done(j)
         /\ PrefillDone(j) => HashedPages(j) <= FirstPage(j) /\ Done(j) = FirstPage(j)
<1> DEFINE n == job[j].prompt
           k == job[j].kvp
<1>1. n \in Nat /\ k \in Nat /\ job[j].new \in Nat /\ n >= 1 /\ job[j].new <= MaxTokens /\ k < n + job[j].new
  BY DEF JobTypes, Job, JobShape
<1>2. PrefillDone(j) => k = n + job[j].new - 1
  <2>1. Len(job[j].ids) = n + job[j].new
    BY DEF JobShape
  <2> QED BY <1>1, <2>1 DEF PrefillDone
<1>3. FirstPage(j) = k \div PageSize
  BY DEF FirstPage
<1>4. MaxTokens \in Nat /\ Depth \in Nat
  BY GeneratorAssumption, PageTableAssumption
<1>5. HashedPages(j) \in Nat /\ HashedPages(j) * PageSize <= n - 1
  BY <1>1, HashedBounds
<1> HIDE DEF n, k
<1>6. k < n + MaxTokens + Depth + 1 /\ n - 1 \in Nat /\ n - 1 < n + MaxTokens + Depth + 1
  BY <1>1, <1>4
<1>7. TotalPages(n) \in Nat /\ k \div PageSize < TotalPages(n) /\ (n - 1) \div PageSize < TotalPages(n)
  BY <1>1, <1>6, PagesEnough
<1>8. k \div PageSize \in Nat /\ (n - 1) \div PageSize \in Nat /\ HashedPages(j) <= (n - 1) \div PageSize
  BY <1>1, <1>5, <1>6, DivBounds
<1>9. PrefillDone(j) => (n - 1) \div PageSize <= k \div PageSize
  BY <1>1, <1>2, <1>6, DivMono
<1>10. TotalPages(n) = TotalPages(job[j].prompt)
  BY DEF n
<1> QED BY <1>3, <1>5, <1>7, <1>8, <1>9, <1>10 DEF Done, Larger

\* A job keeps its pages in order when their hashes stay, and tokens only
\* change in pages under a content hash.
LEMMA PagesFrame ==
  ASSUME NEW j \in Jobs, job'[j] = job[j], PagesOf(j), JobTypes, Started(j), JobShape(j),
         \A i \in 1 .. Len(job[j].pages) :
           LET p == job[j].pages[i]
           IN  table'[p].hash = table[p].hash /\ (Len(table[p].hash) = 1 => table'[p].toks = table[p].toks)
  PROVE  PagesOf(j)'
<1>1. Done(j)' = Done(j) /\ PrefillDone(j)' = PrefillDone(j)
  BY DEF Done, PrefillDone, HashedPages, FirstPage, Larger
<1>2. TotalPages(job'[j].prompt) = TotalPages(job[j].prompt)
  OBVIOUS
<1>3. Done(j) \in Nat /\ Done(j) <= Len(job[j].pages)
  BY DoneBounds DEF PagesOf
<1>4. \A i \in 1 .. Len(job[j].pages) :
        /\ Own(j, i)'.hash = Own(j, i).hash
        /\ Len(Own(j, i).hash) = 1 => Own(j, i)'.toks = Own(j, i).toks
  BY DEF Own
<1>5. ASSUME NEW i \in Done(j) + 1 .. Len(job[j].pages)
      PROVE  Len(Own(j, i)'.hash) = 1 /\ (PrefillDone(j) \/ Len(Own(j, i)'.toks) < PageSize)
  <2>1. i \in 1 .. Len(job[j].pages)
    BY <1>3, PageIn
  <2>2. Len(Own(j, i).hash) = 1 /\ (PrefillDone(j) \/ Len(Own(j, i).toks) < PageSize)
    BY DEF PagesOf
  <2> QED BY <1>4, <2>1, <2>2
<1>6. ASSUME NEW y \in 1 .. Done(j), NEW x \in 1 .. y - 1
      PROVE  Grows(Own(j, x)'.hash, Own(j, y)'.hash)
  <2>1. x \in 1 .. Len(job[j].pages) /\ y \in 1 .. Len(job[j].pages)
    BY <1>3, PageIn
  <2>2. Grows(Own(j, x).hash, Own(j, y).hash)
    BY DEF PagesOf
  <2> QED BY <1>4, <2>1, <2>2
<1>7. Len(job'[j].pages) = TotalPages(job'[j].prompt)
  BY DEF PagesOf
<1>8. HashedPages(j)' = HashedPages(j) /\ \A i : (PageHash(j, i))' = PageHash(j, i)
  BY DEF HashedPages, PageHash
<1>9. ASSUME NEW i \in 1 .. HashedPages(j)
      PROVE  Own(j, i)'.hash = PageHash(j, i)
  <2>1. i \in 1 .. Len(job[j].pages)
    BY <1>3, PageIn, DoneBounds
  <2>2. Own(j, i).hash = PageHash(j, i)
    BY DEF PagesOf
  <2> QED BY <1>4, <2>1, <2>2
<1> QED BY <1>1, <1>5, <1>6, <1>7, <1>8, <1>9 DEF PagesOf

\* What one job does to its own pages leaves the pages of another job as they
\* are.
LEMMA OthersKept ==
  ASSUME RefCounts, TableOk(table), JobTypes, NEW j \in Jobs, NEW k \in Jobs, k # j, job'[k] = job[k], PagesOf(k),
         Started(k), JobShape(k),
         \A p \in Pages :
           \/ table'[p].hash = table[p].hash /\ table'[p].toks = table[p].toks
           \/ table[p].refs = 0
           \/ p \in ToSet(job[j].pages) /\ (table'[p].hash = table[p].hash \/ table[p].refs <= 1)
  PROVE  PagesOf(k)'
<1>1. ASSUME NEW i \in 1 .. Len(job[k].pages)
      PROVE  LET p == job[k].pages[i]
             IN  table'[p].hash = table[p].hash /\ (Len(table[p].hash) = 1 => table'[p].toks = table[p].toks)
  <2> DEFINE p == job[k].pages[i]
  <2>1. p \in Pages /\ p \in ToSet(job[k].pages)
    BY PageIn
  <2> HIDE DEF p
  <2>2. table[p].refs >= 1
    BY <2>1, Held
  <2>3. p \in ToSet(job[j].pages) => ~(table[p].refs <= 1)
    BY <2>1, Held
  <2>4. Len(table[p].hash) = 1 => table[p].refs <= 1
    BY <2>1 DEF TableOk, PageOk
  <2>5. /\ \/ table'[p].hash = table[p].hash /\ table'[p].toks = table[p].toks
           \/ p \in ToSet(job[j].pages) /\ table'[p].hash = table[p].hash
    BY <2>1, <2>2, <2>3
  <2>6. table'[p].hash = table[p].hash /\ (Len(table[p].hash) = 1 => table'[p].toks = table[p].toks)
    BY <2>3, <2>4, <2>5
  <2> QED BY <2>6 DEF p
<1> QED BY <1>1, PagesFrame

\* A step that leaves the table alone.
LEMMA QuietKept ==
  ASSUME JobTypes, NEW k \in Jobs, job'[k] = job[k], PagesOf(k),
         Started(k), JobShape(k), table' = table
  PROVE  PagesOf(k)'
BY PagesFrame

\* A job nobody touches keeps its shape.
LEMMA JobShapeKept ==
  ASSUME NEW j \in Jobs, JobShape(j), job'[j] = job[j],
         j \notin ToSet(finished') => j \notin ToSet(finished)
  PROVE  JobShape(j)'
<1>1. Started(j)' = Started(j) /\ PrefillDone(j)' = PrefillDone(j) /\ TotalPages(job'[j].prompt) = TotalPages(job[j].prompt)
  BY DEF Started, PrefillDone
<1> QED BY <1>1 DEF JobShape

-----------------------------------------------------------------------------
(* Prefill positions.                                                      *)

\* Prefill never starts behind the prompt: pages that are not done are not complete.
LEMMA FromLow ==
  ASSUME JobsOk, NEW j \in Jobs, Started(j), PagesOf(j), ~PrefillDone(j)
  PROVE  From(j) <= Stop(j) /\ From(j) \div PageSize <= Done(j)
<1>1. JobTypes /\ JobShape(j)
  BY DEF JobsOk
<1> DEFINE q == From(j) \div PageSize
           f == FirstPage(j)
<1>2. /\ From(j) \in Nat /\ q * PageSize = From(j) /\ q \in Nat /\ f <= q
      /\ \A i \in f .. q - 1 : Ready(j, i)
      /\ q <= PagesFor(ChunkEnd(j))
  BY <1>1, FromRange DEF JobTypes
<1>3. /\ Stop(j) \in Nat /\ job[j].kvp < Stop(j) /\ Stop(j) = job[j].prompt - 1 /\ job[j].kvp \in Nat
      /\ job[j].kvp = f * PageSize /\ f \in Nat /\ ChunkEnd(j) \in Nat /\ ChunkEnd(j) <= Stop(j)
  BY <1>1, ChunkRange DEF JobTypes
<1>4. /\ Done(j) \in Nat /\ f <= Done(j) /\ HashedPages(j) \in Nat
      /\ Done(j) < TotalPages(job[j].prompt) /\ TotalPages(job[j].prompt) \in Nat
      /\ Done(j) = Larger(HashedPages(j), f)
  BY <1>1, DoneBounds DEF Done
<1>0. job[j].prompt \in Nat /\ job[j].prompt >= 1
  BY <1>1 DEF JobTypes, Job, JobShape
<1> HIDE DEF q, f
<1>5. q <= Done(j)
  <2> SUFFICES ASSUME q > Done(j) PROVE FALSE
    BY <1>2, <1>4
  <2>1. q - 1 \in f .. q - 1 /\ q - 1 \in Nat /\ Done(j) + 1 <= q
    BY <1>2, <1>3, <1>4
  <2>2. Ready(j, q - 1)
    BY <1>2, <2>1
  <2>3. job[j].pages[(q - 1) + 1] = job[j].pages[q]
    BY <1>2
  <2>4. Len(Own(j, q).toks) = PageSize
    BY <2>2, <2>3 DEF Ready, PageAt, Complete, Own
  <2>5. q <= Len(job[j].pages)
    <3>1. ChunkEnd(j) <= job[j].prompt /\ job[j].prompt \in Nat
      BY <1>0, <1>3
    <3>2. PagesFor(job[j].prompt) <= TotalPages(job[j].prompt) /\ PagesFor(job[j].prompt) \in Nat
      BY <3>1, PagesEnough, PagesForBounds
    <3>3. job[j].prompt <= PagesFor(job[j].prompt) * PageSize /\ PagesFor(job[j].prompt) * PageSize \in Nat
      <4>1. PagesFor(job[j].prompt) <= PagesFor(job[j].prompt)
        BY <3>2
      <4> QED BY <3>1, <3>2, <4>1, PagesForBounds, MultMono
    <3>4. ChunkEnd(j) <= PagesFor(job[j].prompt) * PageSize
      BY <1>3, <3>1, <3>3
    <3>5. PagesFor(ChunkEnd(j)) <= PagesFor(job[j].prompt) /\ PagesFor(ChunkEnd(j)) \in Nat
      BY <1>3, <3>2, <3>4, PagesForBounds
    <3>6. Len(job[j].pages) = TotalPages(job[j].prompt)
      BY DEF PagesOf
    <3> QED BY <1>2, <1>4, <3>2, <3>5, <3>6
  <2>6. q \in Done(j) + 1 .. Len(job[j].pages)
    BY <1>1, <1>2, <1>4, <2>1, <2>5, PageIn
  <2>7. Len(Own(j, q).toks) < PageSize
    BY <2>6 DEF PagesOf
  <2> QED BY <2>4, <2>7, PageTableAssumption
<1>6. From(j) <= Stop(j)
  <2>1. q * PageSize <= Done(j) * PageSize /\ Done(j) * PageSize \in Nat
    BY <1>2, <1>4, <1>5, MultMono
  <2>2. HashedPages(j) * PageSize <= Stop(j)
    BY <1>0, <1>3, HashedBounds
  <2>3. Done(j) * PageSize <= Stop(j)
    <3>1. f * PageSize <= Stop(j)
      BY <1>3
    <3> QED BY <1>3, <1>4, <2>2, <3>1 DEF Larger
  <2> QED BY <1>2, <1>3, <2>1, <2>3
<1> QED BY <1>5, <1>6 DEF q

\* What allocate_pages finds complete are pages taken from the cache.
LEMMA CachedBound ==
  ASSUME JobsOk, Claiming, phase = "claim", Starting \in Jobs, Started(Starting),
         Claimed = TotalPages(job[Starting].prompt)
  PROVE  Cached(job[Starting].pages) \in Nat /\ Cached(job[Starting].pages) <= HashedPages(Starting)
<1> DEFINE j == Starting
           S == {i \in DOMAIN job[j].pages : \A k \in 1 .. i : Complete(table, job[j].pages[k])}
<1>1. JobTypes /\ JobShape(j) /\ HashedPages(j) \in Nat
  BY DoneBounds DEF JobsOk
<1>2. DOMAIN job[j].pages = 1 .. Len(job[j].pages) /\ Len(job[j].pages) \in Nat
  BY <1>1, PageIn
<1>3. S \in SUBSET (1 .. HashedPages(j))
  <2> SUFFICES ASSUME NEW i \in S, i > HashedPages(j) PROVE FALSE
    BY <1>1, <1>2
  <2>1. i \in 1 .. Claimed /\ i \in Nat
    BY <1>2 DEF Claimed
  <2>2. Own(j, i).toks = <<>>
    BY <2>1 DEF Claiming
  <2>3. Len(Own(j, i).toks) = PageSize
    BY <2>1 DEF Complete, Own
  <2> QED BY <2>2, <2>3, PageTableAssumption
<1>4. Cached(job[j].pages) = Cardinality(S)
  BY DEF Cached
<1> HIDE DEF S
<1>5. IsFiniteSet(1 .. HashedPages(j)) /\ Cardinality(1 .. HashedPages(j)) = HashedPages(j)
  BY <1>1, CardinalityUpto
<1>6. IsFiniteSet(S) /\ Cardinality(S) <= HashedPages(j)
  BY <1>3, <1>5, FS_Subset
<1>7. Cardinality(S) \in Nat
  BY <1>6, FS_CardinalityType
<1> QED BY <1>4, <1>6, <1>7

-----------------------------------------------------------------------------
(* Jobs through a step.                                                    *)

LEMMA TurnRuns ==
  ASSUME Queues, phase \in {"prefill", "decode"}, todo # <<>>
  PROVE  Turn \in Jobs /\ Turn \in Running /\ StateOf(Turn) = "active" /\ Turn \notin ToSet(finished)
<1>1. todo[1] \in ToSet(todo) /\ todo[1] \in Jobs
  BY SeqTail DEF Queues, QueueTypes
<1> QED BY <1>1 DEF Queues, QueueTypes, Turn, Running, Working

\* Who claims pages is in the batch.
LEMMA StarterRuns ==
  ASSUME Queues, phase = "claim"
  PROVE  Starting \in Jobs /\ StateOf(Starting) = "active" /\ Starting \notin ToSet(finished)
<1>1. active \in Seq(Jobs) /\ active # <<>>
  BY DEF Queues, QueueTypes
<1>2. Len(active) \in 1 .. Len(active) /\ Starting = active[Len(active)]
  BY <1>1 DEF Starting, Last
<1>3. Starting \in Jobs /\ Starting \in ToSet(active)
  BY <1>1, <1>2 DEF ToSet
<1>4. ToSet(finished) = {}
  BY ToSetEmpty DEF Queues
<1> QED BY <1>3, <1>4 DEF Queues

\* What is known of a running job.
LEMMA RunningOk ==
  ASSUME Queues, JobsOk, NEW j \in Running
  PROVE  /\ j \in Jobs /\ StateOf(j) = "active" /\ Started(j) /\ JobShape(j) /\ JobTypes
         /\ j \notin ToSet(finished) /\ j \in ToSet(active) /\ (phase = "claim" => j # Starting)
BY DEF Running, Working, Queues, QueueTypes, JobsOk, StateOf, Started, ToSet

\* A chunk of a prompt moves the job's position and nothing else.
LEMMA PositionOnly ==
  ASSUME JobsOk, NEW j \in Jobs, job[j].state = "active", job[j].new = 0, NEW x \in Nat,
         job' = [job EXCEPT ![j].kvp = x], x <= Stop(j), x % PageSize = 0 \/ x = Stop(j),
         finished' = finished
  PROVE  JobsOk'
<1>1. JobTypes /\ JobShape(j) /\ job[j] \in Job /\ Started(j)
  BY DEF JobsOk, JobTypes, Started
<1>2. /\ \A k \in Jobs : k # j => job'[k] = job[k]
      /\ job'[j].kvp = x /\ job'[j].ids = job[j].ids /\ job'[j].prompt = job[j].prompt
      /\ job'[j].pages = job[j].pages /\ job'[j].new = job[j].new /\ job'[j].state = job[j].state
      /\ job' \in [Jobs -> Job]
  BY <1>1 DEF JobTypes, Job
<1>3. \A k \in Jobs : k # j => JobShape(k)'
  BY <1>2, JobShapeKept DEF JobsOk
<1>4. /\ job[j].prompt >= 1 /\ Len(job[j].ids) = job[j].prompt + job[j].new
      /\ TotalPages(job[j].prompt) <= Cardinality(Pages)
      /\ job[j].new <= MaxTokens
      /\ job[j].state = "active" /\ j \notin ToSet(finished) => job[j].new < MaxTokens
  BY <1>1 DEF JobShape
<1>5. job[j].prompt \in Nat
  BY <1>1 DEF Job
<1>6. Stop(j) \in Nat /\ Stop(j) = Len(job[j].ids) - 1 /\ Len(job[j].ids) \in Nat
  BY <1>4, <1>5 DEF Stop
<1>7. Started(j)' /\ (PrefillDone(j)' <=> x = Stop(j))
  BY <1>1, <1>2, <1>6 DEF Started, PrefillDone
<1>8. TotalPages(job'[j].prompt) = TotalPages(job[j].prompt)
  BY <1>2
<1>9. JobShape(j)'
  BY <1>2, <1>4, <1>6, <1>7, <1>8 DEF JobShape
<1> QED BY <1>2, <1>3, <1>9 DEF JobsOk, JobTypes

\* A step that gives a running job other pages and nothing else.
LEMMA PagesOnly ==
  ASSUME JobsOk, NEW j \in Jobs, job[j].state = "active", NEW b \in Seq(Pages),
         job' = [job EXCEPT ![j].pages = b], finished' = finished
  PROVE  /\ JobsOk' /\ job'[j].pages = b /\ \A k \in Jobs : k # j => job'[k] = job[k]
         /\ job'[j].ids = job[j].ids /\ job'[j].prompt = job[j].prompt /\ job'[j].kvp = job[j].kvp
         /\ job'[j].new = job[j].new /\ job'[j].state = job[j].state
<1>1. JobTypes /\ JobShape(j) /\ job[j] \in Job /\ Started(j)
  BY DEF JobsOk, JobTypes, Started
<1>2. /\ \A k \in Jobs : k # j => job'[k] = job[k]
      /\ job'[j].pages = b /\ job'[j].ids = job[j].ids /\ job'[j].prompt = job[j].prompt
      /\ job'[j].kvp = job[j].kvp /\ job'[j].new = job[j].new /\ job'[j].state = job[j].state
      /\ job' \in [Jobs -> Job]
  BY <1>1 DEF JobTypes, Job
<1>3. \A k \in Jobs : k # j => JobShape(k)'
  BY <1>2, JobShapeKept DEF JobsOk
<1>4. /\ Started(j)' /\ (PrefillDone(j)' <=> PrefillDone(j))
      /\ TotalPages(job'[j].prompt) = TotalPages(job[j].prompt)
  BY <1>1, <1>2 DEF Started, PrefillDone
<1>5. JobShape(j)'
  BY <1>1, <1>2, <1>4 DEF JobShape
<1> QED BY <1>2, <1>3, <1>5 DEF JobsOk, JobTypes

\* A job that is over has nothing.
LEMMA OverJobFields ==
  OverJob \in Job /\ OverJob.state = "over" /\ OverJob.pages = <<>> /\ OverJob.kvp = 0 /\ OverJob.new = 0
<1>1. NewJob \in Job /\ NewJob.pages = <<>> /\ NewJob.kvp = 0 /\ NewJob.new = 0
  BY DEF NewJob, Job, States
<1>2. \A x \in Job : LET y == [x EXCEPT !.state = "over"]
                     IN  y \in Job /\ y.state = "over" /\ y.pages = x.pages /\ y.kvp = x.kvp /\ y.new = x.new
  BY DEF Job, States
<1>3. OverJob = [NewJob EXCEPT !.state = "over"]
  BY DEF OverJob
<1> HIDE DEF NewJob, OverJob
<1> QED BY <1>1, <1>2, <1>3

\* Starting a job, or passing it over, leaves the rest of it.
LEMMA StartedFields ==
  ASSUME NEW x \in Job
  PROVE  /\ LET y == [x EXCEPT !.state = "active"]
            IN  /\ y \in Job /\ y.state = "active" /\ y.ids = x.ids /\ y.prompt = x.prompt
                /\ y.pages = x.pages /\ y.kvp = x.kvp /\ y.new = x.new
         /\ LET y == [x EXCEPT !.skips = @ + 1]
            IN  /\ y \in Job /\ y.state = x.state /\ y.ids = x.ids /\ y.prompt = x.prompt
                /\ y.pages = x.pages /\ y.kvp = x.kvp /\ y.new = x.new
BY DEF Job, States

\* A function on 1 .. d is a sequence.
LEMMA SeqOfFunction ==
  ASSUME NEW S, NEW d \in Nat, NEW f \in [1 .. d -> S]
  PROVE  f \in Seq(S) /\ Len(f) = d
<1>1. [1 .. d -> S] \in {[1 .. n -> S] : n \in Nat}
  OBVIOUS
<1>2. f \in UNION {[1 .. n -> S] : n \in Nat}
  BY <1>1, Zenon
<1>3. f \in Seq(S)
  BY <1>2, SeqDef, Zenon
<1>4. Len(f) \in Nat /\ DOMAIN f = 1 .. Len(f) /\ DOMAIN f = 1 .. d
  BY <1>3, LenProperties
<1>5. 1 .. Len(f) = 1 .. d => Len(f) = d
  BY <1>4
<1> QED BY <1>3, <1>4, <1>5

\* Elements of a concatenation.
LEMMA Concat ==
  ASSUME NEW S, NEW s \in Seq(S), NEW t \in Seq(S)
  PROVE  /\ s \o t \in Seq(S) /\ Len(s \o t) = Len(s) + Len(t)
         /\ \A i \in 1 .. Len(s) : (s \o t)[i] = s[i]
         /\ \A i \in 1 .. Len(t) : (s \o t)[Len(s) + i] = t[i]
<1>1. Len(s) \in Nat /\ Len(t) \in Nat
  OBVIOUS
<1>2. \A i \in 1 .. Len(s) : i \in 1 .. Len(s) + Len(t) /\ i <= Len(s)
  BY <1>1
<1>3. \A i \in 1 .. Len(t) : Len(s) + i \in 1 .. Len(s) + Len(t) /\ ~(Len(s) + i <= Len(s)) /\ (Len(s) + i) - Len(s) = i
  BY <1>1
<1> QED BY <1>2, <1>3, ConcatProperties

\* The sequence of a job after a window continues the one before it.
LEMMA SeenType ==
  ASSUME JobTypes, NEW j \in Jobs, NEW d \in Nat, NEW draft \in [1 .. d -> Tokens], NEW n \in 1 .. d + 1, NEW token \in Tokens
  PROVE  /\ Seen(j, draft, n, token) \in Seq(Tokens)
         /\ Len(Seen(j, draft, n, token)) = Len(job[j].ids) + n
         /\ \A i \in 1 .. Len(job[j].ids) : Seen(j, draft, n, token)[i] = job[j].ids[i]
         /\ draft \in Seq(Tokens) /\ Len(draft) = d
<1> DEFINE a == job[j].ids
           b == SubSeq(draft, 1, n - 1)
           c == <<token>>
<1>1. a \in Seq(Tokens) /\ Len(a) \in Nat
  BY DEF JobTypes, Job
<1>2. draft \in Seq(Tokens) /\ Len(draft) = d
  BY SeqOfFunction
<1>3. b \in Seq(Tokens) /\ Len(b) = n - 1
  BY <1>2
<1>4. c \in Seq(Tokens) /\ Len(c) = 1
  OBVIOUS
<1>5. Seen(j, draft, n, token) = (a \o b) \o c
  BY DEF Seen
<1> HIDE DEF a, b, c
<1>6. a \o b \in Seq(Tokens) /\ Len(a \o b) = Len(a) + (n - 1) /\ \A i \in 1 .. Len(a) : (a \o b)[i] = a[i]
  BY <1>1, <1>3, Concat
<1> DEFINE e == a \o b
<1> HIDE DEF e
<1>7. e \in Seq(Tokens) /\ Len(e) = Len(a) + (n - 1) /\ \A i \in 1 .. Len(a) : e[i] = a[i]
  BY <1>6 DEF e
<1>8. e \o c \in Seq(Tokens) /\ Len(e \o c) = Len(e) + Len(c) /\ \A i \in 1 .. Len(e) : (e \o c)[i] = e[i]
  BY <1>4, <1>7, Concat
<1>9. /\ e \o c \in Seq(Tokens) /\ Len(e \o c) = Len(a) + n
      /\ \A i \in 1 .. Len(a) : (e \o c)[i] = a[i]
  <2>1. \A i \in 1 .. Len(a) : i \in 1 .. Len(e)
    BY <1>1, <1>7
  <2> HIDE DEF c
  <2> QED BY <1>1, <1>4, <1>7, <1>8, <2>1
<1> QED BY <1>2, <1>5, <1>9 DEF a, e

\* Completing a page may replace one page of a job, never add or drop one.
LEMMA DonePages ==
  ASSUME JobTypes, NEW j \in Jobs, NEW draft, NEW n, NEW token
  PROVE  /\ Completed(j, draft, n, token).pages \in Seq(Pages)
         /\ Len(Completed(j, draft, n, token).pages) = Len(job[j].pages)
<1> DEFINE b == job[j].pages
           i == FirstPage(j)
           t == Written(j, draft)
           h == NewHash(j, draft, n, token)
           twins == Under(h, t, Referenced(t))
           q == CHOOSE x \in twins : TRUE
<1>1. b \in Seq(Pages) /\ Len(b) \in Nat /\ b \in [1 .. Len(b) -> Pages]
  BY PageIn
<1>2. twins # {} => q \in Pages
  <2>1. twins \subseteq Pages
    BY DEF Under, Referenced
  <2> HIDE DEF twins
  <2> QED BY <2>1
<1>3. \/ Completed(j, draft, n, token).pages = b
      \/ twins # {} /\ Completed(j, draft, n, token).pages = [b EXCEPT ![i + 1] = q]
  BY DEF Completed, PageDone
<1> HIDE DEF q, twins, b, i
<1>4. q \in Pages => [b EXCEPT ![i + 1] = q] \in [1 .. Len(b) -> Pages]
  BY <1>1
<1>5. q \in Pages => [b EXCEPT ![i + 1] = q] \in Seq(Pages) /\ Len([b EXCEPT ![i + 1] = q]) = Len(b)
  BY <1>1, <1>4, SeqOfFunction
<1> QED BY <1>1, <1>2, <1>3, <1>5 DEF b

\* What Decode chooses.
Choice(j, d, draft, n, token, eos) ==
  /\ d \in 0 .. Depth /\ draft \in [1 .. d -> Tokens] /\ n \in 1 .. d + 1 /\ token \in Tokens /\ eos \in BOOLEAN
  /\ job[j].new + n <= MaxTokens
  /\ job[j].new + n = MaxTokens => eos

\* A window keeps the shape of every job.
LEMMA JobsDecode ==
  ASSUME JobsOk, NEW j \in Jobs, PrefillDone(j), QueueTypes, StateOf(j) = "active", j \notin ToSet(finished),
         NEW d, NEW draft, NEW n, NEW token, NEW eos, Choice(j, d, draft, n, token, eos),
         Sampled(j, draft, n, token, eos)
  PROVE  JobsOk'
<1> DEFINE a == Seen(j, draft, n, token)
           b == Completed(j, draft, n, token).pages
           c == NewPos(j, n)
<1>0. /\ d \in Nat /\ draft \in [1 .. d -> Tokens] /\ n \in 1 .. d + 1 /\ token \in Tokens
      /\ n \in Nat /\ n >= 1
  BY GeneratorAssumption, PageTableAssumption DEF Choice
<1>1. JobTypes /\ JobShape(j) /\ job[j] \in Job /\ Started(j) /\ MaxTokens \in Nat
  BY GeneratorAssumption DEF JobsOk, JobTypes, Started, StateOf
<1>2. CASE ~Completed(j, draft, n, token).ok
  <2>1. job' = job /\ finished' = finished
    BY <1>2 DEF Sampled
  <2> QED BY <2>1, JobShapeKept DEF JobsOk, JobTypes
<1>3. CASE Completed(j, draft, n, token).ok
  <2>1. /\ job' = [job EXCEPT ![j].ids = a, ![j].pages = b, ![j].kvp = c, ![j].new = @ + n]
        /\ finished' = IF eos THEN Append(finished, j) ELSE finished
    BY <1>3 DEF Sampled
  <2>2. a \in Seq(Tokens) /\ Len(a) = Len(job[j].ids) + n
    BY <1>0, <1>1, SeenType
  <2>3. b \in Seq(Pages)
    BY <1>1, DonePages
  <2>4. job[j].kvp \in Nat /\ job[j].new \in Nat /\ job[j].prompt \in Nat
    BY <1>1 DEF Job
  <2>5. c = job[j].kvp + n /\ c \in Nat
    BY <1>0, <2>4 DEF NewPos
  <2> HIDE DEF a, b, c
  <2>6. /\ \A k \in Jobs : k # j => job'[k] = job[k]
        /\ job'[j].ids = a /\ job'[j].pages = b /\ job'[j].kvp = c /\ job'[j].new = job[j].new + n
        /\ job'[j].prompt = job[j].prompt /\ job'[j].state = "active"
    <3>1. job' = [job EXCEPT ![j].ids = a, ![j].pages = b, ![j].kvp = c, ![j].new = @ + n]
      BY <2>1
    <3>2. job[j].state = "active"
      BY DEF StateOf
    <3> QED BY <1>1, <3>1, <3>2 DEF JobTypes, Job
  <2>7. job' \in [Jobs -> Job]
    <3>1. job \in [Jobs -> Job] /\ job[j].new + n \in Nat
      BY <1>0, <1>1, <2>4 DEF JobTypes
    <3> QED BY <2>1, <2>2, <2>3, <2>5, <3>1 DEF Job
  <2>8. ToSet(finished) \subseteq ToSet(finished') /\ (eos = TRUE => j \in ToSet(finished'))
    BY <2>1, SeqAppend DEF QueueTypes
  <2>9. \A k \in Jobs : k # j => JobShape(k)'
    BY <2>6, <2>8, JobShapeKept DEF JobsOk
  <2>10. JobShape(j)'
    <3> DEFINE l == Len(job[j].ids)
               w == job[j].new
               k == job[j].kvp
               m == job[j].prompt
    <3>1. l \in Nat /\ l = m + w /\ k = l - 1 /\ m >= 1 /\ TotalPages(m) <= Cardinality(Pages)
      BY <1>1, <2>4 DEF JobShape, PrefillDone
    <3>2. w + n <= MaxTokens /\ (w + n = MaxTokens => eos = TRUE)
      BY DEF Choice
    <3>3. /\ Len(job'[j].ids) = l + n /\ job'[j].new = w + n /\ job'[j].kvp = k + n /\ job'[j].prompt = m
          /\ w \in Nat /\ k \in Nat /\ m \in Nat
      BY <2>2, <2>4, <2>5, <2>6
    <3> HIDE DEF l, w, k, m
    <3>4. Len(job'[j].ids) - 1 = k + n /\ k + n < l + n /\ l + n = m + (w + n)
      BY <1>0, <3>1, <3>3
    <3>5. Started(j)' /\ PrefillDone(j)'
      BY <2>6, <3>3, <3>4 DEF Started, PrefillDone
    <3>6. j \notin ToSet(finished') => w + n < MaxTokens
      BY <1>0, <1>1, <2>8, <3>2, <3>3
    <3>7. job'[j].state # "queued" /\ Len(job'[j].ids) = job'[j].prompt + job'[j].new /\ job'[j].kvp < Len(job'[j].ids)
      BY <2>6, <3>3, <3>4
    <3>8. job'[j].prompt >= 1 /\ TotalPages(job'[j].prompt) <= Cardinality(Pages) /\ job'[j].new <= MaxTokens
      BY <3>1, <3>2, <3>3
    <3>9. job'[j].state = "active" /\ j \notin ToSet(finished') => job'[j].new < MaxTokens
      BY <3>3, <3>6
    <3> QED BY <3>5, <3>7, <3>8, <3>9 DEF JobShape
  <2> QED BY <2>7, <2>9, <2>10, <2>6 DEF JobsOk, JobTypes
<1> QED BY <1>2, <1>3

\* Every step keeps the shape of every job.
LEMMA JobsStep ==
  ASSUME IInv, Next
  PROVE  JobsOk'
<1>1. Queues /\ QueueTypes /\ JobsOk /\ JobTypes /\ (\A j \in Jobs : JobShape(j))
  BY DEF IInv, Queues, JobsOk
<1>2. /\ OverJob \in Job /\ OverJob.state = "over" /\ OverJob.pages = <<>> /\ OverJob.kvp = 0 /\ OverJob.new = 0
      /\ MaxTokens \in Nat /\ MaxTokens >= 1
  BY GeneratorAssumption, OverJobFields
\* The jobs that stay what they are.
<1>3. ASSUME NEW k \in Jobs, job'[k] = job[k], ToSet(finished) \subseteq ToSet(finished') PROVE JobShape(k)'
  BY <1>1, <1>3, JobShapeKept
<1>4. ASSUME NEW k \in Jobs, job'[k] = OverJob PROVE JobShape(k)'
  BY <1>2, <1>4 DEF JobShape, Started
<1>5. ASSUME job' = job, ToSet(finished) \subseteq ToSet(finished') PROVE JobsOk'
  BY <1>1, <1>3, <1>5 DEF JobsOk, JobTypes
<1>10. ASSUME NEW j \in Jobs, Enqueue(j) PROVE JobsOk'
  <2>1. PICK ids \in Prompts :
          /\ TotalPages(Len(ids)) <= Cardinality(Pages)
          /\ job' = [job EXCEPT ![j].ids = ids, ![j].prompt = Len(ids), ![j].state = "queued"]
    BY <1>10 DEF Enqueue
  <2>2. ids \in Seq(Tokens) /\ Len(ids) \in Nat /\ Len(ids) >= 1
    BY GeneratorAssumption
  <2>3. job[j].pages = <<>> /\ job[j].kvp = 0 /\ job[j].new = 0 /\ finished' = finished /\ job[j] \in Job
    BY <1>1, <1>10 DEF Enqueue, JobShape, Started, JobTypes
  <2>4. /\ \A k \in Jobs : k # j => job'[k] = job[k]
        /\ job'[j].ids = ids /\ job'[j].prompt = Len(ids) /\ job'[j].state = "queued"
        /\ job'[j].pages = <<>> /\ job'[j].kvp = 0 /\ job'[j].new = 0 /\ job' \in [Jobs -> Job]
    BY <1>1, <2>1, <2>2, <2>3 DEF JobTypes, Job, States
  <2>5. 0 % PageSize = 0
    BY PageTableAssumption
  <2>6. JobShape(j)'
    BY <1>2, <2>1, <2>2, <2>4, <2>5 DEF JobShape, Started
  <2> QED BY <1>3, <2>3, <2>4, <2>6 DEF JobsOk, JobTypes
<1>11. ASSUME NEW j \in Jobs, CancelPending(j) PROVE JobsOk'
  <2>1. job' = [job EXCEPT ![j] = OverJob] /\ finished' = finished
    BY <1>11 DEF CancelPending
  <2>2. \A k \in Jobs : job'[k] = IF k = j THEN OverJob ELSE job[k]
    BY <1>1, <2>1 DEF JobTypes
  <2>3. job' \in [Jobs -> Job]
    BY <1>1, <1>2, <2>1 DEF JobTypes
  <2>4. \A k \in Jobs : JobShape(k)'
    BY <1>3, <1>4, <2>1, <2>2
  <2> QED BY <2>3, <2>4 DEF JobsOk, JobTypes
<1>12. ASSUME NEW j \in Jobs, CancelActive(j) PROVE JobsOk'
  <2>1. job' = job /\ finished = <<>>
    BY <1>1, <1>12 DEF CancelActive, Queues, At
  <2> QED BY <1>5, <2>1, ToSetEmpty
<1>13. CASE ClearQueue
  <2>1. job' = [j \in Jobs |-> IF j \in ToSet(pending) THEN OverJob ELSE job[j]]
    BY <1>13 DEF ClearQueue
  <2>2. ToSet(finished) \subseteq ToSet(finished')
    BY <1>1, <1>13 DEF ClearQueue, Queues
  <2>3. job' \in [Jobs -> Job]
    BY <1>1, <1>2, <2>1 DEF JobTypes
  <2>4. \A k \in Jobs : job'[k] = OverJob \/ job'[k] = job[k]
    BY <2>1
  <2>5. \A k \in Jobs : JobShape(k)'
    BY <1>3, <1>4, <2>2, <2>4
  <2> QED BY <2>3, <2>5 DEF JobsOk, JobTypes
<1>14. CASE Iterate \/ PassOver \/ StartOver \/ PrefillOver \/ NotReady \/ DecodeOver \/ ReleaseOver \/ Rest
  <2>1. job' = job /\ finished' = finished
    BY <1>14 DEF Iterate, PassOver, StartOver, PrefillOver, NotReady, DecodeOver, ReleaseOver, Rest, vars
  <2> QED BY <1>5, <2>1
<1>15. CASE StartJob
  <2>1. /\ phase = "start" /\ todo # <<>> /\ finished' = finished
        /\ job' = [k \in Jobs |-> IF k \in skipped THEN [job[k] EXCEPT !.skips = @ + 1]
                                  ELSE IF k = todo[1] THEN [job[k] EXCEPT !.state = "active"]
                                  ELSE job[k]]
    BY <1>15 DEF StartJob, Turn, At
  <2>2. todo[1] \in ToSet(pending) /\ todo[1] \notin skipped /\ todo[1] \in Jobs
    BY <1>1, <2>1, SeqTail DEF Queues, QueueTypes
  <2>3. job[todo[1]].state = "queued"
    BY <1>1, <2>2 DEF Queues, StateOf
  <2>4. \A k \in Jobs : job[k] \in Job
    BY <1>1 DEF JobTypes
  <2>5. job' \in [Jobs -> Job]
    <3>1. \A k \in Jobs : job'[k] \in Job
      BY <2>1, <2>4, StartedFields
    <3> QED BY <2>1, <3>1
  <2>6. ASSUME NEW k \in Jobs PROVE JobShape(k)'
    <3>1. /\ job'[k].ids = job[k].ids /\ job'[k].prompt = job[k].prompt /\ job'[k].pages = job[k].pages
          /\ job'[k].kvp = job[k].kvp /\ job'[k].new = job[k].new
          /\ job'[k].state = IF k = todo[1] THEN "active" ELSE job[k].state
      BY <2>1, <2>2, <2>4, StartedFields
    <3>2. Started(k)' = Started(k) /\ PrefillDone(k)' = PrefillDone(k) /\ TotalPages(job'[k].prompt) = TotalPages(job[k].prompt)
      BY <2>3, <3>1 DEF Started, PrefillDone
    <3>3. JobShape(k)
      BY <1>1
    <3>4. CASE k = todo[1]
      <4>1. job[k].new = 0
        BY <2>3, <3>3, <3>4 DEF JobShape
      <4> QED BY <1>2, <2>1, <2>3, <3>1, <3>2, <3>3, <3>4, <4>1 DEF JobShape
    <3>5. CASE k # todo[1]
      BY <2>1, <3>1, <3>2, <3>3, <3>5 DEF JobShape
    <3> QED BY <3>4, <3>5
  <2> QED BY <2>5, <2>6 DEF JobsOk, JobTypes
<1>16. CASE Claim
  <2>1. phase = "claim" /\ finished' = finished
    BY <1>16 DEF Claim, ClaimHit, ClaimMiss, ClaimUnique, ClaimOver, At
  <2>2. Starting \in Jobs /\ StateOf(Starting) = "active"
    BY <1>1, <2>1, StarterRuns
  <2>3. job[Starting] \in Job /\ JobShape(Starting) /\ Started(Starting)
    BY <1>1, <2>2 DEF JobTypes, Started, StateOf
  <2>4. ASSUME NEW p \in Pages, Take(p) PROVE JobsOk'
    <3>1. job' = [job EXCEPT ![Starting].pages = Append(job[Starting].pages, p)]
      BY <2>4 DEF Take
    <3>2. Append(job[Starting].pages, p) \in Seq(Pages)
      BY <2>3, <2>4, SeqAppend DEF Job
    <3> QED BY <1>1, <2>1, <2>2, <3>1, <3>2, PagesOnly DEF StateOf
  <2>5. CASE ClaimOver
    <3>1. PICK n \in 0 .. Cached(job[Starting].pages) : job' = [job EXCEPT ![Starting].kvp = n * PageSize]
      BY <2>5 DEF ClaimOver
    <3>2. Claiming /\ Claimed = TotalPages(job[Starting].prompt)
      BY <2>5 DEF ClaimOver, IInv, Memory
    <3>3. n \in Nat /\ n <= HashedPages(Starting) /\ HashedPages(Starting) \in Nat
      BY <1>1, <2>1, <2>2, <2>3, <3>1, <3>2, CachedBound, DoneBounds
    <3>4. job[Starting].prompt \in Nat /\ job[Starting].prompt >= 1
      BY <2>3 DEF Job, JobShape
    <3>5. n * PageSize <= job[Starting].prompt - 1 /\ n * PageSize \in Nat /\ (n * PageSize) % PageSize = 0
      BY <3>3, <3>4, HashedBounds, MultMono, DivOfMult
    <3>6. job[Starting].state = "active" /\ job[Starting].new = 0
      BY <2>1, <2>2, <3>2 DEF StateOf, Claiming
    <3>7. Stop(Starting) = job[Starting].prompt - 1
      BY <2>3, <3>4, <3>6 DEF JobShape, Stop
    <3> QED BY <1>1, <2>1, <2>2, <3>1, <3>5, <3>6, <3>7, PositionOnly
  <2>6. Under(PageHash(Starting, Claimed + 1), table, Pages) \subseteq Pages /\ Evictable \subseteq Pages
    BY DEF Under, Evictable, Unreferenced
  <2>7. CASE ClaimHit \/ ClaimMiss \/ ClaimUnique
    <3>1. \E p \in Pages : Take(p)
      BY <2>6, <2>7 DEF ClaimHit, ClaimMiss, ClaimUnique
    <3> QED BY <2>4, <3>1
  <2> QED BY <1>16, <2>5, <2>7 DEF Claim
<1>17. CASE NothingToPrefill \/ Prefill
  <2>1. phase = "prefill" /\ todo # <<>> /\ finished' = finished
    BY <1>17 DEF NothingToPrefill, Prefill, At
  <2>2. Turn \in Jobs /\ StateOf(Turn) = "active" /\ Turn \in Running
    BY <1>1, <2>1, TurnRuns
  <2>3. JobShape(Turn) /\ Started(Turn) /\ PagesOf(Turn) /\ job[Turn].state = "active" /\ job[Turn] \in Job
    BY <1>1, <2>2 DEF Started, StateOf, IInv, Memory, JobTypes
  <2>4. CASE PrefillDone(Turn)
    <3>1. NothingToPrefill
      BY <1>17, <2>4 DEF Prefill
    <3>2. job' = [job EXCEPT ![Turn].kvp = job[Turn].kvp]
      BY <2>4, <3>1 DEF NothingToPrefill
    <3>3. job' = job
      BY <1>1, <2>2, <3>2 DEF JobTypes, Job
    <3> QED BY <1>5, <2>1, <3>3
  <2>5. CASE ~PrefillDone(Turn)
    <3>1. /\ From(Turn) \in Nat /\ From(Turn) % PageSize = 0 /\ From(Turn) <= Stop(Turn)
          /\ To(Turn) \in Nat /\ To(Turn) <= Stop(Turn) /\ (To(Turn) % PageSize = 0 \/ To(Turn) = Stop(Turn))
      BY <1>1, <2>2, <2>3, <2>5, FromRange, FromLow, ToRange DEF JobTypes
    <3>4. job[Turn].new = 0
      BY <2>3, <2>5 DEF JobShape, Job
    <3>2. CASE NothingToPrefill
      <4>1. job' = [job EXCEPT ![Turn].kvp = From(Turn)]
        BY <2>5, <3>2 DEF NothingToPrefill
      <4> QED BY <1>1, <2>1, <2>2, <2>3, <3>1, <3>4, <4>1, PositionOnly
    <3>3. CASE Prefill
      <4>1. job' = [job EXCEPT ![Turn].kvp = To(Turn)]
        BY <3>3 DEF Prefill, PrefillFrom
      <4> QED BY <1>1, <2>1, <2>2, <2>3, <3>1, <3>4, <4>1, PositionOnly
    <3> QED BY <1>17, <3>2, <3>3
  <2> QED BY <2>4, <2>5
<1>18. CASE Decode
  <2>1. phase = "decode" /\ todo # <<>> /\ PrefillDone(Turn)
    BY <1>18 DEF Decode, At
  <2>2. Turn \in Jobs /\ StateOf(Turn) = "active" /\ Turn \notin ToSet(finished)
    BY <1>1, <2>1, TurnRuns
  <2>3. PICK d, draft, n, token, eos : Choice(Turn, d, draft, n, token, eos) /\ Sampled(Turn, draft, n, token, eos)
    BY <1>18 DEF Decode, Choice
  <2> QED BY <1>1, <2>1, <2>2, <2>3, JobsDecode
<1>19. CASE ReleasePage
  <2>1. /\ finished' = finished /\ finished # <<>> /\ job[Leaving].pages # <<>>
        /\ job' = [job EXCEPT ![Leaving].pages = Tail(job[Leaving].pages)]
    BY <1>19 DEF ReleasePage
  <2>2. Leaving \in ToSet(finished) /\ Leaving \in Jobs
    BY <1>1, <2>1, SeqTail DEF QueueTypes, Leaving
  <2>3. job[Leaving].state = "active" /\ job[Leaving] \in Job /\ JobShape(Leaving)
    BY <1>1, <2>2 DEF Queues, StateOf, JobTypes
  <2>4. Tail(job[Leaving].pages) \in Seq(Pages)
    BY <2>1, <2>3, SeqTail DEF Job
  <2> QED BY <1>1, <2>1, <2>2, <2>3, <2>4, PagesOnly
<1>20. CASE Leave
  <2>1. finished # <<>> /\ finished' = Tail(finished) /\ job' = [job EXCEPT ![Leaving] = OverJob]
    BY <1>20 DEF Leave
  <2>2. Leaving \in Jobs /\ ToSet(finished') = ToSet(finished) \ {Leaving}
    BY <1>1, <2>1, SeqTail DEF QueueTypes, Leaving
  <2>3. job' \in [Jobs -> Job] /\ job'[Leaving] = OverJob /\ \A k \in Jobs : k # Leaving => job'[k] = job[k]
    BY <1>1, <1>2, <2>1, <2>2 DEF JobTypes
  <2>4. ASSUME NEW k \in Jobs PROVE JobShape(k)'
    <3>1. CASE k = Leaving
      BY <1>4, <2>3, <3>1
    <3>2. CASE k # Leaving
      <4>1. job'[k] = job[k] /\ (k \notin ToSet(finished') => k \notin ToSet(finished))
        BY <2>2, <2>3, <3>2
      <4> QED BY <1>1, <4>1, JobShapeKept
    <3> QED BY <3>1, <3>2
  <2> QED BY <2>3, <2>4 DEF JobsOk, JobTypes
<1> QED BY <1>10, <1>11, <1>12, <1>13, <1>14, <1>15, <1>16, <1>17, <1>18, <1>19, <1>20 DEF Next

-----------------------------------------------------------------------------
(* Steps that leave the pages alone.                                       *)

\* The memory and the working jobs stay as they are.
Quiet ==
  /\ table' = table /\ kv' = kv /\ phase # "claim" /\ phase' # "claim"
  /\ \A j \in Jobs : job'[j].pages = job[j].pages
  /\ Working' \subseteq Working /\ \A j \in Working' : job'[j] = job[j]

\* Such a step keeps the invariant's part about the memory.
LEMMA QuietStep ==
  ASSUME IInv, Quiet
  PROVE  Memory'
<1> USE DEF Quiet
<1>1. Queues /\ JobsOk /\ JobTypes /\ TableOk(table) /\ KvOk /\ RefCounts
  BY DEF IInv, Memory, JobsOk
<1>2. RefCounts'
  BY <1>1, RefCountsKept
<1>3. TableOk(table)' /\ KvOk'
  BY <1>1 DEF KvOk
<1>4. Claiming' /\ NeverStarves'
  BY DEF Claiming, NeverStarves, At
<1>5. ASSUME NEW j \in Running' PROVE PagesOf(j)'
  <2>1. j \in Working' /\ j \in Running
    BY DEF Running
  <2>2. j \in Jobs /\ Started(j) /\ JobShape(j) /\ PagesOf(j)
    BY <1>1, <2>1, RunningOk DEF IInv, Memory
  <2> QED BY <1>1, <2>1, <2>2, QuietKept
<1> QED BY <1>2, <1>3, <1>4, <1>5 DEF Memory

\* Which steps those are.
LEMMA QuietActions ==
  ASSUME IInv,
         \/ \E j \in Jobs : Enqueue(j) \/ CancelPending(j) \/ CancelActive(j)
         \/ ClearQueue \/ Iterate \/ PassOver \/ StartOver \/ PrefillOver
         \/ NotReady \/ DecodeOver \/ ReleaseOver \/ Leave
  PROVE  Quiet
<1>1. Queues /\ JobsOk /\ QueueTypes /\ JobTypes
  BY DEF IInv, Queues, JobsOk
<1>2. ToSet(<<>>) = {}
  BY ToSetEmpty
<1>3. ASSUME NEW j \in Jobs, Enqueue(j) PROVE Quiet
  <2>1. PICK ids \in Prompts :
          job' = [job EXCEPT ![j].ids = ids, ![j].prompt = Len(ids), ![j].state = "queued"]
    BY <1>3 DEF Enqueue
  <2>2. \A k \in Jobs : job'[k].pages = job[k].pages /\ (k # j => job'[k] = job[k])
    BY <1>1, <2>1 DEF JobTypes, Job
  <2>3. table' = table /\ kv' = kv /\ phase = "idle" /\ phase' = phase /\ active' = active /\ finished' = finished
    BY <1>3 DEF Enqueue, At, pageVars
  <2>4. Working' = Working /\ \A k \in Working : k \in Jobs /\ k # j
    <3>1. StateOf(j) = "new"
      BY <1>3 DEF Enqueue, StateOf
    <3> QED BY <1>1, <2>3, <3>1 DEF Working, Queues, QueueTypes, ToSet
  <2> QED BY <2>2, <2>3, <2>4 DEF Quiet
<1>4. ASSUME NEW j \in Jobs, CancelPending(j) PROVE Quiet
  <2>1. j \in ToSet(pending) /\ job' = [job EXCEPT ![j] = OverJob]
    BY <1>4 DEF CancelPending
  <2>2. job[j].pages = <<>> /\ StateOf(j) = "queued"
    BY <1>1, <2>1 DEF Queues, StateOf, JobsOk, JobShape
  <2>3. \A k \in Jobs : job'[k].pages = job[k].pages /\ (k # j => job'[k] = job[k])
    BY <1>1, <2>1, <2>2, OverJobFields DEF JobTypes
  <2>4. table' = table /\ kv' = kv /\ phase = "idle" /\ phase' = phase /\ active' = active /\ finished' = finished
    BY <1>4 DEF CancelPending, At, pageVars
  <2>5. Working' = Working /\ \A k \in Working : k \in Jobs /\ k # j
    BY <1>1, <2>2, <2>4 DEF Working, Queues, QueueTypes, ToSet
  <2> QED BY <2>3, <2>4, <2>5 DEF Quiet
<1>5. ASSUME NEW j \in Jobs, CancelActive(j) PROVE Quiet
  <2>1. /\ table' = table /\ kv' = kv /\ job' = job /\ phase = "idle" /\ phase' = "release" /\ active' = active
        /\ finished = <<>>
    BY <1>1, <1>5 DEF CancelActive, At, pageVars, Queues
  <2>2. Working' \subseteq Working
    BY <1>2, <2>1 DEF Working
  <2> QED BY <2>1, <2>2 DEF Quiet
<1>6. CASE ClearQueue
  <2>1. /\ table' = table /\ kv' = kv /\ phase = "idle" /\ phase' = "release" /\ active' = active /\ finished = <<>>
        /\ job' = [j \in Jobs |-> IF j \in ToSet(pending) THEN OverJob ELSE job[j]]
    BY <1>1, <1>6 DEF ClearQueue, At, pageVars, Queues
  <2>2. \A k \in ToSet(pending) : k \in Jobs /\ job[k].pages = <<>> /\ StateOf(k) = "queued"
    BY <1>1 DEF Queues, QueueTypes, StateOf, JobsOk, JobShape, ToSet
  <2>3. \A k \in Jobs : job'[k].pages = job[k].pages /\ (k \notin ToSet(pending) => job'[k] = job[k])
    BY <2>1, <2>2, OverJobFields
  <2>4. Working' \subseteq Working /\ \A k \in Working : k \in Jobs /\ k \notin ToSet(pending)
    BY <1>1, <1>2, <2>1, <2>2 DEF Working, Queues, QueueTypes, ToSet
  <2> QED BY <2>1, <2>3, <2>4 DEF Quiet
<1>7. CASE Iterate \/ PassOver \/ StartOver \/ PrefillOver \/ NotReady \/ DecodeOver \/ ReleaseOver
  <2>1. /\ table' = table /\ kv' = kv /\ job' = job /\ active' = active /\ finished' = finished
        /\ phase # "claim" /\ phase' # "claim"
    BY <1>7 DEF Iterate, PassOver, StartOver, PrefillOver, NotReady, DecodeOver, ReleaseOver, At, Prefilling, pageVars
  <2>2. Working' = Working
    BY <2>1 DEF Working
  <2> QED BY <2>1, <2>2 DEF Quiet
<1>8. CASE Leave
  <2>1. /\ table' = table /\ kv' = kv /\ phase = "release" /\ phase' = phase
        /\ finished # <<>> /\ job[Leaving].pages = <<>>
        /\ job' = [job EXCEPT ![Leaving] = OverJob]
        /\ active' = Without(active, finished[1]) /\ finished' = Tail(finished)
    BY <1>8 DEF Leave, Leaving, At, pageVars
  <2>2. finished[1] = Leaving /\ Leaving \in Jobs /\ Leaving \in ToSet(finished) /\ ToSet(finished') = ToSet(finished) \ {Leaving}
    BY <1>1, <2>1, SeqTail DEF QueueTypes, Leaving
  <2>3. ToSet(active') = ToSet(active) \ {Leaving}
    BY <1>1, <2>1, <2>2, SeqWithout DEF Queues, QueueTypes
  <2>4. Working' = Working /\ \A k \in Working : k \in Jobs /\ k # Leaving
    <3>1. Working' = Working /\ \A k \in Working : k \in ToSet(active) /\ k # Leaving
      BY <2>2, <2>3 DEF Working
    <3>2. \A k \in ToSet(active) : k \in Jobs
      BY <1>1 DEF QueueTypes, ToSet
    <3> QED BY <3>1, <3>2
  <2>5. \A k \in Jobs : job'[k].pages = job[k].pages /\ (k # Leaving => job'[k] = job[k])
    BY <1>1, <2>1, OverJobFields DEF JobTypes
  <2> QED BY <2>1, <2>4, <2>5 DEF Quiet
<1> QED BY <1>3, <1>4, <1>5, <1>6, <1>7, <1>8

\* They keep the invariant's part about the memory.
LEMMA QuietSteps ==
  ASSUME IInv,
         \/ \E j \in Jobs : Enqueue(j) \/ CancelPending(j) \/ CancelActive(j)
         \/ ClearQueue \/ Iterate \/ PassOver \/ StartOver \/ PrefillOver
         \/ NotReady \/ DecodeOver \/ ReleaseOver \/ Leave
  PROVE  Memory'
BY QuietActions, QuietStep

-----------------------------------------------------------------------------
(* Allocation.                                                             *)

LEMMA HashTypes ==
  ASSUME JobTypes, NEW j \in Jobs, Started(j), JobShape(j)
  PROVE  /\ HashedPages(j) \in Nat
         /\ \A i \in 1 .. HashedPages(j) :
              /\ PageHash(j, i) \in Seq(Tokens) /\ PageHash(j, i) \in Seq(Int) /\ Len(PageHash(j, i)) = i * PageSize
              /\ HashShape(PageHash(j, i)) /\ Rooted(PageHash(j, i))
         /\ \A i, k \in 1 .. HashedPages(j) : i # k => PageHash(j, i) # PageHash(j, k)
         /\ \A i, k \in 1 .. HashedPages(j) : i < k => Len(PageHash(j, i)) < Len(PageHash(j, k))
<1>1. job[j].ids \in Seq(Tokens) /\ job[j].prompt \in Nat /\ job[j].new \in Nat /\ job[j].prompt >= 1
      /\ Len(job[j].ids) = job[j].prompt + job[j].new
  BY DEF JobTypes, Job, JobShape
<1>2. HashedPages(j) \in Nat /\ HashedPages(j) * PageSize <= job[j].prompt - 1
  BY <1>1, HashedBounds
<1>3. ASSUME NEW i \in 1 .. HashedPages(j)
      PROVE  /\ i * PageSize \in Nat /\ i * PageSize <= Len(job[j].ids) /\ PageSize <= i * PageSize
  <2>1. i \in Nat /\ 1 <= i /\ i <= HashedPages(j) /\ 1 \in Nat
    BY <1>2
  <2>2. i * PageSize \in Nat /\ i * PageSize <= HashedPages(j) * PageSize
    BY <1>2, <2>1, MultMono
  <2>3. HashedPages(j) * PageSize \in Nat /\ 1 * PageSize <= i * PageSize
    BY <1>2, <2>1, MultMono
  <2>4. 1 * PageSize = PageSize
    BY PageTableAssumption
  <2> QED BY <1>1, <1>2, <2>2, <2>3, <2>4
<1>4. ASSUME NEW i \in 1 .. HashedPages(j)
      PROVE  /\ PageHash(j, i) \in Seq(Tokens) /\ PageHash(j, i) \in Seq(Int) /\ Len(PageHash(j, i)) = i * PageSize
             /\ HashShape(PageHash(j, i)) /\ Rooted(PageHash(j, i))
  <2> DEFINE n == i * PageSize
             h == PageHash(j, i)
  <2>1. h = SubSeq(job[j].ids, 1, n)
    BY DEF PageHash
  <2>2. n \in Nat /\ n <= Len(job[j].ids) /\ PageSize <= n
    BY <1>3
  <2> HIDE DEF n, h
  <2>3. h \in Seq(Tokens) /\ Len(h) = n /\ \A x \in 1 .. n : h[x] = job[j].ids[x]
    BY <1>1, <2>1, <2>2
  <2>4. h[1] \in Tokens /\ Tokens \subseteq Nat /\ Tokens \subseteq Int
    <3>1. Len(h) >= 1
      BY <2>2, <2>3, PageTableAssumption
    <3>2. h[1] \in Tokens
      BY <2>3, <3>1
    <3> QED BY <3>2, PageTableAssumption
  <2>5. h \in Seq(Int)
    BY <2>3, <2>4, SeqMonotonic
  <2>6. HashShape(h)
    BY <2>2, <2>3 DEF HashShape
  <2>7. Rooted(h)
    <3>1. h[1] \in Nat
      BY <2>4
    <3> QED BY <3>1 DEF Rooted
  <2> QED BY <2>3, <2>5, <2>6, <2>7 DEF n, h
<1>5. ASSUME NEW i \in 1 .. HashedPages(j), NEW k \in 1 .. HashedPages(j), i < k
      PROVE  Len(PageHash(j, i)) < Len(PageHash(j, k))
  <2>1. i \in Nat /\ k \in Nat /\ i * PageSize \in Nat /\ k * PageSize \in Nat /\ i * PageSize + PageSize <= k * PageSize
    BY <1>3, <1>5, MultMono
  <2>2. Len(PageHash(j, i)) = i * PageSize /\ Len(PageHash(j, k)) = k * PageSize
    BY <1>4
  <2> QED BY <2>1, <2>2, PageTableAssumption
<1>6. ASSUME NEW i \in 1 .. HashedPages(j), NEW k \in 1 .. HashedPages(j), i # k
      PROVE  PageHash(j, i) # PageHash(j, k)
  <2>2. CASE k < i
    <3>1. Len(PageHash(j, k)) < Len(PageHash(j, i)) /\ Len(PageHash(j, k)) \in Nat
      BY <1>3, <1>4, <1>5, <2>2
    <3> QED BY <3>1
  <2>3. CASE i < k
    <3>1. Len(PageHash(j, i)) < Len(PageHash(j, k)) /\ Len(PageHash(j, k)) \in Nat
      BY <1>3, <1>4, <1>5, <2>3
    <3> QED BY <3>1
  <2> QED BY <1>6, <2>2, <2>3
<1> QED BY <1>2, <1>4, <1>5, <1>6

\* Every page hash of a job is under some page that is held, or counted by
\* new_pages_required.
LEMMA HashesCount ==
  ASSUME JobTypes, NEW j \in Jobs, Started(j), JobShape(j), NEW N
  PROVE  LET held == {i \in 1 .. HashedPages(j) : PageHash(j, i) \notin N}
             free == {h \in PageHashes(j) : h \in N}
         IN  /\ Cardinality(held) \in Nat /\ Cardinality(free) \in Nat
             /\ HashedPages(j) <= Cardinality(free) + Cardinality(held)
<1> DEFINE S == 1 .. HashedPages(j)
           held == {i \in S : PageHash(j, i) \notin N}
           rest == {i \in S : PageHash(j, i) \in N}
           free == {h \in PageHashes(j) : h \in N}
           f == [i \in S |-> PageHash(j, i)]
           g == [i \in rest |-> PageHash(j, i)]
<1>1. HashedPages(j) \in Nat /\ \A i, k \in S : i # k => PageHash(j, i) # PageHash(j, k)
  BY HashTypes
<1>2. IsFiniteSet(S) /\ Cardinality(S) = HashedPages(j)
  BY <1>1, CardinalityUpto
<1>3. PageHashes(j) = {PageHash(j, i) : i \in S}
  BY DEF PageHashes
<1>4. f \in Surjection(S, PageHashes(j))
  <2> HIDE DEF S
  <2> QED BY <1>3 DEF Surjection
<1> HIDE DEF f
<1>5. IsFiniteSet(PageHashes(j))
  BY <1>2, <1>4, FS_Surjection
<1>6. IsFiniteSet(free) /\ Cardinality(free) \in Nat
  <2>1. free \in SUBSET PageHashes(j)
    OBVIOUS
  <2> HIDE DEF free
  <2>2. IsFiniteSet(free)
    BY <1>5, <2>1, FS_Subset
  <2> QED BY <2>2, FS_CardinalityType
<1>7. /\ IsFiniteSet(held) /\ Cardinality(held) \in Nat /\ IsFiniteSet(rest) /\ Cardinality(rest) \in Nat
  <2>1. held \in SUBSET S /\ rest \in SUBSET S
    OBVIOUS
  <2> HIDE DEF held, rest, S
  <2>2. IsFiniteSet(held) /\ IsFiniteSet(rest)
    BY <1>2, <2>1, FS_Subset
  <2> QED BY <2>2, FS_CardinalityType
<1>8. Cardinality(held) + Cardinality(rest) = HashedPages(j)
  <2>1. held \cup rest = S /\ held \cap rest = {}
    OBVIOUS
  <2> HIDE DEF held, rest, S
  <2>2. Cardinality(held \cup rest) = Cardinality(held) + Cardinality(rest) - Cardinality(held \cap rest)
    BY <1>7, FS_Union
  <2>3. Cardinality(held) + Cardinality(rest) - 0 = HashedPages(j)
    BY <1>2, <2>1, <2>2, FS_EmptySet
  <2> QED BY <1>7, <2>3
<1>9. Cardinality(rest) <= Cardinality(free)
  <2> SUFFICES ASSUME Cardinality(free) < Cardinality(rest) PROVE FALSE
    BY <1>6, <1>7
  <2>1. g \in [rest -> free]
    <3>1. \A i \in rest : PageHash(j, i) \in free
      BY <1>3
    <3> HIDE DEF rest, free
    <3> QED BY <3>1
  <2>2. \A i, k \in rest : i # k => g[i] # g[k]
    BY <1>1
  <2> HIDE DEF rest, free, g
  <2>3. \E i, k \in rest : i # k /\ g[i] = g[k]
    BY <1>6, <1>7, <2>1, FS_PigeonHole
  <2> QED BY <2>2, <2>3
<1> HIDE DEF held, rest, free, S
<1>10. HashedPages(j) <= Cardinality(free) + Cardinality(held)
  BY <1>1, <1>6, <1>7, <1>8, <1>9
<1> QED BY <1>6, <1>7, <1>10 DEF held, free, S

ClaimingOf(j) ==
  /\ job[j].kvp = 0 /\ job[j].new = 0
  /\ Len(job[j].pages) <= TotalPages(job[j].prompt)
  /\ \A i \in 1 .. Len(job[j].pages) :
       /\ i <= HashedPages(j) => Own(j, i).hash = PageHash(j, i)
       /\ i > HashedPages(j) => Len(Own(j, i).hash) = 1 /\ Own(j, i).toks = <<>>

HeldAhead(j) ==
  {i \in Len(job[j].pages) + 1 .. HashedPages(j) : Under(PageHash(j, i), table, Referenced(table)) # {}}

Supplied(j) ==
  TotalPages(job[j].prompt) - Len(job[j].pages) <=
    Cardinality(Unreferenced(table)) + Cardinality(HeldAhead(j))

\* The invariants of allocation, about the job that allocates,
LEMMA ClaimingNow ==
  ASSUME NEW j, Starting = j
  PROVE  /\ Claiming <=> (phase = "claim" => ClaimingOf(j))
         /\ NeverStarves <=> (At("claim") => Supplied(j))
BY DEF Claiming, ClaimingOf, Claimed, NeverStarves, Supplied, HeldAhead

\* and after a step.
LEMMA ClaimingNext ==
  ASSUME NEW j, Starting' = j
  PROVE  /\ Claiming' <=> (phase' = "claim" => ClaimingOf(j)')
         /\ NeverStarves' <=> (At("claim")' => Supplied(j)')
<1>1. Claiming' <=> (phase' = "claim" => ClaimingOf(j)')
  BY DEF Claiming, ClaimingOf, Claimed, Own, PageHash, HashedPages, Starting
<1>2. NeverStarves' <=> (At("claim")' => Supplied(j)')
  BY DEF Claimed, NeverStarves, Supplied, HeldAhead, PageHash, HashedPages, Under, Referenced, Unreferenced, At, Starting
<1> QED BY <1>1, <1>2

\* Starting a job: there are pages enough for it.
LEMMA StartStep ==
  ASSUME IInv, StartJob
  PROVE  Memory'
<1> SUFFICES ASSUME NEW j, j = todo[1] PROVE Memory'
  OBVIOUS
<1> DEFINE free == {h \in PageHashes(j) : Under(h, table, Referenced(table)) = {}}
<1>1. Queues /\ JobsOk /\ QueueTypes /\ JobTypes /\ TableOk(table) /\ KvOk /\ RefCounts
  BY DEF IInv, Queues, JobsOk, Memory
<1>2. /\ phase = "start" /\ todo # <<>> /\ finished' = finished /\ phase' = "claim"
      /\ table' = table /\ kv' = kv /\ active' = Append(active, j) /\ failed' = failed
      /\ job' = [k \in Jobs |-> IF k \in skipped THEN [job[k] EXCEPT !.skips = @ + 1]
                                ELSE IF k = j THEN [job[k] EXCEPT !.state = "active"]
                                ELSE job[k]]
  BY DEF StartJob, Turn, At, pageVars
<1>3. Fits(j)
  BY DEF StartJob, Turn
<1>4. j \in ToSet(pending) /\ j \notin skipped /\ j \in Jobs
  BY <1>1, <1>2, SeqTail DEF Queues, QueueTypes
<1>5. StateOf(j) = "queued" /\ Started(j) /\ JobShape(j) /\ j \notin ToSet(active)
  BY <1>1, <1>4 DEF Queues, StateOf, Started, JobsOk
<1>6. job[j].pages = <<>> /\ job[j].kvp = 0 /\ job[j].new = 0
  BY <1>5 DEF JobShape, StateOf
<1>7. \A k \in Jobs : /\ job'[k].ids = job[k].ids /\ job'[k].prompt = job[k].prompt /\ job'[k].pages = job[k].pages
                      /\ job'[k].kvp = job[k].kvp /\ job'[k].new = job[k].new
                      /\ (k \notin skipped /\ k # j => job'[k] = job[k])
  <2>1. \A k \in Jobs : job[k] \in Job
    BY <1>1 DEF JobTypes
  <2> QED BY <1>2, <2>1, StartedFields
<1>8. Starting' = j /\ ToSet(active') = ToSet(active) \cup {j}
  BY <1>1, <1>2, <1>4, SeqAppend DEF QueueTypes, Starting
<1>9. RefCounts'
  BY <1>1, <1>2, <1>7, RefCountsKept
<1>10. TableOk(table)' /\ KvOk'
  BY <1>1, <1>2 DEF KvOk
<1>11. ASSUME NEW k \in Running' PROVE PagesOf(k)'
  <2>1. k \in ToSet(active) /\ k \notin ToSet(finished) /\ k # j /\ k \in Jobs
    <3>1. k \in ToSet(active') /\ k \notin ToSet(finished') /\ k # j
      BY <1>2, <1>8 DEF Running, Working
    <3> QED BY <1>1, <1>2, <1>8, <3>1 DEF QueueTypes, ToSet
  <2>2. k \in Running
    BY <1>2, <2>1 DEF Running, Working
  <2>3. StateOf(k) = "active" /\ Started(k) /\ JobShape(k) /\ PagesOf(k)
    BY <1>1, <2>2, RunningOk DEF IInv, Memory
  <2>4. k \notin skipped
    BY <1>1, <1>2, <2>1, <2>3 DEF Queues
  <2> QED BY <1>1, <1>2, <1>7, <2>1, <2>3, <2>4, QuietKept
<1>12. HashedPages(j)' = HashedPages(j) /\ TotalPages(job'[j].prompt) = TotalPages(job[j].prompt) /\ job'[j].pages = <<>>
  BY <1>4, <1>6, <1>7 DEF HashedPages
<1>13. TotalPages(job[j].prompt) \in Nat /\ HashedPages(j) \in Nat
  BY <1>1, <1>4, <1>5, DoneBounds
<1>14. ClaimingOf(j)'
  BY <1>4, <1>6, <1>7, <1>12, <1>13 DEF ClaimingOf
<1>15. Supplied(j)'
  <2> DEFINE N == {h \in PageHashes(j) : Under(h, table, Referenced(table)) = {}}
             held == {i \in 1 .. HashedPages(j) : Under(PageHash(j, i), table, Referenced(table)) # {}}
             held2 == {i \in 1 .. HashedPages(j) : PageHash(j, i) \notin N}
             free2 == {h \in PageHashes(j) : h \in N}
  <2>1. Cardinality(held2) \in Nat /\ Cardinality(free2) \in Nat /\ HashedPages(j) <= Cardinality(free2) + Cardinality(held2)
    BY <1>1, <1>4, <1>5, HashesCount
  <2>2. held2 = held
    BY DEF PageHashes
  <2>3. free2 = free
    OBVIOUS
  <2>4. Cardinality(free) + TotalPages(job[j].prompt) - HashedPages(j) <= Cardinality(Unreferenced(table))
    BY <1>3 DEF Fits, NewPagesRequired
  <2>5. (HeldAhead(j))' = held
    <3>1. \A i \in 1 .. HashedPages(j) : (PageHash(j, i))' = PageHash(j, i)
      BY <1>4, <1>7 DEF PageHash
    <3>2. Len(job'[j].pages) + 1 = 1
      BY <1>12
    <3> HIDE DEF held
    <3>3. (HeldAhead(j))' = {i \in 1 .. HashedPages(j) : Under((PageHash(j, i))', table, Referenced(table)) # {}}
      BY <1>2, <1>12, <3>2 DEF HeldAhead
    <3> QED BY <3>1, <3>3 DEF held
  <2>6. Cardinality(Unreferenced(table)) \in Nat
    BY FS_Subset, FS_CardinalityType, PageTableAssumption DEF Unreferenced
  <2>7. (Unreferenced(table))' = Unreferenced(table)
    BY <1>2
  <2> HIDE DEF held, held2, free, free2
  <2>8. TotalPages(job'[j].prompt) - Len(job'[j].pages) = TotalPages(job[j].prompt)
    BY <1>12, <1>13
  <2> QED BY <1>13, <2>1, <2>2, <2>3, <2>4, <2>5, <2>6, <2>7, <2>8 DEF Supplied
<1>16. Claiming' /\ NeverStarves'
  BY <1>8, <1>14, <1>15, ClaimingNext
<1> QED BY <1>9, <1>10, <1>11, <1>16 DEF Memory

\* A job with nothing to prefill.
LEMMA NothingStep ==
  ASSUME IInv, NothingToPrefill
  PROVE  Memory'
<1> SUFFICES ASSUME NEW j, j = todo[1] PROVE Memory'
  OBVIOUS
<1>1. Queues /\ JobsOk /\ QueueTypes /\ JobTypes /\ TableOk(table) /\ KvOk /\ RefCounts
  BY DEF IInv, Queues, JobsOk, Memory
<1>2. /\ phase = "prefill" /\ todo # <<>> /\ finished' = finished /\ phase' = "prefill"
      /\ table' = table /\ kv' = kv /\ active' = active
      /\ job' = [job EXCEPT ![j].kvp = IF PrefillDone(j) THEN @ ELSE From(j)]
  BY DEF NothingToPrefill, Turn, At, pageVars
<1>3. j \in Jobs /\ j \in Running
  BY <1>1, <1>2, TurnRuns DEF Turn
<1>4. StateOf(j) = "active" /\ Started(j) /\ JobShape(j) /\ PagesOf(j)
  BY <1>1, <1>3, RunningOk DEF IInv, Memory
<1>5. /\ \A k \in Jobs : k # j => job'[k] = job[k]
      /\ \A k \in Jobs : job'[k].pages = job[k].pages
      /\ job'[j].ids = job[j].ids /\ job'[j].prompt = job[j].prompt
      /\ job'[j].kvp = (IF PrefillDone(j) THEN job[j].kvp ELSE From(j))
  BY <1>1, <1>2, <1>3 DEF JobTypes, Job
<1>6. RefCounts'
  BY <1>1, <1>2, <1>5, RefCountsKept
<1>7. TableOk(table)' /\ KvOk'
  BY <1>1, <1>2 DEF KvOk
<1>8. Running' = Running
  BY <1>2 DEF Running, Working
<1>9. PagesOf(j)'
  <2>1. CASE PrefillDone(j)
    <3>1. job' = job
      BY <1>1, <1>2, <1>3, <2>1 DEF JobTypes, Job
    <3> QED BY <1>1, <1>2, <1>3, <1>4, <3>1, QuietKept
  <2>2. CASE ~PrefillDone(j)
    <3>1. From(j) \in Nat /\ FirstPage(j) <= From(j) \div PageSize /\ From(j) \div PageSize <= Done(j)
          /\ From(j) \div PageSize \in Nat
      BY <1>1, <1>3, <1>4, <2>2, FromRange, FromLow DEF JobTypes
    <3>2. FirstPage(j)' = From(j) \div PageSize
      BY <1>5, <2>2 DEF FirstPage
    <3>3. HashedPages(j)' = HashedPages(j)
      BY <1>5 DEF HashedPages
    <3>4. FirstPage(j) \in Nat /\ HashedPages(j) \in Nat /\ Done(j) \in Nat
      BY <1>1, <1>3, <1>4, DoneBounds
    <3>5. Done(j)' = Done(j)
      <4>1. Done(j)' = Larger(HashedPages(j), From(j) \div PageSize)
        BY <3>2, <3>3 DEF Done
      <4>2. Done(j) = Larger(HashedPages(j), FirstPage(j))
        BY DEF Done
      <4> QED BY <3>1, <3>4, <4>1, <4>2 DEF Larger
    <3>6. Len(job'[j].pages) = TotalPages(job'[j].prompt) /\ job'[j].pages = job[j].pages
      BY <1>3, <1>4, <1>5 DEF PagesOf
    <3>7. \A i : Own(j, i)' = Own(j, i)
      BY <1>2, <3>6 DEF Own
    <3>8. \A i : (PageHash(j, i))' = PageHash(j, i)
      BY <1>5 DEF PageHash
    <3> QED BY <1>4, <2>2, <3>3, <3>5, <3>6, <3>7, <3>8 DEF PagesOf
  <2> QED BY <2>1, <2>2
<1>10. ASSUME NEW k \in Running' PROVE PagesOf(k)'
  <2>1. CASE k # j
    <3>1. k \in Jobs /\ Started(k) /\ JobShape(k) /\ PagesOf(k)
      BY <1>1, <1>8, RunningOk DEF IInv, Memory
    <3> QED BY <1>1, <1>2, <1>5, <2>1, <3>1, QuietKept
  <2> QED BY <1>9, <2>1
<1>11. Claiming' /\ NeverStarves'
  BY <1>2 DEF Claiming, NeverStarves, At
<1> QED BY <1>6, <1>7, <1>10, <1>11 DEF Memory

\* A page given to the starting job.
LEMMA ClaimedPage ==
  ASSUME IInv, phase = "claim", NEW j \in Jobs, Starting = j, NEW p \in Pages,
         job' = [job EXCEPT ![j].pages = Append(job[j].pages, p)], p \notin ToSet(job[j].pages),
         active' = active, finished' = finished, phase' = phase, failed' = failed, kv' = kv,
         TableOk(table'), \A q \in Pages : q # p => table'[q] = table[q],
         table'[p].refs = table[p].refs + 1,
         table[p].refs = 0 \/ (table'[p].hash = table[p].hash /\ table'[p].toks = table[p].toks),
         Len(job[j].pages) < TotalPages(job[j].prompt),
         Len(job[j].pages) + 1 <= HashedPages(j) => table'[p].hash = PageHash(j, Len(job[j].pages) + 1),
         Len(job[j].pages) + 1 > HashedPages(j) => Len(table'[p].hash) = 1 /\ table'[p].toks = <<>>,
         table[p].refs = 0 <=> Len(job[j].pages) + 1 \notin HeldAhead(j)
  PROVE  Memory'
<1> DEFINE b == job[j].pages
           c == Len(b)
<1>1. /\ Queues /\ JobsOk /\ QueueTypes /\ JobTypes /\ TableOk(table) /\ KvOk /\ RefCounts
      /\ ClaimingOf(j) /\ (At("claim") => Supplied(j))
  BY ClaimingNow DEF IInv, Queues, JobsOk, Memory
<1>2. StateOf(j) = "active" /\ j \notin ToSet(finished) /\ Started(j) /\ JobShape(j)
  BY <1>1, StarterRuns DEF StateOf, Started, JobsOk
<1>3. b \in Seq(Pages) /\ Len(b) \in Nat /\ DOMAIN b = 1 .. Len(b)
  BY <1>1, PageIn
<1>4. /\ Append(b, p) \in Seq(Pages) /\ ToSet(Append(b, p)) = ToSet(b) \cup {p}
      /\ Len(Append(b, p)) = c + 1 /\ Append(b, p)[c + 1] = p
      /\ \A i \in 1 .. c : Append(b, p)[i] = b[i]
  <2>1. ToSet(Append(b, p)) = ToSet(b) \cup {p}
    BY <1>3, SeqAppend
  <2> HIDE DEF b
  <2> QED BY <1>3, <2>1
<1>5. /\ \A k \in Jobs : k # j => job'[k] = job[k]
      /\ job'[j].pages = Append(b, p) /\ job'[j].ids = job[j].ids /\ job'[j].prompt = job[j].prompt
      /\ job'[j].kvp = job[j].kvp /\ job'[j].new = job[j].new
  <2>1. job[j].state = "active"
    BY <1>2 DEF StateOf
  <2> QED BY <1>1, <1>4, <2>1, PagesOnly
<1>6. RefCounts'
  <2>1. ASSUME NEW k \in Jobs PROVE \A x, y \in DOMAIN job'[k].pages : x # y => job'[k].pages[x] # job'[k].pages[y]
    <3>1. CASE k # j
      BY <1>1, <1>5, <3>1 DEF RefCounts
    <3>2. CASE k = j
      <4>1. Injective(b)
        BY <1>1 DEF RefCounts, Injective
      <4>2. Injective(Append(b, p))
        BY <1>3, <4>1, SeqAppend
      <4> QED BY <1>5, <3>2, <4>2 DEF Injective
    <3> QED BY <3>1, <3>2
  <2>2. ASSUME NEW q \in Pages PROVE table'[q].refs = Cardinality({k \in Jobs : q \in ToSet(job'[k].pages)})
    <3>1. Holders(q) \in SUBSET Jobs /\ table[q].refs = Cardinality(Holders(q))
      BY <1>1, Held
    <3>2. CASE q # p
      <4>1. {k \in Jobs : q \in ToSet(job'[k].pages)} = Holders(q)
        BY <1>4, <1>5, <3>2 DEF Holders
      <4> QED BY <3>1, <3>2, <4>1
    <3>3. CASE q = p
      <4>1. {k \in Jobs : q \in ToSet(job'[k].pages)} = Holders(q) \cup {j}
        BY <1>4, <1>5, <3>3 DEF Holders
      <4>2. j \notin Holders(q)
        BY <3>3 DEF Holders
      <4> QED BY <3>1, <3>3, <4>1, <4>2, SmallSets
    <3> QED BY <3>2, <3>3
  <2> QED BY <2>1, <2>2 DEF RefCounts
<1>7. KvOk'
  BY <1>1 DEF KvOk
<1>8. ASSUME NEW k \in Running' PROVE PagesOf(k)'
  <2>1. k \in Running /\ k # j
    <3>1. Starting' = Starting
      BY DEF Starting
    <3> QED BY <3>1 DEF Running, Working
  <2>2. k \in Jobs /\ Started(k) /\ JobShape(k) /\ PagesOf(k)
    BY <1>1, <2>1, RunningOk DEF IInv, Memory
  <2> QED BY <1>1, <1>5, <2>1, <2>2, OthersKept
<1>9. Starting' = j
  BY DEF Starting
<1>10. HashedPages(j)' = HashedPages(j) /\ TotalPages(job'[j].prompt) = TotalPages(job[j].prompt)
       /\ \A i : (PageHash(j, i))' = PageHash(j, i)
  <2>1. HashedPages(j)' = HashedPages(j)
    BY <1>5 DEF HashedPages
  <2>2. \A i : (PageHash(j, i))' = PageHash(j, i)
    BY <1>5 DEF PageHash
  <2>3. TotalPages(job'[j].prompt) = TotalPages(job[j].prompt)
    BY <1>5
  <2> QED BY <2>1, <2>2, <2>3
<1>11. TotalPages(job[j].prompt) \in Nat /\ HashedPages(j) \in Nat
  BY <1>1, <1>2, DoneBounds
<1>12. ClaimingOf(j)'
  <2>1. ASSUME NEW i \in 1 .. c + 1
        PROVE  /\ i <= HashedPages(j) => (Own(j, i))'.hash = PageHash(j, i)
               /\ i > HashedPages(j) => Len((Own(j, i))'.hash) = 1 /\ (Own(j, i))'.toks = <<>>
    <3>1. CASE i = c + 1
      <4>1. (Own(j, i))' = table'[p]
        BY <1>4, <1>5, <3>1 DEF Own
      <4> QED BY <3>1, <4>1
    <3>2. CASE i # c + 1
      <4>1. i \in 1 .. c
        BY <1>3, <3>2
      <4>2. b[i] \in Pages /\ b[i] # p
        BY <1>1, <1>3, <4>1, PageIn
      <4>3. (Own(j, i))' = Own(j, i)
        BY <1>4, <1>5, <4>1, <4>2 DEF Own
      <4> QED BY <1>1, <4>1, <4>3 DEF ClaimingOf
    <3> QED BY <3>1, <3>2
  <2>2. Len(job'[j].pages) = c + 1 /\ c + 1 <= TotalPages(job[j].prompt)
    BY <1>3, <1>4, <1>5, <1>11
  <2> QED BY <1>1, <1>5, <1>10, <2>1, <2>2 DEF ClaimingOf
<1>13. ASSUME At("claim")' PROVE Supplied(j)'
  <2> DEFINE U == Unreferenced(table)
             V == Unreferenced(table')
             H == HeldAhead(j)
             G == {i \in c + 2 .. HashedPages(j) : Under(PageHash(j, i), table', Referenced(table')) # {}}
  <2>1. Supplied(j)
    BY <1>1, <1>13 DEF At
  <2>2. TotalPages(job[j].prompt) - c <= Cardinality(U) + Cardinality(H)
    BY <2>1 DEF Supplied
  <2>3. HeldAhead(j)' = G
    <3>1. Len(job'[j].pages) + 1 = c + 2
      BY <1>3, <1>4, <1>5
    <3> HIDE DEF G
    <3>2. HeldAhead(j)' = {i \in c + 2 .. HashedPages(j) : Under((PageHash(j, i))', table', Referenced(table')) # {}}
      BY <1>10, <3>1 DEF HeldAhead
    <3> QED BY <1>10, <3>2 DEF G
  <2>4. /\ IsFiniteSet(U) /\ Cardinality(U) \in Nat /\ IsFiniteSet(V) /\ Cardinality(V) \in Nat
    <3>1. U \in SUBSET Pages /\ V \in SUBSET Pages
      BY DEF Unreferenced
    <3> HIDE DEF U, V
    <3>2. IsFiniteSet(U) /\ IsFiniteSet(V)
      BY <3>1, FS_Subset, PageTableAssumption
    <3> QED BY <3>2, FS_CardinalityType
  <2>5. /\ IsFiniteSet(H) /\ Cardinality(H) \in Nat /\ IsFiniteSet(G) /\ Cardinality(G) \in Nat
    <3>1. H \in SUBSET (1 .. HashedPages(j)) /\ G \in SUBSET (1 .. HashedPages(j))
      BY <1>3, <1>11 DEF HeldAhead
    <3> HIDE DEF H, G
    <3>2. IsFiniteSet(H) /\ IsFiniteSet(G)
      BY <1>11, <3>1, FS_Subset, CardinalityUpto
    <3> QED BY <3>2, FS_CardinalityType
  <2>6. H \ {c + 1} \subseteq G
    <3> SUFFICES ASSUME NEW i \in H, i # c + 1 PROVE i \in G
      BY Zenon
    <3>1. i \in c + 2 .. HashedPages(j) /\ Under(PageHash(j, i), table, Referenced(table)) # {}
      BY <1>3, <1>11 DEF HeldAhead
    <3>2. PICK q \in Pages : table[q].hash = PageHash(j, i) /\ table[q].refs > 0
      BY <3>1 DEF Under, Referenced
    <3>3. table'[q].hash = PageHash(j, i) /\ table'[q].refs > 0
      <4>0. table[p].refs \in Nat
        BY <1>1, Held
      <4>1. CASE q = p
        BY <3>2, <4>0, <4>1
      <4>2. CASE q # p
        BY <3>2, <4>2
      <4> QED BY <4>1, <4>2
    <3>4. q \in Under(PageHash(j, i), table', Referenced(table'))
      BY <3>3 DEF Under, Referenced
    <3> QED BY <3>1, <3>4
  <2>7. TotalPages(job'[j].prompt) - Len(job'[j].pages) = TotalPages(job[j].prompt) - c - 1
    BY <1>3, <1>4, <1>5, <1>10, <1>11
  <2>8. table[p].refs \in Nat
    BY <1>1, Held
  <2>9. CASE table[p].refs = 0
    <3>1. V = U \ {p} /\ p \in U
      BY <2>9 DEF Unreferenced, Referenced
    <3>2. c + 1 \notin H
      BY <2>9
    <3> HIDE DEF U, V, H, G
    <3>3. Cardinality(V) = Cardinality(U) - 1
      BY <2>4, <3>1, FS_RemoveElement
    <3>4. Cardinality(H) <= Cardinality(G)
      BY <2>5, <2>6, <3>2, FS_Subset
    <3>5. Cardinality(V) + Cardinality(G) >= TotalPages(job[j].prompt) - c - 1
      BY <1>3, <1>11, <2>2, <2>4, <2>5, <3>3, <3>4
    <3>6. (Unreferenced(table))' = V
      BY DEF V
    <3> QED BY <2>3, <2>7, <3>5, <3>6 DEF Supplied
  <2>10. CASE table[p].refs # 0
    <3>1. V = U
      <4>1. \A q \in Pages : table[q].refs > 0 <=> table'[q].refs > 0
        BY <2>8, <2>10
      <4> QED BY <4>1 DEF Unreferenced, Referenced
    <3>2. c + 1 \in H
      BY <2>10
    <3> HIDE DEF U, V, H, G
    <3>3. Cardinality(H \ {c + 1}) = Cardinality(H) - 1 /\ IsFiniteSet(H \ {c + 1})
      BY <2>5, <3>2, FS_RemoveElement
    <3>4. Cardinality(H) - 1 <= Cardinality(G)
      BY <2>5, <2>6, <3>3, FS_Subset
    <3>5. Cardinality(V) + Cardinality(G) >= TotalPages(job[j].prompt) - c - 1
      BY <1>3, <1>11, <2>2, <2>4, <2>5, <3>1, <3>4
    <3>6. (Unreferenced(table))' = V
      BY DEF V
    <3> QED BY <2>3, <2>7, <3>5, <3>6 DEF Supplied
  <2> QED BY <2>9, <2>10
<1>14. Claiming' /\ NeverStarves'
  BY <1>9, <1>12, <1>13, ClaimingNext
<1>15. TableOk(table)'
  OBVIOUS
<1> QED BY <1>6, <1>7, <1>8, <1>14, <1>15 DEF Memory

\* What every claim of a page starts from.
LEMMA ClaimStart ==
  ASSUME IInv, phase = "claim", NEW j, Starting = j
  PROVE  /\ j \in Jobs /\ Started(j) /\ JobShape(j) /\ JobTypes /\ TableOk(table) /\ RefCounts
         /\ ClaimingOf(j) /\ HashedPages(j) \in Nat /\ HashedPages(j) < TotalPages(job[j].prompt)
         /\ TotalPages(job[j].prompt) \in Nat
         /\ Len(job[j].pages) \in Nat /\ Claimed = Len(job[j].pages)
         /\ job[j].pages \in Seq(Pages)
<1>1. Queues /\ JobsOk /\ JobTypes /\ TableOk(table) /\ RefCounts /\ Claiming
  BY DEF IInv, JobsOk, Memory
<1>2. j \in Jobs /\ Started(j) /\ JobShape(j)
  BY <1>1, StarterRuns DEF StateOf, Started, JobsOk
<1>3. Len(job[j].pages) \in Nat /\ job[j].pages \in Seq(Pages)
  BY <1>1, <1>2, PageIn
<1>4. Claimed = Len(job[j].pages)
  BY DEF Claimed
<1>5. HashedPages(j) \in Nat /\ HashedPages(j) < TotalPages(job[j].prompt) /\ TotalPages(job[j].prompt) \in Nat
  BY <1>1, <1>2, DoneBounds
<1>6. ClaimingOf(j)
  BY <1>1, ClaimingNow
<1> QED BY <1>1, <1>2, <1>3, <1>4, <1>5, <1>6

\* Evicted are unreferenced pages, and while there is any there is one to evict.
LEMMA EvictableFree ==
  ASSUME RefCounts, NEW p \in Evictable
  PROVE  p \in Pages /\ table[p].refs = 0 /\ \A j \in Jobs : p \notin ToSet(job[j].pages)
<1>1. p \in Pages /\ ~(table[p].refs > 0)
  BY DEF Evictable, Unreferenced, Referenced
<1>2. table[p].refs \in Nat
  BY <1>1, Held
<1> QED BY <1>1, <1>2, Held

\* A page found under the hash of the prompt is shared.
LEMMA ClaimHitStep ==
  ASSUME IInv, ClaimHit
  PROVE  Memory'
<1> SUFFICES ASSUME NEW j, j = Starting PROVE Memory'
  OBVIOUS
<1> DEFINE c == Len(job[j].pages)
<1>1. phase = "claim" /\ Claimed < HashedPages(j)
  BY DEF ClaimHit, At
<1>2. /\ j \in Jobs /\ Started(j) /\ JobShape(j) /\ JobTypes /\ TableOk(table) /\ RefCounts
      /\ ClaimingOf(j) /\ HashedPages(j) \in Nat /\ HashedPages(j) < TotalPages(job[j].prompt)
      /\ TotalPages(job[j].prompt) \in Nat
      /\ c \in Nat /\ Claimed = c /\ job[j].pages \in Seq(Pages)
  BY <1>1, ClaimStart
<1>3. PICK p \in Under(PageHash(Starting, Claimed + 1), table, Pages) : table' = AddRef(table, p) /\ Take(p)
  BY DEF ClaimHit
<1>4. p \in Pages /\ table[p].hash = PageHash(j, c + 1)
  BY <1>2, <1>3 DEF Under
<1>5. c + 1 \in 1 .. HashedPages(j)
  BY <1>1, <1>2
<1>6. /\ Len(PageHash(j, c + 1)) = (c + 1) * PageSize /\ Len(PageHash(j, c + 1)) # 1
      /\ \A i \in 1 .. HashedPages(j) : i # c + 1 => PageHash(j, i) # PageHash(j, c + 1)
  <2>1. /\ Len(PageHash(j, c + 1)) = (c + 1) * PageSize
        /\ \A i \in 1 .. HashedPages(j) : i # c + 1 => PageHash(j, i) # PageHash(j, c + 1)
    BY <1>2, <1>5, HashTypes
  <2>2. (c + 1) * PageSize = c * PageSize + PageSize /\ c * PageSize \in Nat
    BY <1>2, MultMono
  <2>3. (c + 1) * PageSize # 1
    <3> HIDE DEF c
    <3> QED BY <2>2, PageTableAssumption
  <2> HIDE DEF c
  <2> QED BY <2>1, <2>3
<1>7. /\ TableOk(table') /\ (\A q \in Pages : q # p => table'[q] = table[q])
      /\ table'[p].hash = table[p].hash /\ table'[p].toks = table[p].toks /\ table'[p].refs = table[p].refs + 1
  BY <1>2, <1>3, <1>4, <1>6, AddRefOk
<1>8. job' = [job EXCEPT ![j].pages = Append(job[j].pages, p)]
  BY <1>3 DEF Take
<1>9. p \notin ToSet(job[j].pages)
  <2> SUFFICES ASSUME p \in ToSet(job[j].pages) PROVE FALSE
    OBVIOUS
  <2>1. PICK i \in 1 .. c : job[j].pages[i] = p
    BY <1>2 DEF ToSet
  <2>2. i <= HashedPages(j) /\ i \in 1 .. HashedPages(j) /\ i # c + 1
    BY <1>1, <1>2
  <2>3. Own(j, i).hash = PageHash(j, i)
    BY <1>2, <2>2 DEF ClaimingOf
  <2> QED BY <1>4, <1>6, <2>1, <2>2, <2>3 DEF Own
<1>10. table[p].refs = 0 <=> c + 1 \notin HeldAhead(j)
  <2>1. c + 1 \in Len(job[j].pages) + 1 .. HashedPages(j)
    BY <1>2, <1>5
  <2>2. c + 1 \in HeldAhead(j) <=> Under(PageHash(j, c + 1), table, Referenced(table)) # {}
    <3> HIDE DEF c
    <3> QED BY <2>1 DEF HeldAhead
  <2>3. \A q \in Pages : table[q].hash = PageHash(j, c + 1) => q = p
    BY <1>2, <1>4 DEF TableOk, Distinct
  <2>4. Under(PageHash(j, c + 1), table, Referenced(table)) # {} <=> table[p].refs > 0
    BY <1>4, <2>3 DEF Under, Referenced
  <2>5. table[p].refs \in Nat
    BY <1>2, <1>4, Held
  <2> QED BY <2>2, <2>4, <2>5
<1>11. active' = active /\ finished' = finished /\ phase' = phase /\ failed' = failed /\ kv' = kv
  BY DEF ClaimHit
<1>12. c < TotalPages(job[j].prompt)
  BY <1>1, <1>2
<1>13. c + 1 > HashedPages(j) => Len(table'[p].hash) = 1 /\ table'[p].toks = <<>>
  BY <1>2, <1>5
<1> QED BY <1>1, <1>2, <1>4, <1>7, <1>8, <1>9, <1>10, <1>11, <1>12, <1>13, ClaimedPage

\* A page for a hash nobody has is taken from the unreferenced ones.
LEMMA ClaimMissStep ==
  ASSUME IInv, ClaimMiss
  PROVE  Memory'
<1> SUFFICES ASSUME NEW j, j = Starting PROVE Memory'
  OBVIOUS
<1> DEFINE c == Len(job[j].pages)
           h == PageHash(j, c + 1)
<1>1. phase = "claim" /\ Claimed < HashedPages(j)
  BY DEF ClaimMiss, At
<1>2. /\ j \in Jobs /\ Started(j) /\ JobShape(j) /\ JobTypes /\ TableOk(table) /\ RefCounts
      /\ ClaimingOf(j) /\ HashedPages(j) \in Nat /\ HashedPages(j) < TotalPages(job[j].prompt)
      /\ TotalPages(job[j].prompt) \in Nat
      /\ c \in Nat /\ Claimed = c /\ job[j].pages \in Seq(Pages)
  BY <1>1, ClaimStart
<1>3. PICK p \in Evictable : table' = AddRefClear(table, p, h) /\ Take(p)
  BY <1>2 DEF ClaimMiss
<1>4. Under(h, table, Pages) = {}
  BY <1>2 DEF ClaimMiss
<1>5. p \in Pages /\ table[p].refs = 0 /\ p \notin ToSet(job[j].pages)
  BY <1>2, <1>3, EvictableFree
<1>6. c + 1 \in 1 .. HashedPages(j)
  BY <1>1, <1>2
<1>7. h \in Seq(Int) /\ HashShape(h)
  BY <1>2, <1>6, HashTypes
<1>8. \A q \in Pages : table[q].hash # h
  BY <1>4 DEF Under
<1>9. /\ TableOk(table') /\ (\A q \in Pages : q # p => table'[q] = table[q])
      /\ table'[p].hash = h /\ table'[p].refs = 1
  <2> HIDE DEF h
  <2> QED BY <1>2, <1>3, <1>5, <1>7, <1>8, AddRefClearOk
<1>10. job' = [job EXCEPT ![j].pages = Append(job[j].pages, p)]
  BY <1>3 DEF Take
<1>11. table[p].refs = 0 <=> c + 1 \notin HeldAhead(j)
  <2>1. c + 1 \notin HeldAhead(j)
    <3> SUFFICES ASSUME c + 1 \in HeldAhead(j) PROVE FALSE
      OBVIOUS
    <3>1. Under(PageHash(j, c + 1), table, Referenced(table)) # {}
      BY DEF HeldAhead
    <3> QED BY <1>8, <3>1 DEF Under, Referenced
  <2> QED BY <1>5, <2>1
<1>12. active' = active /\ finished' = finished /\ phase' = phase /\ failed' = failed /\ kv' = kv
  BY DEF ClaimMiss
<1>13. c < TotalPages(job[j].prompt) /\ ~(c + 1 > HashedPages(j)) /\ table'[p].refs = table[p].refs + 1
  BY <1>1, <1>2, <1>5, <1>9
<1> QED BY <1>1, <1>2, <1>5, <1>9, <1>10, <1>11, <1>12, <1>13, ClaimedPage

\* A page of the job's own is taken from the unreferenced ones.
LEMMA ClaimUniqueStep ==
  ASSUME IInv, ClaimUnique
  PROVE  Memory'
<1> SUFFICES ASSUME NEW j, j = Starting PROVE Memory'
  OBVIOUS
<1> DEFINE c == Len(job[j].pages)
           before == job[j].pages[c]
           h == IF c > 0 /\ Complete(table, before) THEN table[before].hash ELSE Root
<1>1. phase = "claim" /\ Claimed >= HashedPages(j) /\ Claimed < TotalPages(job[j].prompt)
  BY DEF ClaimUnique, At
<1>2. /\ j \in Jobs /\ Started(j) /\ JobShape(j) /\ JobTypes /\ TableOk(table) /\ RefCounts
      /\ ClaimingOf(j) /\ HashedPages(j) \in Nat /\ HashedPages(j) < TotalPages(job[j].prompt)
      /\ TotalPages(job[j].prompt) \in Nat
      /\ c \in Nat /\ Claimed = c /\ job[j].pages \in Seq(Pages)
  BY <1>1, ClaimStart
<1>3. PICK p \in Evictable : table' = [AddRefUnique(table, p) EXCEPT ![p].prev = h] /\ Take(p)
  BY <1>2 DEF ClaimUnique
<1>4. p \in Pages /\ table[p].refs = 0 /\ p \notin ToSet(job[j].pages)
  BY <1>2, <1>3, EvictableFree
<1>5. h \in Seq(Int)
  <2>1. CASE c > 0
    <3>1. before \in Pages
      BY <1>2, <2>1
    <3> HIDE DEF before
    <3>2. table[before].hash \in Seq(Int)
      BY <1>2, <3>1 DEF TableOk, CachePage
    <3> QED BY <3>2 DEF Root
  <2>2. CASE ~(c > 0)
    BY <2>2 DEF Root
  <2> QED BY <2>1, <2>2
<1>6. /\ TableOk(table') /\ (\A q \in Pages : q # p => table'[q] = table[q])
      /\ Len(table'[p].hash) = 1 /\ table'[p].toks = <<>> /\ table'[p].refs = 1
  <2> HIDE DEF h
  <2> DEFINE u == [AddRefUnique(table, p) EXCEPT ![p].prev = h]
  <2>1. TableOk(table) /\ p \in Pages /\ h \in Seq(Int)
    BY <1>2, <1>4, <1>5
  <2>2. /\ TableOk(u) /\ (\A q \in Pages : q # p => u[q] = table[q])
        /\ Len(u[p].hash) = 1 /\ u[p].toks = <<>> /\ u[p].refs = 1
    BY <2>1, AddRefUniqueOk
  <2>3. table' = u
    BY <1>3
  <2> HIDE DEF u
  <2> QED BY <2>2, <2>3
<1>7. job' = [job EXCEPT ![j].pages = Append(job[j].pages, p)]
  BY <1>3 DEF Take
<1>8. table[p].refs = 0 <=> c + 1 \notin HeldAhead(j)
  <2>1. c + 1 \notin HeldAhead(j)
    BY <1>1, <1>2 DEF HeldAhead
  <2> QED BY <1>4, <2>1
<1>9. active' = active /\ finished' = finished /\ phase' = phase /\ failed' = failed /\ kv' = kv
  BY DEF ClaimUnique
<1>10. c < TotalPages(job[j].prompt) /\ ~(c + 1 <= HashedPages(j)) /\ table'[p].refs = table[p].refs + 1
  BY <1>1, <1>2, <1>4, <1>6
<1> QED BY <1>1, <1>2, <1>4, <1>6, <1>7, <1>8, <1>9, <1>10, ClaimedPage

\* The end of the allocation.
LEMMA ClaimOverStep ==
  ASSUME IInv, ClaimOver
  PROVE  Memory'
<1> SUFFICES ASSUME NEW j, j = Starting PROVE Memory'
  OBVIOUS
<1> DEFINE c == Len(job[j].pages)
<1>1. phase = "claim" /\ Claimed = TotalPages(job[j].prompt) /\ phase' = "start"
  BY DEF ClaimOver, At
<1>2. /\ j \in Jobs /\ Started(j) /\ JobShape(j) /\ JobTypes /\ TableOk(table) /\ RefCounts
      /\ ClaimingOf(j) /\ HashedPages(j) \in Nat /\ HashedPages(j) < TotalPages(job[j].prompt)
      /\ TotalPages(job[j].prompt) \in Nat
      /\ c \in Nat /\ Claimed = c /\ job[j].pages \in Seq(Pages)
  BY <1>1, ClaimStart
<1>3. PICK n \in 0 .. Cached(job[j].pages) : job' = [job EXCEPT ![j].kvp = n * PageSize]
  BY DEF ClaimOver
<1>4. Queues /\ JobsOk /\ Claiming /\ KvOk
  BY DEF IInv, Memory
<1>5. Cached(job[j].pages) \in Nat /\ Cached(job[j].pages) <= HashedPages(j)
  BY <1>1, <1>2, <1>4, CachedBound
<1>6. n \in Nat /\ n <= HashedPages(j)
  BY <1>2, <1>5
<1>7. n * PageSize \in Nat /\ (n * PageSize) \div PageSize = n
  BY <1>6, DivOfMult
<1>8. /\ \A k \in Jobs : k # j => job'[k] = job[k]
      /\ \A k \in Jobs : job'[k].pages = job[k].pages
      /\ job'[j].ids = job[j].ids /\ job'[j].prompt = job[j].prompt
      /\ job'[j].kvp = n * PageSize
  BY <1>2, <1>3 DEF JobTypes, Job
<1>9. table' = table /\ kv' = kv /\ active' = active /\ finished' = finished
  BY DEF ClaimOver, pageVars
<1>10. RefCounts' /\ TableOk(table)' /\ KvOk'
  BY <1>2, <1>4, <1>8, <1>9, RefCountsKept DEF KvOk
<1>11. Claiming' /\ NeverStarves'
  BY <1>1 DEF Claiming, NeverStarves, At
<1>12. PagesOf(j)'
  <2>1. FirstPage(j)' = n /\ HashedPages(j)' = HashedPages(j)
    <3>1. FirstPage(j)' = n
      BY <1>7, <1>8 DEF FirstPage
    <3>2. HashedPages(j)' = HashedPages(j)
      BY <1>8 DEF HashedPages
    <3> QED BY <3>1, <3>2
  <2>2. Done(j)' = HashedPages(j)
    BY <1>2, <1>6, <2>1 DEF Done, Larger
  <2>3. \A i : (Own(j, i))' = Own(j, i)
    BY <1>2, <1>8, <1>9 DEF Own
  <2>4. Len(job'[j].pages) = TotalPages(job'[j].prompt) /\ Len(job'[j].pages) = c
    BY <1>1, <1>2, <1>8
  <2>5. ASSUME NEW i \in HashedPages(j) + 1 .. c PROVE Len(Own(j, i).hash) = 1 /\ Len(Own(j, i).toks) < PageSize
    <3>1. i \in 1 .. c /\ i > HashedPages(j)
      BY <1>2
    <3>2. Len(Own(j, i).hash) = 1 /\ Own(j, i).toks = <<>>
      BY <1>2, <3>1 DEF ClaimingOf
    <3> QED BY <3>2, PageTableAssumption
  <2>6. ASSUME NEW y \in 1 .. HashedPages(j), NEW x \in 1 .. y - 1 PROVE Grows(Own(j, x).hash, Own(j, y).hash)
    <3>1. x \in 1 .. HashedPages(j) /\ x < y /\ x \in 1 .. c /\ y \in 1 .. c
      BY <1>1, <1>2
    <3>2. Own(j, x).hash = PageHash(j, x) /\ Own(j, y).hash = PageHash(j, y)
      <4>1. x <= HashedPages(j) /\ y <= HashedPages(j)
        BY <1>2, <3>1
      <4> QED BY <1>2, <3>1, <4>1 DEF ClaimingOf
    <3>3. Len(PageHash(j, x)) < Len(PageHash(j, y))
      BY <1>2, <3>1, HashTypes
    <3> QED BY <3>2, <3>3 DEF Grows
  <2>7. ASSUME NEW i \in 1 .. HashedPages(j) PROVE Own(j, i).hash = PageHash(j, i)
    <3>1. i \in 1 .. c /\ i <= HashedPages(j)
      BY <1>1, <1>2
    <3> QED BY <1>2, <3>1 DEF ClaimingOf
  <2>8. \A i : (PageHash(j, i))' = PageHash(j, i)
    BY <1>8 DEF PageHash
  <2> QED BY <2>1, <2>2, <2>3, <2>4, <2>5, <2>6, <2>7, <2>8 DEF PagesOf
<1>13. ASSUME NEW k \in Running' PROVE PagesOf(k)'
  <2>1. CASE k # j
    <3>1. k \in Running
      BY <1>9, <2>1 DEF Running, Working
    <3>2. k \in Jobs /\ Started(k) /\ JobShape(k) /\ PagesOf(k)
      BY <1>4, <3>1, RunningOk DEF IInv, Memory
    <3> QED BY <1>2, <1>8, <1>9, <2>1, <3>2, QuietKept
  <2> QED BY <1>12, <2>1
<1> QED BY <1>10, <1>11, <1>13 DEF Memory

\* Allocation keeps the memory sound.
LEMMA ClaimStep ==
  ASSUME IInv, Claim
  PROVE  Memory'
BY ClaimHitStep, ClaimMissStep, ClaimUniqueStep, ClaimOverStep DEF Claim

-----------------------------------------------------------------------------
(* Prefill.                                                                *)

Tensors == [Pages -> [1 .. PageSize -> Seq(Tokens)]]

\* Elements of a part of a sequence.
LEMMA SubSeqOk ==
  ASSUME NEW S, NEW s \in Seq(S), NEW a \in Nat, NEW b \in Nat, a <= b, b <= Len(s)
  PROVE  /\ SubSeq(s, a + 1, b) \in Seq(S) /\ Len(SubSeq(s, a + 1, b)) = b - a
         /\ \A i \in 1 .. b - a : SubSeq(s, a + 1, b)[i] = s[a + i]
<1>1. Len(s) \in Nat
  OBVIOUS
<1>2. a + 1 \in 1 .. Len(s) + 1 /\ b \in (a + 1) - 1 .. Len(s)
  BY <1>1
<1>3. SubSeq(s, a + 1, b) \in Seq(S) /\ Len(SubSeq(s, a + 1, b)) = b - (a + 1) + 1
      /\ \A i \in 1 .. b - (a + 1) + 1 : SubSeq(s, a + 1, b)[i] = s[a + 1 + i - 1]
  BY <1>2, SubSeqProperties
<1>4. b - (a + 1) + 1 = b - a
  OBVIOUS
<1>5. \A i \in 1 .. b - a : a + 1 + i - 1 = a + i
  OBVIOUS
<1> QED BY <1>3, <1>4, <1>5

\* A forward pass writes tensors.
LEMMA ForwardOk ==
  ASSUME NEW k \in Tensors, NEW j, NEW ids \in Seq(Tokens), NEW x \in Nat, NEW y \in Nat, y <= Len(ids)
  PROVE  Forward(k, j, ids, x, y) \in Tensors
<1>1. ASSUME NEW p \in Pages, NEW s \in 1 .. PageSize
      PROVE  LET at == {n \in x .. y - 1 : PageAt(j, n \div PageSize) = p /\ n % PageSize = s - 1}
             IN  (IF at = {} THEN k[p][s] ELSE SubSeq(ids, 1, (CHOOSE n \in at : TRUE) + 1)) \in Seq(Tokens)
  <2> DEFINE at == {n \in x .. y - 1 : PageAt(j, n \div PageSize) = p /\ n % PageSize = s - 1}
             n == CHOOSE m \in at : TRUE
  <2>1. ASSUME at # {} PROVE n \in Nat /\ 0 <= n + 1 /\ n + 1 \in Nat /\ n + 1 <= Len(ids)
    <3>1. n \in at
      BY <2>1
    <3>2. n \in x .. y - 1
      BY <3>1
    <3> HIDE DEF n
    <3>3. Len(ids) \in Nat
      OBVIOUS
    <3> QED BY <3>2, <3>3
  <2> HIDE DEF n
  <2>2. ASSUME at # {} PROVE SubSeq(ids, 1, n + 1) \in Seq(Tokens)
    <3>1. SubSeq(ids, 0 + 1, n + 1) \in Seq(Tokens)
      BY <2>1, <2>2, SubSeqOk
    <3>2. 0 + 1 = 1
      OBVIOUS
    <3> QED BY <3>1, <3>2
  <2>3. k[p][s] \in Seq(Tokens)
    BY DEF Tensors
  <2> QED BY <2>2, <2>3 DEF n
<1> QED BY <1>1 DEF Forward, Tensors

\* A copy writes tensors.
LEMMA CopyPageOk ==
  ASSUME NEW k \in Tensors, NEW q \in Pages, NEW p \in Pages, NEW n
  PROVE  CopyPage(k, q, p, n) \in Tensors
BY DEF CopyPage, Tensors

\* A release leaves tensors.
LEMMA KeptOk ==
  ASSUME NEW k \in Tensors, NEW t
  PROVE  Kept(k, t) \in Tensors
<1>1. <<>> \in Seq(Tokens)
  OBVIOUS
<1> QED BY <1>1 DEF Kept, Tensors

\* A page linked and written anew keeps its hash and its references.
Rewritten(x, y) ==
  y \in CachePage /\ y.hash = x.hash /\ y.refs = x.refs /\ Len(y.toks) <= PageSize /\ y.saved = {}

\* Writing tokens and links keeps the table sound.
LEMMA RewriteOk ==
  ASSUME NEW t, TableOk(t), NEW u \in [Pages -> CachePage],
         \A p \in Pages : u[p] = t[p] \/ Rewritten(t[p], u[p])
  PROVE  TableOk(u) /\ \A p \in Pages : u[p].hash = t[p].hash /\ u[p].refs = t[p].refs
<1>1. \A p \in Pages : PageOk(t[p])
  BY DEF TableOk
<1>2. \A p \in Pages : PageOk(u[p])
  BY <1>1 DEF PageOk, Rewritten
<1>3. \A p \in Pages : u[p].hash = t[p].hash /\ u[p].refs = t[p].refs
  BY DEF Rewritten
<1>4. Distinct(u)
  BY <1>3 DEF Distinct, TableOk
<1> QED BY <1>2, <1>3, <1>4 DEF TableOk

\* One page of a chunk.
LEMMA LinkWrite ==
  ASSUME NEW t \in [Pages -> CachePage], NEW p \in Pages, NEW h \in Seq(Int), NEW s \in Seq(Tokens)
  PROVE  LET x == [Link(t, p, h)[p] EXCEPT !.toks = s]
         IN  /\ x \in CachePage /\ x.hash = t[p].hash /\ x.prev = h /\ x.refs = t[p].refs
             /\ x.toks = s /\ x.saved = {}
<1>1. Link(t, p, h)[p] = [t[p] EXCEPT !.prev = h, !.saved = {}]
  BY DEF Link
<1>2. \A x \in CachePage :
        LET y == [x EXCEPT !.prev = h, !.saved = {}]
        IN  /\ y \in CachePage /\ y.hash = x.hash /\ y.prev = h /\ y.refs = x.refs
            /\ y.toks = x.toks /\ y.saved = {}
  <2>1. {} \in SUBSET Save
    OBVIOUS
  <2> QED BY <2>1 DEF CachePage
<1>3. \A x \in CachePage :
        LET y == [x EXCEPT !.toks = s]
        IN  /\ y \in CachePage /\ y.hash = x.hash /\ y.prev = x.prev /\ y.refs = x.refs
            /\ y.toks = s /\ y.saved = x.saved
  BY DEF CachePage
<1>4. t[p] \in CachePage
  OBVIOUS
<1> DEFINE y == Link(t, p, h)[p]
<1>5. /\ y \in CachePage /\ y.hash = t[p].hash /\ y.prev = h /\ y.refs = t[p].refs /\ y.saved = {}
  BY <1>1, <1>2, <1>4
<1> HIDE DEF y
<1>6. LET x == [y EXCEPT !.toks = s]
      IN  /\ x \in CachePage /\ x.hash = t[p].hash /\ x.prev = h /\ x.refs = t[p].refs
             /\ x.toks = s /\ x.saved = {}
  BY <1>3, <1>5
<1> QED BY <1>6 DEF y

\* The hash a page is linked to is a hash.
LEMMA HashBeforeType ==
  ASSUME TableOk(table), JobTypes, NEW j \in Jobs, NEW i \in Nat, i <= Len(job[j].pages)
  PROVE  HashBefore(j, i) \in Seq(Int)
<1>1. CASE i = 0
  BY <1>1 DEF HashBefore, Root
<1>2. CASE i # 0
  <2>1. i \in 1 .. Len(job[j].pages) /\ (i - 1) + 1 = i
    BY <1>2, PageIn
  <2>2. PageAt(j, i - 1) \in Pages
    BY <2>1, PageIn DEF PageAt
  <2> QED BY <1>2, <2>2 DEF HashBefore, TableOk, CachePage
<1> QED BY <1>1, <1>2

\* No job holds a page twice.
LEMMA DistinctPages ==
  ASSUME RefCounts, JobTypes, NEW j \in Jobs, NEW i \in 1 .. Len(job[j].pages), NEW k \in 1 .. Len(job[j].pages),
         job[j].pages[i] = job[j].pages[k]
  PROVE  i = k
<1>1. i \in DOMAIN job[j].pages /\ k \in DOMAIN job[j].pages
  BY PageIn
<1> QED BY <1>1 DEF RefCounts

\* What every chunk of prefill starts from.
LEMMA PrefillStart ==
  ASSUME IInv, phase = "prefill", todo # <<>>, NEW j, j = todo[1], ~PrefillDone(j)
  PROVE  /\ j \in Jobs /\ j \in Running /\ Started(j) /\ JobShape(j) /\ PagesOf(j)
         /\ JobsOk /\ JobTypes /\ TableOk(table) /\ RefCounts /\ kv \in Tensors /\ Queues
         /\ job[j].ids \in Seq(Tokens) /\ Len(job[j].ids) = job[j].prompt /\ job[j].prompt \in Nat /\ job[j].prompt >= 1
         /\ From(j) \in Nat /\ From(j) % PageSize = 0 /\ From(j) = (From(j) \div PageSize) * PageSize
         /\ From(j) \div PageSize \in Nat /\ From(j) \div PageSize <= Done(j)
         /\ To(j) \in Nat /\ To(j) <= job[j].prompt - 1 /\ Stop(j) = job[j].prompt - 1
         /\ To(j) % PageSize = 0 \/ To(j) = Stop(j)
         /\ Len(job[j].pages) \in Nat /\ Len(job[j].pages) = TotalPages(job[j].prompt)
         /\ To(j) \div PageSize \in Nat /\ To(j) \div PageSize < Len(job[j].pages)
         /\ From(j) \div PageSize < Len(job[j].pages)
         /\ FirstPage(j) \in Nat /\ FirstPage(j) <= From(j) \div PageSize
<1>1. Queues /\ JobsOk /\ JobTypes /\ TableOk(table) /\ RefCounts /\ kv \in Tensors
  BY DEF IInv, JobsOk, Memory, KvOk, Tensors
<1>2. j \in Jobs /\ j \in Running
  BY <1>1, TurnRuns DEF Turn
<1>3. Started(j) /\ JobShape(j) /\ PagesOf(j)
  BY <1>1, <1>2, RunningOk DEF IInv, Memory
<1>4. job[j].new = 0 /\ Len(job[j].ids) = job[j].prompt /\ job[j].prompt \in Nat /\ job[j].prompt >= 1 /\ job[j].ids \in Seq(Tokens)
  BY <1>1, <1>2, <1>3 DEF JobShape, Job, JobTypes
<1>5. /\ From(j) \in Nat /\ From(j) % PageSize = 0 /\ From(j) = (From(j) \div PageSize) * PageSize
      /\ From(j) \div PageSize \in Nat /\ From(j) \div PageSize <= Done(j) /\ FirstPage(j) <= From(j) \div PageSize
  BY <1>1, <1>2, <1>3, FromRange, FromLow DEF JobTypes
<1>6. To(j) \in Nat /\ To(j) <= Stop(j) /\ (To(j) % PageSize = 0 \/ To(j) = Stop(j))
  BY <1>1, <1>2, <1>3, ToRange DEF JobTypes
<1>7. Stop(j) = job[j].prompt - 1
  BY <1>4 DEF Stop
<1>8. Len(job[j].pages) \in Nat /\ Len(job[j].pages) = TotalPages(job[j].prompt)
  BY <1>1, <1>2, <1>3, PageIn DEF PagesOf
<1>9. Done(j) \in Nat /\ Done(j) < TotalPages(job[j].prompt) /\ FirstPage(j) \in Nat
  BY <1>1, <1>2, <1>3, DoneBounds
<1>10. To(j) < job[j].prompt + MaxTokens + Depth + 1
  BY <1>4, <1>6, <1>7, GeneratorAssumption, PageTableAssumption
<1>11. To(j) \div PageSize \in Nat /\ To(j) \div PageSize < TotalPages(job[j].prompt)
  BY <1>4, <1>6, <1>10, PagesEnough, DivBounds
<1> QED BY <1>1, <1>2, <1>3, <1>4, <1>5, <1>6, <1>7, <1>8, <1>9, <1>11

\* No more is copied than the chunk, the page and the other page have.
LEMMA CopiedRange ==
  ASSUME JobTypes, TableOk(table), NEW j \in Jobs, NEW q \in Pages, From(j) \in Nat, To(j) \in Nat, From(j) < To(j),
         To(j) <= Len(job[j].ids)
  PROVE  Copied(j, q) \in Nat /\ Copied(j, q) <= To(j) - From(j) /\ Copied(j, q) <= PageSize
         /\ Copied(j, q) <= Len(table[q].toks)
<1> DEFINE ids == SubSeq(job[j].ids, From(j) + 1, To(j))
           m == Smaller(Len(ids), Len(table[q].toks))
           same == {n \in 1 .. m : SubSeq(ids, 1, n) = SubSeq(table[q].toks, 1, n)}
<1>1. Len(ids) = To(j) - From(j)
  BY SubSeqOk DEF JobTypes, Job
<1>2. Len(table[q].toks) \in Nat /\ Len(table[q].toks) <= PageSize
  BY DEF TableOk, PageOk, CachePage
<1>3. To(j) - From(j) \in Nat
  OBVIOUS
<1>4. m \in Nat /\ m <= Len(ids) /\ m <= Len(table[q].toks)
  BY <1>1, <1>2, <1>3 DEF Smaller
<1>5. Match(j, q) = 0 \/ Match(j, q) = Cardinality(same)
  BY DEF Match
<1>6. Cardinality(same) \in Nat /\ Cardinality(same) <= m
  <2>1. same \in SUBSET (1 .. m)
    OBVIOUS
  <2> HIDE DEF same, m
  <2>2. IsFiniteSet(same) /\ Cardinality(same) <= m
    <3>1. IsFiniteSet(1 .. m) /\ Cardinality(1 .. m) = m
      BY <1>4, CardinalityUpto
    <3> QED BY <2>1, <3>1, FS_Subset
  <2> QED BY <2>2, FS_CardinalityType
<1> HIDE DEF same, m, ids
<1>7. Match(j, q) \in Nat /\ Match(j, q) <= To(j) - From(j) /\ Match(j, q) <= Len(table[q].toks)
  BY <1>1, <1>2, <1>4, <1>5, <1>6
<1> QED BY <1>2, <1>3, <1>7, PageTableAssumption DEF Copied, Smaller

\* What a chunk leaves in the page with index i of its job.
Chunked(j, i) ==
  LET x == table[PageAt(j, i)]
      y == table'[PageAt(j, i)]
  IN  Rewritten(x, y) /\ (i >= To(j) \div PageSize => Len(y.toks) < PageSize)

LinkedWith(p, h, s) == [Link(table, p, h)[p] EXCEPT !.toks = s]

\* A page that gets the tokens from position a + 1 to position b.
LEMMA ChunkPage ==
  ASSUME TableOk(table), JobTypes, NEW j \in Jobs, NEW i \in 0 .. Len(job[j].pages) - 1,
         NEW a \in Nat, NEW b \in Nat, a <= b, b <= Len(job[j].ids),
         b <= a + PageSize, i >= To(j) \div PageSize => b < a + PageSize
  PROVE  LET x == LinkedWith(PageAt(j, i), HashBefore(j, i), SubSeq(job[j].ids, a + 1, b))
         IN  /\ PageAt(j, i) \in Pages /\ x \in CachePage
             /\ table'[PageAt(j, i)] = x => Chunked(j, i)
<1> DEFINE s == SubSeq(job[j].ids, a + 1, b)
           h == HashBefore(j, i)
           p == PageAt(j, i)
           x == LinkedWith(p, h, s)
<1>1. s \in Seq(Tokens) /\ Len(s) = b - a
  <2>1. job[j].ids \in Seq(Tokens)
    BY DEF JobTypes, Job
  <2> QED BY <2>1, SubSeqOk
<1>2. Len(job[j].pages) \in Nat
  BY PageIn
<1>3. h \in Seq(Int)
  BY <1>2, HashBeforeType
<1>4. p \in Pages
  <2>1. i + 1 \in 1 .. Len(job[j].pages)
    BY <1>2
  <2> QED BY <2>1, PageIn DEF PageAt
<1>5. table \in [Pages -> CachePage]
  BY DEF TableOk
<1>6. x = [Link(table, p, h)[p] EXCEPT !.toks = s]
  BY DEF LinkedWith
<1> HIDE DEF s, h, p, x
<1>7. /\ x \in CachePage /\ x.hash = table[p].hash /\ x.refs = table[p].refs
      /\ x.toks = s /\ x.saved = {}
  BY <1>1, <1>3, <1>4, <1>5, <1>6, LinkWrite
<1>8. Len(s) <= PageSize /\ (i >= To(j) \div PageSize => Len(s) < PageSize)
  BY <1>1, PageTableAssumption
<1>9. Rewritten(table[p], x)
  BY <1>7, <1>8 DEF Rewritten
<1>10. ASSUME table'[p] = x PROVE Chunked(j, i)
  BY <1>7, <1>8, <1>9, <1>10 DEF Chunked, p
<1> QED BY <1>4, <1>7, <1>10 DEF x, p, h, s

\* The writes of a chunk.
LEMMA PrefillWrites ==
  ASSUME IInv, NEW j, phase = "prefill", todo # <<>>, j = todo[1], ~PrefillDone(j), From(j) < To(j),
         NEW k \in Tensors, NEW n \in Nat, n <= To(j) - From(j), n <= PageSize,
         PrefillFrom(j, k, n)
  PROVE  /\ kv' \in Tensors /\ table' \in [Pages -> CachePage] /\ job' = [job EXCEPT ![j].kvp = To(j)]
         /\ \A p \in Pages : table'[p] = table[p] \/
              \E i \in 0 .. Len(job[j].pages) - 1 : p = PageAt(j, i) /\ Chunked(j, i)
<1>1. /\ j \in Jobs /\ JobTypes /\ TableOk(table) /\ RefCounts
      /\ job[j].ids \in Seq(Tokens) /\ Len(job[j].ids) = job[j].prompt /\ job[j].prompt \in Nat /\ job[j].prompt >= 1
      /\ From(j) \in Nat /\ From(j) = (From(j) \div PageSize) * PageSize
      /\ From(j) \div PageSize \in Nat
      /\ To(j) \in Nat /\ To(j) <= job[j].prompt - 1
      /\ Len(job[j].pages) \in Nat
      /\ To(j) \div PageSize \in Nat /\ To(j) \div PageSize < Len(job[j].pages)
      /\ From(j) \div PageSize < Len(job[j].pages)
  BY PrefillStart
<1>2. To(j) <= Len(job[j].ids) /\ From(j) + n \in Nat /\ From(j) + n <= To(j)
  BY <1>1
<1>3. kv' \in Tensors
  BY <1>1, <1>2, ForwardOk DEF PrefillFrom
<1>4. job' = [job EXCEPT ![j].kvp = To(j)]
  BY DEF PrefillFrom
<1>5. table \in [Pages -> CachePage]
  BY <1>1 DEF TableOk
<1>7. CASE From(j) + n < To(j)
  <2>1. table' = Filled(j)
    BY <1>7 DEF PrefillFrom
  <2>2. ASSUME NEW p \in Pages, NEW i \in OwnPages(j), PageAt(j, i) = p
        PROVE  i \in 0 .. Len(job[j].pages) - 1
    <3>1. i \in From(j) \div PageSize .. Smaller(To(j) \div PageSize, Len(job[j].pages) - 1)
      BY DEF OwnPages
    <3> QED BY <1>1, <3>1 DEF Smaller
  <2>3. \A p \in Pages :
          \/ table'[p] = table[p]
          \/ \E i \in OwnPages(j) : PageAt(j, i) = p /\ table'[p] =
                LinkedWith(p, HashBefore(j, i), SubSeq(job[j].ids, i * PageSize + 1, Smaller((i + 1) * PageSize, To(j))))
    <3> SUFFICES ASSUME NEW p \in Pages
                 PROVE  \/ table'[p] = table[p]
                        \/ \E i \in OwnPages(j) : PageAt(j, i) = p /\ table'[p] =
                              LinkedWith(p, HashBefore(j, i), SubSeq(job[j].ids, i * PageSize + 1, Smaller((i + 1) * PageSize, To(j))))
      OBVIOUS
    <3> DEFINE at == {i \in OwnPages(j) : PageAt(j, i) = p}
               i == CHOOSE x \in at : TRUE
    <3>1. table'[p] = IF at = {} THEN table[p] ELSE
                LinkedWith(p, HashBefore(j, i), SubSeq(job[j].ids, i * PageSize + 1, Smaller((i + 1) * PageSize, To(j))))
      BY <2>1 DEF Filled, LinkedWith
    <3>2. at # {} => i \in at
      OBVIOUS
    <3> HIDE DEF i
    <3> QED BY <3>1, <3>2
  <2>4. \A i \in OwnPages(j) : 
           /\ i \in 0 .. Len(job[j].pages) - 1 /\ i * PageSize \in Nat /\ Smaller((i + 1) * PageSize, To(j)) \in Nat
           /\ i * PageSize <= Smaller((i + 1) * PageSize, To(j))
           /\ Smaller((i + 1) * PageSize, To(j)) <= Len(job[j].ids)
           /\ Smaller((i + 1) * PageSize, To(j)) <= i * PageSize + PageSize
           /\ (i >= To(j) \div PageSize => Smaller((i + 1) * PageSize, To(j)) < i * PageSize + PageSize)
    <3> SUFFICES ASSUME NEW i \in OwnPages(j)
                 PROVE  /\ i \in 0 .. Len(job[j].pages) - 1 /\ i * PageSize \in Nat /\ Smaller((i + 1) * PageSize, To(j)) \in Nat
                        /\ i * PageSize <= Smaller((i + 1) * PageSize, To(j))
                        /\ Smaller((i + 1) * PageSize, To(j)) <= Len(job[j].ids)
                        /\ Smaller((i + 1) * PageSize, To(j)) <= i * PageSize + PageSize
                        /\ (i >= To(j) \div PageSize => Smaller((i + 1) * PageSize, To(j)) < i * PageSize + PageSize)
      OBVIOUS
    <3>1. i \in From(j) \div PageSize .. Smaller(To(j) \div PageSize, Len(job[j].pages) - 1)
      BY DEF OwnPages
    <3>2. i \in Nat /\ i <= To(j) \div PageSize /\ i <= Len(job[j].pages) - 1
      BY <1>1, <3>1 DEF Smaller
    <3>3. i * PageSize \in Nat /\ (i + 1) * PageSize = i * PageSize + PageSize
      BY <3>2, MultMono
    <3>4. i * PageSize <= To(j)
      BY <1>1, <3>2, DivBounds
    <3>5. i >= To(j) \div PageSize => To(j) < (i + 1) * PageSize
      <4>1. i >= To(j) \div PageSize => To(j) \div PageSize < i + 1
        BY <1>1, <3>2
      <4>2. i + 1 \in Nat
        BY <3>2
      <4> QED BY <1>1, <4>1, <4>2, DivBounds
    <3> DEFINE a == i * PageSize
               b == (i + 1) * PageSize
               d == To(j) \div PageSize
    <3> HIDE DEF a, b, d
    <3>6. a \in Nat /\ b = a + PageSize /\ a <= To(j) /\ (i >= d => To(j) < b) /\ PageSize \in Nat
      BY <3>3, <3>4, <3>5, PageTableAssumption DEF a, b, d
    <3>9. To(j) \in Nat /\ To(j) <= Len(job[j].ids)
      BY <1>1, <1>2
    <3>7. /\ Smaller(b, To(j)) \in Nat /\ a <= Smaller(b, To(j)) /\ Smaller(b, To(j)) <= Len(job[j].ids)
          /\ Smaller(b, To(j)) <= a + PageSize /\ (i >= d => Smaller(b, To(j)) < a + PageSize)
      BY <3>6, <3>9 DEF Smaller
    <3>8. i \in 0 .. Len(job[j].pages) - 1
      BY <1>1, <3>2
    <3> QED BY <3>6, <3>7, <3>8 DEF a, b, d
  <2>5. ASSUME NEW i \in OwnPages(j)
        PROVE  LET x == LinkedWith(PageAt(j, i), HashBefore(j, i), SubSeq(job[j].ids, i * PageSize + 1, Smaller((i + 1) * PageSize, To(j))))
               IN  /\ PageAt(j, i) \in Pages /\ x \in CachePage
                   /\ table'[PageAt(j, i)] = x => Chunked(j, i)
    <3> DEFINE a == i * PageSize
               b == Smaller((i + 1) * PageSize, To(j))
    <3>1. /\ i \in 0 .. Len(job[j].pages) - 1 /\ a \in Nat /\ b \in Nat /\ a <= b
          /\ b <= Len(job[j].ids) /\ b <= a + PageSize /\ (i >= To(j) \div PageSize => b < a + PageSize)
      BY <2>4
    <3> HIDE DEF a, b
    <3>2. LET x == LinkedWith(PageAt(j, i), HashBefore(j, i), SubSeq(job[j].ids, a + 1, b))
          IN  /\ PageAt(j, i) \in Pages /\ x \in CachePage
              /\ table'[PageAt(j, i)] = x => Chunked(j, i)
      BY <1>1, <3>1, ChunkPage
    <3> QED BY <3>2 DEF a, b
  <2>6. ASSUME NEW p \in Pages, table'[p] # table[p]
        PROVE  table'[p] \in CachePage /\ \E i \in 0 .. Len(job[j].pages) - 1 : p = PageAt(j, i) /\ Chunked(j, i)
    <3>1. PICK i \in OwnPages(j) : PageAt(j, i) = p /\ table'[p] =
                LinkedWith(p, HashBefore(j, i), SubSeq(job[j].ids, i * PageSize + 1, Smaller((i + 1) * PageSize, To(j))))
      BY <2>3, <2>6
    <3>2. table'[p] \in CachePage /\ Chunked(j, i)
      BY <2>5, <3>1
    <3> QED BY <2>4, <3>1, <3>2
  <2>7. table' \in [Pages -> CachePage]
    <3>1. ASSUME NEW p \in Pages PROVE Filled(j)[p] \in CachePage
      <4>1. CASE table'[p] = table[p]
        BY <1>5, <2>1, <4>1
      <4>2. CASE table'[p] # table[p]
        BY <2>1, <2>6, <4>2
      <4> QED BY <4>1, <4>2
    <3>2. Filled(j) = [p \in Pages |-> Filled(j)[p]]
      BY DEF Filled
    <3> QED BY <2>1, <3>1, <3>2
  <2> QED BY <1>3, <1>4, <2>6, <2>7
<1>8. CASE ~(From(j) + n < To(j))
  <2> DEFINE i == From(j) \div PageSize
             p == PageAt(j, i)
             b == From(j) + n
             x == LinkedWith(p, HashBefore(j, i), SubSeq(job[j].ids, From(j) + 1, b))
  <2>1. table' = CopyOnly(j, n) /\ From(j) + n = To(j)
    BY <1>1, <1>2, <1>8 DEF PrefillFrom
  <2>2. table' = [table EXCEPT ![p] = x]
    BY <2>1 DEF CopyOnly, LinkedWith
  <2>3. i \in 0 .. Len(job[j].pages) - 1 /\ i \in Nat /\ i <= Len(job[j].pages)
    BY <1>1
  <2>6. i >= To(j) \div PageSize => From(j) + n < From(j) + PageSize
    <3>1. i >= To(j) \div PageSize => To(j) \div PageSize < i + 1
      BY <1>1, <2>3
    <3>2. i >= To(j) \div PageSize => To(j) < (i + 1) * PageSize
      <4>1. i + 1 \in Nat
        BY <2>3
      <4> HIDE DEF i
      <4> QED BY <1>1, <3>1, <4>1, DivBounds
    <3>3. (i + 1) * PageSize = i * PageSize + PageSize /\ i * PageSize = From(j)
      BY <1>1, <2>3, MultMono
    <3> QED BY <2>1, <3>2, <3>3
  <2>7. b \in Nat /\ From(j) \in Nat /\ From(j) <= b /\ b <= Len(job[j].ids) /\ b <= From(j) + PageSize
        /\ (i >= To(j) \div PageSize => b < From(j) + PageSize)
    <3>1. From(j) \in Nat /\ To(j) <= Len(job[j].ids) /\ From(j) + n = To(j) /\ To(j) \in Nat
      BY <1>1, <1>2, <2>1
    <3> HIDE DEF i
    <3> QED BY <2>6, <3>1, PageTableAssumption
  <2> HIDE DEF b, i
  <2>8. p \in Pages /\ x \in CachePage /\ (table'[p] = x => Chunked(j, i))
    <3>1. TableOk(table) /\ JobTypes /\ j \in Jobs /\ i \in 0 .. Len(job[j].pages) - 1
      BY <1>1, <2>3
    <3> QED BY <2>7, <3>1, ChunkPage
  <2>9. table' \in [Pages -> CachePage] /\ table'[p] = x /\ \A q \in Pages : q # p => table'[q] = table[q]
    <3> HIDE DEF x, p
    <3> QED BY <1>5, <2>2, <2>8
  <2> HIDE DEF x
  <2> QED BY <1>3, <1>4, <2>3, <2>8, <2>9
<1> QED BY <1>7, <1>8

\* A random hash is no token sequence.
LEMMA RandomUnrooted ==
  ASSUME NEW h \in Seq(Int), HashShape(h), Len(h) = 1
  PROVE  ~Rooted(h)
<1>1. h[1] < 0 /\ h # Root /\ h[1] \in Int
  BY PageTableAssumption DEF HashShape, Root
<1> QED BY <1>1 DEF Rooted

\* A chunk keeps the memory sound.
LEMMA PrefillKeeps ==
  ASSUME IInv, NEW j, phase = "prefill", todo # <<>>, j = todo[1], ~PrefillDone(j), From(j) < To(j),
         NEW k \in Tensors, NEW n \in Nat, n <= To(j) - From(j), n <= PageSize,
         PrefillFrom(j, k, n), active' = active, finished' = finished, phase' = phase
  PROVE  Memory'
<1>1. /\ j \in Jobs /\ j \in Running /\ Started(j) /\ JobShape(j) /\ PagesOf(j)
      /\ JobsOk /\ JobTypes /\ TableOk(table) /\ RefCounts /\ Queues
      /\ job[j].prompt \in Nat /\ job[j].prompt >= 1
      /\ From(j) \in Nat
      /\ From(j) \div PageSize \in Nat /\ From(j) \div PageSize <= Done(j)
      /\ To(j) \in Nat /\ To(j) <= job[j].prompt - 1
      /\ Len(job[j].pages) \in Nat /\ Len(job[j].pages) = TotalPages(job[j].prompt)
      /\ To(j) \div PageSize \in Nat /\ To(j) \div PageSize < Len(job[j].pages)
      /\ FirstPage(j) \in Nat /\ FirstPage(j) <= From(j) \div PageSize
  BY PrefillStart
<1>2. /\ kv' \in Tensors /\ table' \in [Pages -> CachePage] /\ job' = [job EXCEPT ![j].kvp = To(j)]
      /\ \A p \in Pages : table'[p] = table[p] \/
           \E i \in 0 .. Len(job[j].pages) - 1 : p = PageAt(j, i) /\ Chunked(j, i)
  BY PrefillWrites
<1>3. /\ \A q \in Jobs : q # j => job'[q] = job[q]
      /\ \A q \in Jobs : job'[q].pages = job[q].pages
      /\ job'[j].ids = job[j].ids /\ job'[j].prompt = job[j].prompt
      /\ job'[j].kvp = To(j)
  BY <1>1, <1>2 DEF JobTypes, Job
<1>4. TableOk(table') /\ \A p \in Pages : table'[p].hash = table[p].hash /\ table'[p].refs = table[p].refs
  <2>1. \A p \in Pages : table'[p] = table[p] \/ Rewritten(table[p], table'[p])
    BY <1>2 DEF Chunked
  <2> QED BY <1>1, <1>2, <2>1, RewriteOk
<1>5. RefCounts'
  BY <1>1, <1>3, <1>4, RefCountsKept
<1>6. KvOk'
  BY <1>2 DEF KvOk, Tensors
<1>7. Claiming' /\ NeverStarves'
  BY DEF Claiming, NeverStarves, At
<1>8. ASSUME NEW q \in Running', q # j PROVE PagesOf(q)'
  <2>1. q \in Running
    BY DEF Running, Working
  <2>2. q \in Jobs /\ Started(q) /\ JobShape(q) /\ PagesOf(q)
    BY <1>1, <2>1, RunningOk DEF IInv, Memory
  <2>3. \A p \in Pages : (table'[p].hash = table[p].hash /\ table'[p].toks = table[p].toks)
          \/ (p \in ToSet(job[j].pages) /\ table'[p].hash = table[p].hash)
    <3> SUFFICES ASSUME NEW p \in Pages, table'[p] # table[p] PROVE p \in ToSet(job[j].pages)
      BY <1>4
    <3>1. PICK i \in 0 .. Len(job[j].pages) - 1 : p = PageAt(j, i)
      BY <1>2
    <3>2. i + 1 \in 1 .. Len(job[j].pages)
      BY <1>1
    <3> QED BY <1>1, <3>1, <3>2, PageIn DEF PageAt
  <2> QED BY <1>1, <1>3, <1>8, <2>2, <2>3, OthersKept
<1>9. PagesOf(j)'
  <2> DEFINE f == To(j) \div PageSize
             H == HashedPages(j)
             d == Larger(H, f)
             L == Len(job[j].pages)
  <2>1. FirstPage(j)' = f /\ HashedPages(j)' = H
    <3>1. FirstPage(j)' = f
      BY <1>3 DEF FirstPage
    <3>2. HashedPages(j)' = H
      BY <1>3 DEF HashedPages
    <3> QED BY <3>1, <3>2
  <2>2. Done(j)' = d
    BY <2>1 DEF Done
  <2>3. H \in Nat /\ H < L /\ f \in Nat /\ f < L /\ L \in Nat /\ Done(j) \in Nat /\ Done(j) = Larger(H, FirstPage(j)) /\ Done(j) < L
    BY <1>1, DoneBounds DEF Done
  <2>4. FirstPage(j) <= f
    BY <1>1, DivMono
  <2>5. f <= H + 1
    <3>1. f <= (job[j].prompt - 1) \div PageSize
      BY <1>1, DivMono
    <3>2. (job[j].prompt - 1) \div PageSize \in {H, H + 1}
      BY <1>1, HashedBounds
    <3> HIDE DEF f, H
    <3> QED BY <2>3, <3>1, <3>2
  <2> HIDE DEF f, H, L
  <2>6. Done(j) <= d /\ d \in Nat /\ d < L /\ f <= d /\ (d = Done(j) \/ (d = H + 1 /\ Done(j) = H)) /\ H <= Done(j)
    BY <1>1, <2>3, <2>4, <2>5 DEF Larger
  <2> HIDE DEF d
  <2>7. \A i \in 1 .. L : (Own(j, i))'.hash = Own(j, i).hash
    <3>1. \A i \in 1 .. L : job[j].pages[i] \in Pages
      BY <1>1, PageIn DEF L
    <3> QED BY <1>1, <1>3, <1>4, <3>1 DEF Own
  <2>8. ASSUME NEW i \in d + 1 .. L
        PROVE  Len((Own(j, i))'.hash) = 1 /\ Len((Own(j, i))'.toks) < PageSize
    <3>1. i \in 1 .. L /\ i \in Done(j) + 1 .. L /\ i - 1 >= f
      BY <2>3, <2>6
    <3>2. Len(Own(j, i).hash) = 1 /\ Len(Own(j, i).toks) < PageSize
      BY <1>1, <3>1 DEF PagesOf, L
    <3> DEFINE p == job[j].pages[i]
    <3>3. p \in Pages /\ (Own(j, i))' = table'[p] /\ Own(j, i) = table[p]
      <4>1. p \in Pages
        BY <1>1, <3>1, PageIn DEF L
      <4>2. job'[j].pages = job[j].pages
        BY <1>1, <1>3
      <4> QED BY <4>1, <4>2 DEF Own
    <3>4. CASE table'[p] = table[p]
      BY <2>7, <3>1, <3>2, <3>3, <3>4
    <3>5. CASE table'[p] # table[p]
      <4>1. PICK x \in 0 .. Len(job[j].pages) - 1 : p = PageAt(j, x) /\ Chunked(j, x)
        BY <1>2, <3>3, <3>5
      <4>2. x + 1 = i
        <5>1. x + 1 \in 1 .. Len(job[j].pages) /\ i \in 1 .. Len(job[j].pages)
          BY <1>1, <3>1 DEF L
        <5>2. job[j].pages[x + 1] = job[j].pages[i]
          BY <4>1 DEF PageAt
        <5> QED BY <1>1, <5>1, <5>2, DistinctPages
      <4>3. x >= f
        BY <1>1, <2>3, <3>1, <4>2
      <4>4. Len(table'[p].toks) < PageSize
        BY <4>1, <4>3 DEF Chunked, f
      <4> QED BY <2>7, <3>1, <3>2, <3>3, <4>4
    <3> QED BY <3>4, <3>5
  <2>9. \A i \in 1 .. H : Own(j, i).hash = PageHash(j, i) /\ Rooted(Own(j, i).hash)
    BY <1>1, HashTypes DEF PagesOf, H
  <2>10. ASSUME NEW y \in 1 .. d, NEW x \in 1 .. y - 1
         PROVE  Grows(Own(j, x).hash, Own(j, y).hash)
    <3>1. CASE y <= Done(j)
      <4>1. y \in 1 .. Done(j)
        BY <2>3, <2>6, <3>1
      <4> QED BY <1>1, <4>1 DEF PagesOf
    <3>2. CASE y > Done(j)
      <4>1. y = H + 1 /\ x \in 1 .. H /\ y \in Done(j) + 1 .. L
        BY <2>3, <2>6, <3>2
      <4>2. Rooted(Own(j, x).hash)
        BY <2>9, <4>1
      <4>3. Len(Own(j, y).hash) = 1
        BY <1>1, <4>1 DEF PagesOf, L
      <4>4. job[j].pages[y] \in Pages
        BY <1>1, <2>3, <4>1, PageIn DEF L
      <4>5. HashShape(Own(j, y).hash) /\ Own(j, y).hash \in Seq(Int)
        BY <1>1, <4>4 DEF Own, TableOk, PageOk, CachePage
      <4>6. ~Rooted(Own(j, y).hash)
        BY <4>3, <4>5, RandomUnrooted
      <4> QED BY <4>2, <4>6 DEF Grows
    <3> QED BY <2>3, <2>6, <3>1, <3>2
  <2>11. \A i : (PageHash(j, i))' = PageHash(j, i)
    BY <1>3 DEF PageHash
  <2>12. \A y \in 1 .. d : \A x \in 1 .. y - 1 : Grows((Own(j, x))'.hash, (Own(j, y))'.hash)
    <3> SUFFICES ASSUME NEW y \in 1 .. d, NEW x \in 1 .. y - 1 PROVE Grows((Own(j, x))'.hash, (Own(j, y))'.hash)
      OBVIOUS
    <3>1. x \in 1 .. L /\ y \in 1 .. L
      BY <2>3, <2>6
    <3> QED BY <2>7, <2>10, <3>1
  <2>13. Len(job'[j].pages) = TotalPages(job'[j].prompt) /\ Len(job'[j].pages) = L
    BY <1>1, <1>3 DEF L
  <2>14. \A i \in 1 .. H : (Own(j, i))'.hash = PageHash(j, i)
    BY <2>3, <2>7, <2>9
  <2> QED BY <2>1, <2>2, <2>8, <2>11, <2>12, <2>13, <2>14 DEF PagesOf
<1>10. TableOk(table)'
  BY <1>4
<1> QED BY <1>5, <1>6, <1>7, <1>8, <1>9, <1>10 DEF Memory

\* Prefill keeps the memory sound.
LEMMA PrefillStep ==
  ASSUME IInv, Prefill
  PROVE  Memory'
<1> SUFFICES ASSUME NEW j, j = todo[1] PROVE Memory'
  OBVIOUS
<1>1. /\ phase = "prefill" /\ todo # <<>> /\ ~PrefillDone(j) /\ From(j) < To(j)
      /\ active' = active /\ finished' = finished /\ phase' = phase
  <2>1. phase = "prefill" /\ todo # <<>> /\ ~PrefillDone(j) /\ To(j) > From(j)
    BY DEF Prefill, At, Turn
  <2>2. active' = active /\ finished' = finished /\ phase' = phase
    BY DEF Prefill
  <2>3. From(j) \in Nat /\ To(j) \in Nat
    BY <2>1, PrefillStart
  <2> QED BY <2>1, <2>2, <2>3
<1>2. /\ j \in Jobs /\ JobTypes /\ TableOk(table) /\ kv \in Tensors
      /\ From(j) \in Nat /\ To(j) \in Nat /\ To(j) <= Len(job[j].ids)
      /\ From(j) \div PageSize \in Nat /\ From(j) \div PageSize < Len(job[j].pages) /\ Len(job[j].pages) \in Nat
  <2>1. /\ j \in Jobs /\ JobTypes /\ TableOk(table) /\ kv \in Tensors
        /\ From(j) \in Nat /\ To(j) \in Nat /\ To(j) <= job[j].prompt - 1 /\ Len(job[j].ids) = job[j].prompt
        /\ job[j].prompt \in Nat
        /\ From(j) \div PageSize \in Nat /\ From(j) \div PageSize < Len(job[j].pages) /\ Len(job[j].pages) \in Nat
    BY <1>1, PrefillStart
  <2> QED BY <2>1
<1>3. CASE Hybrid \/ BestMatches(j) = {}
  <2>1. PrefillFrom(j, kv, 0)
    BY <1>3 DEF Prefill, Turn
  <2>2. 0 \in Nat /\ 0 <= To(j) - From(j) /\ 0 <= PageSize
    BY <1>1, <1>2, PageTableAssumption
  <2> QED BY <1>1, <1>2, <2>1, <2>2, PrefillKeeps
<1>4. CASE ~(Hybrid \/ BestMatches(j) = {})
  <2>1. PICK q \in BestMatches(j) :
          PrefillFrom(j, CopyPage(kv, q, PageAt(j, From(j) \div PageSize), Copied(j, q)), Copied(j, q))
    BY <1>4 DEF Prefill, Turn
  <2>2. q \in Pages
    BY <2>1 DEF BestMatches
  <2>3. PageAt(j, From(j) \div PageSize) \in Pages
    <3>1. (From(j) \div PageSize) + 1 \in 1 .. Len(job[j].pages)
      BY <1>2
    <3> QED BY <1>2, <3>1, PageIn DEF PageAt
  <2> DEFINE k == CopyPage(kv, q, PageAt(j, From(j) \div PageSize), Copied(j, q))
  <2>4. k \in Tensors
    BY <1>2, <2>2, <2>3, CopyPageOk
  <2>5. Copied(j, q) \in Nat /\ Copied(j, q) <= To(j) - From(j) /\ Copied(j, q) <= PageSize
    BY <1>1, <1>2, <2>2, CopiedRange
  <2>6. PrefillFrom(j, k, Copied(j, q))
    BY <2>1
  <2> HIDE DEF k
  <2> QED BY <1>1, <1>2, <2>4, <2>5, <2>6, PrefillKeeps
<1> QED BY <1>3, <1>4

-----------------------------------------------------------------------------
(* Release.                                                                *)

LEMMA ReleaseStep ==
  ASSUME IInv, ReleasePage
  PROVE  Memory'
<1> SUFFICES ASSUME NEW j, j = finished[1] PROVE Memory'
  OBVIOUS
<1> SUFFICES ASSUME NEW p, p = job[j].pages[1] PROVE Memory'
  OBVIOUS
<1>1. Queues /\ JobsOk /\ QueueTypes /\ JobTypes /\ TableOk(table) /\ RefCounts /\ KvOk
  BY DEF IInv, Queues, JobsOk, Memory
<1>2. /\ phase = "release" /\ phase' = phase /\ finished # <<>> /\ finished' = finished /\ active' = active
      /\ job[j].pages # <<>> /\ table' = SubRef(table, p) /\ kv' = Kept(kv, table')
      /\ job' = [job EXCEPT ![j].pages = Tail(job[j].pages)]
  BY DEF ReleasePage, Leaving, At
<1>3. j \in Jobs /\ j \in ToSet(finished)
  BY <1>1, <1>2, SeqTail DEF QueueTypes
<1>4. job[j].pages \in Seq(Pages) /\ Injective(job[j].pages)
  <2>1. job[j].pages \in Seq(Pages)
    BY <1>1, <1>3, PageIn
  <2> QED BY <1>1, <1>3, <2>1 DEF RefCounts, Injective
<1>5. /\ p \in ToSet(job[j].pages) /\ p \in Pages /\ Tail(job[j].pages) \in Seq(Pages)
      /\ Injective(Tail(job[j].pages)) /\ ToSet(Tail(job[j].pages)) = ToSet(job[j].pages) \ {p}
  BY <1>2, <1>4, SeqTail
<1>6. /\ \A k \in Jobs : k # j => job'[k] = job[k]
      /\ job'[j].pages = Tail(job[j].pages)
  BY <1>1, <1>2, <1>3 DEF JobTypes, Job
<1>7. table[p].refs >= 1 /\ table[p].refs \in Nat
  BY <1>1, <1>3, <1>5, Held
<1>8. /\ TableOk(table') /\ (\A q \in Pages : q # p => table'[q] = table[q])
      /\ table'[p].refs = table[p].refs - 1
      /\ (table[p].refs > 1 => table'[p].hash = table[p].hash /\ table'[p].toks = table[p].toks)
  BY <1>1, <1>2, <1>5, <1>7, SubRefOk
<1>9. RefCounts'
  <2>1. ASSUME NEW k \in Jobs PROVE \A x, y \in DOMAIN job'[k].pages : x # y => job'[k].pages[x] # job'[k].pages[y]
    <3>1. CASE k # j
      BY <1>1, <1>6, <3>1 DEF RefCounts
    <3>2. CASE k = j
      BY <1>5, <1>6, <3>2 DEF Injective
    <3> QED BY <3>1, <3>2
  <2>2. ASSUME NEW q \in Pages PROVE table'[q].refs = Cardinality({k \in Jobs : q \in ToSet(job'[k].pages)})
    <3>1. Holders(q) \in SUBSET Jobs /\ table[q].refs = Cardinality(Holders(q))
      BY <1>1, Held
    <3>2. CASE q # p
      <4>1. {k \in Jobs : q \in ToSet(job'[k].pages)} = Holders(q)
        BY <1>3, <1>5, <1>6, <3>2 DEF Holders
      <4> QED BY <1>8, <3>1, <3>2, <4>1
    <3>3. CASE q = p
      <4>1. {k \in Jobs : q \in ToSet(job'[k].pages)} = Holders(q) \ {j}
        BY <1>3, <1>5, <1>6, <3>3 DEF Holders
      <4>2. j \in Holders(q)
        BY <1>3, <1>5, <3>3 DEF Holders
      <4> QED BY <1>8, <3>1, <3>3, <4>1, <4>2, SmallSets
    <3> QED BY <3>2, <3>3
  <2> QED BY <2>1, <2>2 DEF RefCounts
<1>10. KvOk'
  BY <1>1, <1>2, KeptOk DEF KvOk, Tensors
<1>11. Claiming' /\ NeverStarves'
  BY <1>2 DEF Claiming, NeverStarves, At
<1>12. ASSUME NEW k \in Running' PROVE PagesOf(k)'
  <2>1. k \in Running /\ k # j
    BY <1>2, <1>3 DEF Running, Working
  <2>2. k \in Jobs /\ Started(k) /\ JobShape(k) /\ PagesOf(k)
    BY <1>1, <2>1, RunningOk DEF IInv, Memory
  <2>3. \A q \in Pages :
          \/ table'[q].hash = table[q].hash /\ table'[q].toks = table[q].toks
          \/ q \in ToSet(job[j].pages) /\ table[q].refs <= 1
    BY <1>5, <1>7, <1>8
  <2> QED BY <1>1, <1>3, <1>6, <2>1, <2>2, <2>3, OthersKept
<1>13. TableOk(table)'
  BY <1>8
<1> QED BY <1>9, <1>10, <1>11, <1>12, <1>13 DEF Memory

-----------------------------------------------------------------------------
(* Decoding: the window,                                                   *)

\* What every window starts from.
LEMMA DecodeStart ==
  ASSUME IInv, phase = "decode", todo # <<>>, NEW j, j = todo[1], PrefillDone(j), NEW d \in 0 .. Depth, WindowOk(j, d)
  PROVE  /\ j \in Jobs /\ j \in Running /\ Started(j) /\ JobShape(j) /\ PagesOf(j)
         /\ JobsOk /\ JobTypes /\ TableOk(table) /\ RefCounts /\ kv \in Tensors /\ Queues
         /\ job[j].ids \in Seq(Tokens) /\ job[j].kvp \in Nat /\ Len(job[j].ids) = job[j].kvp + 1
         /\ d \in Nat /\ d < PageSize
         /\ FirstPage(j) \in Nat /\ LastPage(j, d) \in Nat
         /\ FirstPage(j) <= LastPage(j, d) /\ LastPage(j, d) <= FirstPage(j) + 1
         /\ LastPage(j, d) < Len(job[j].pages) /\ Len(job[j].pages) \in Nat /\ Len(job[j].pages) = TotalPages(job[j].prompt)
         /\ HashedPages(j) \in Nat /\ HashedPages(j) <= FirstPage(j) /\ Done(j) = FirstPage(j)
         /\ FirstPage(j) * PageSize \in Nat
         /\ FirstPage(j) * PageSize <= job[j].kvp /\ job[j].kvp < FirstPage(j) * PageSize + PageSize
         /\ \A i \in FirstPage(j) .. LastPage(j, d) : table[PageAt(j, i)].refs = 1
         /\ \A i \in 0 .. Len(job[j].pages) - 1 : PageAt(j, i) \in Pages /\ PageAt(j, i) \in ToSet(job[j].pages)
         /\ \A i, x \in 0 .. Len(job[j].pages) - 1 : PageAt(j, i) = PageAt(j, x) => i = x
         /\ \A i \in FirstPage(j) .. Len(job[j].pages) - 1 : Len(table[PageAt(j, i)].hash) = 1
<1>1. Queues /\ JobsOk /\ JobTypes /\ TableOk(table) /\ RefCounts /\ kv \in Tensors
  BY DEF IInv, JobsOk, Memory, KvOk, Tensors
<1>2. j \in Jobs /\ j \in Running
  BY <1>1, TurnRuns DEF Turn
<1>3. Started(j) /\ JobShape(j) /\ PagesOf(j)
  BY <1>1, <1>2, RunningOk DEF IInv, Memory
<1>4. job[j].ids \in Seq(Tokens) /\ job[j].kvp \in Nat /\ Len(job[j].ids) = job[j].kvp + 1
  <2>1. job[j].ids \in Seq(Tokens) /\ job[j].kvp \in Nat /\ job[j].kvp = Len(job[j].ids) - 1
    BY <1>1, <1>2 DEF JobTypes, Job, PrefillDone
  <2> QED BY <2>1
<1>5. d \in Nat /\ d < PageSize /\ job[j].kvp + d \in Nat
  BY <1>4, GeneratorAssumption, PageTableAssumption
<1> DEFINE k == job[j].kvp
           f == FirstPage(j)
           l == LastPage(j, d)
           L == Len(job[j].pages)
<1>6. f = k \div PageSize /\ l = (k + d) \div PageSize
  BY DEF FirstPage, LastPage
<1> HIDE DEF k, f, l
<1>7. /\ f \in Nat /\ l \in Nat /\ f <= l /\ f * PageSize \in Nat /\ f * PageSize <= k /\ k < f * PageSize + PageSize
      /\ k \in Nat
  <2>1. k \in Nat /\ k + d \in Nat /\ k <= k + d
    BY <1>4, <1>5 DEF k
  <2>2. f \in Nat /\ l \in Nat /\ f <= l
    BY <1>6, <2>1, DivBounds, DivMono
  <2>3. f * PageSize <= k /\ f * PageSize \in Nat
    BY <1>6, <2>1, <2>2, DivBounds, MultMono
  <2>4. k < (f + 1) * PageSize /\ (f + 1) * PageSize = f * PageSize + PageSize
    <3>1. f < f + 1 /\ f + 1 \in Nat
      BY <2>2
    <3>2. k < (f + 1) * PageSize
      BY <1>6, <2>1, <3>1, DivBounds
    <3> QED BY <2>2, <3>2, MultMono
  <2> QED BY <2>1, <2>2, <2>3, <2>4
<1>8. l <= f + 1
  <2>1. k + d < (f + 1) * PageSize + PageSize /\ (f + 1) * PageSize \in Nat
    BY <1>5, <1>7, MultMono, PageTableAssumption
  <2>2. (f + 2) * PageSize = (f + 1) * PageSize + PageSize
    <3>1. f + 1 \in Nat /\ (f + 1) + 1 = f + 2
      BY <1>7
    <3> QED BY <3>1, MultMono
  <2>3. l < f + 2
    <3>1. f + 2 \in Nat /\ k + d < (f + 2) * PageSize
      BY <1>7, <2>1, <2>2
    <3>2. k + d \in Nat
      BY <1>5, <1>7
    <3> QED BY <1>6, <3>1, <3>2, DivBounds
  <2> QED BY <1>7, <2>3
<1>9. L \in Nat /\ L = TotalPages(job[j].prompt)
  BY <1>1, <1>2, <1>3, PageIn DEF PagesOf
<1>10. l < L /\ \A i \in f .. l : table[PageAt(j, i)].refs = 1
  <2>1. \A i \in f .. l : i < L /\ table[PageAt(j, i)].refs = 1
    BY DEF WindowOk, f, l
  <2>2. l \in f .. l
    BY <1>7
  <2> QED BY <2>1, <2>2
<1>11. HashedPages(j) \in Nat /\ HashedPages(j) <= f /\ Done(j) = f
  BY <1>1, <1>2, <1>3, DoneBounds DEF f
<1>12. \A i \in 0 .. L - 1 : PageAt(j, i) \in Pages /\ PageAt(j, i) \in ToSet(job[j].pages)
  <2> SUFFICES ASSUME NEW i \in 0 .. L - 1 PROVE PageAt(j, i) \in Pages /\ PageAt(j, i) \in ToSet(job[j].pages)
    OBVIOUS
  <2>1. i + 1 \in 1 .. L
    BY <1>9
  <2> QED BY <1>1, <1>2, <2>1, PageIn DEF PageAt
<1>13. \A i, x \in 0 .. L - 1 : PageAt(j, i) = PageAt(j, x) => i = x
  <2> SUFFICES ASSUME NEW i \in 0 .. L - 1, NEW x \in 0 .. L - 1, PageAt(j, i) = PageAt(j, x) PROVE i = x
    OBVIOUS
  <2>1. i + 1 \in 1 .. L /\ x + 1 \in 1 .. L
    BY <1>9
  <2>2. i + 1 = x + 1
    BY <1>1, <1>2, <2>1, DistinctPages DEF PageAt
  <2> QED BY <2>2
<1>14. \A i \in f .. L - 1 : Len(table[PageAt(j, i)].hash) = 1
  <2> SUFFICES ASSUME NEW i \in f .. L - 1 PROVE Len(table[PageAt(j, i)].hash) = 1
    OBVIOUS
  <2>1. i + 1 \in Done(j) + 1 .. L
    BY <1>7, <1>9, <1>11
  <2> QED BY <1>3, <2>1 DEF PagesOf, Own, PageAt
<1> QED BY <1>1, <1>2, <1>3, <1>4, <1>5, <1>7, <1>8, <1>9, <1>10, <1>11, <1>12, <1>13, <1>14 DEF k, f, l

\* A table that differs from t in what is written to the pages with index a to b.
Wrote(t, u, j, a, b) ==
  /\ u \in [Pages -> CachePage]
  /\ \A p \in Pages : u[p] = t[p] \/
       (Rewritten(t[p], u[p]) /\ u[p].prev = t[p].prev
        /\ \E i \in a .. b : i < Len(job[j].pages) /\ p = PageAt(j, i))

\* One write of a window stays in the window's pages.
LEMMA ExtendWrote ==
  ASSUME NEW t \in [Pages -> CachePage], NEW u, NEW j, NEW a, NEW b, Wrote(t, u, j, a, b),
         NEW i \in a .. b, i < Len(job[j].pages), PageAt(j, i) \in Pages,
         NEW s \in Seq(Tokens), Len(u[PageAt(j, i)].toks) + Len(s) <= PageSize
  PROVE  Wrote(t, Extend(u, PageAt(j, i), s), j, a, b)
<1> DEFINE p == PageAt(j, i)
           y == [u[p] EXCEPT !.toks = u[p].toks \o s, !.saved = {}]
<1>1. u \in [Pages -> CachePage] /\ u[p] \in CachePage
  BY DEF Wrote
<1>2. Extend(u, p, s) = [u EXCEPT ![p] = y]
  BY <1>1 DEF Extend
<1>3. u[p].toks \in Seq(Tokens)
  BY <1>1 DEF CachePage
<1> DEFINE r == u[p].toks \o s
<1>4. r \in Seq(Tokens) /\ Len(r) <= PageSize
  BY <1>3, Concat
<1>5. y = [u[p] EXCEPT !.toks = r, !.saved = {}]
  OBVIOUS
<1> HIDE DEF p, y, r
<1>6. /\ y \in CachePage /\ y.hash = u[p].hash /\ y.prev = u[p].prev /\ y.refs = u[p].refs /\ y.toks = r /\ y.saved = {}
  <2>1. {} \in SUBSET Save
    OBVIOUS
  <2> QED BY <1>1, <1>4, <1>5, <2>1 DEF CachePage
<1>7. u[p].hash = t[p].hash /\ u[p].prev = t[p].prev /\ u[p].refs = t[p].refs
  BY DEF Wrote, Rewritten, p
<1>8. Rewritten(t[p], y) /\ y.prev = t[p].prev
  BY <1>4, <1>6, <1>7 DEF Rewritten
<1>9. [u EXCEPT ![p] = y] \in [Pages -> CachePage]
  BY <1>1, <1>6
<1>10. \A q \in Pages : [u EXCEPT ![p] = y][q] = IF q = p THEN y ELSE u[q]
  BY <1>1
<1>11. Wrote(t, [u EXCEPT ![p] = y], j, a, b)
  BY <1>8, <1>9, <1>10 DEF Wrote, p
<1> QED BY <1>2, <1>11 DEF p

Windows == [t : [Pages -> CachePage], at : Nat, rest : Seq(Tokens)]

\* What a window feeds: the last token and the draft.
LEMMA RowOk ==
  ASSUME NEW j, job[j].ids \in Seq(Tokens), job[j].kvp \in Nat, Len(job[j].ids) = job[j].kvp + 1,
         NEW d \in Nat, NEW draft \in [1 .. d -> Tokens]
  PROVE  /\ draft \in Seq(Tokens) /\ Len(draft) = d
         /\ Row(j, draft) \in Seq(Tokens) /\ Len(Row(j, draft)) = job[j].kvp + 1 + d
         /\ LET row == SubSeq(Row(j, draft), job[j].kvp + 1, Len(Row(j, draft)))
            IN  /\ row \in Seq(Tokens) /\ Len(row) = d + 1
                /\ \A i \in 1 .. d + 1 : row[i] = Row(j, draft)[job[j].kvp + i]
         /\ \A i \in 1 .. Len(job[j].ids) : Row(j, draft)[i] = job[j].ids[i]
         /\ \A i \in 1 .. d : Row(j, draft)[job[j].kvp + 1 + i] = draft[i]
<1> DEFINE k == job[j].kvp
           r == Row(j, draft)
<1>1. draft \in Seq(Tokens) /\ Len(draft) = d
  BY SeqOfFunction
<1> DEFINE ids == job[j].ids
<1>0. r = ids \o draft /\ ids \in Seq(Tokens) /\ Len(ids) = k + 1 /\ k \in Nat
  BY DEF Row
<1> HIDE DEF r, k, ids
<1>2. /\ r \in Seq(Tokens) /\ Len(r) = k + 1 + d
      /\ \A i \in 1 .. Len(ids) : r[i] = ids[i]
      /\ \A i \in 1 .. d : r[k + 1 + i] = draft[i]
  <2>1. /\ r \in Seq(Tokens) /\ Len(r) = Len(ids) + Len(draft)
        /\ \A i \in 1 .. Len(ids) : r[i] = ids[i]
        /\ \A i \in 1 .. Len(draft) : r[Len(ids) + i] = draft[i]
    <3> DEFINE c == draft
    <3>1. ids \in Seq(Tokens) /\ c \in Seq(Tokens)
      BY <1>0, <1>1
    <3> HIDE DEF c
    <3>2. ids \o c \in Seq(Tokens) /\ Len(ids \o c) = Len(ids) + Len(c)
      BY <3>1, Concat
    <3>3. \A i \in 1 .. Len(ids) : (ids \o c)[i] = ids[i]
      BY <3>1, Concat
    <3>4. \A i \in 1 .. Len(c) : (ids \o c)[Len(ids) + i] = c[i]
      BY <3>1, Concat
    <3> QED BY <1>0, <3>2, <3>3, <3>4 DEF c
  <2> QED BY <1>0, <1>1, <2>1
<1>3. k \in Nat /\ k <= k + 1 + d /\ k + 1 + d \in Nat /\ (k + 1 + d) - k = d + 1
  BY <1>0
<1>4. /\ SubSeq(r, k + 1, k + 1 + d) \in Seq(Tokens) /\ Len(SubSeq(r, k + 1, k + 1 + d)) = (k + 1 + d) - k
      /\ \A i \in 1 .. (k + 1 + d) - k : SubSeq(r, k + 1, k + 1 + d)[i] = r[k + i]
  BY <1>2, <1>3, SubSeqOk
<1> QED BY <1>1, <1>2, <1>3, <1>4 DEF r, k, ids

\* The page a window goes on with.
LEMMA WindowPage ==
  ASSUME NEW j, job[j].kvp \in Nat, NEW d \in Nat, NEW x \in Nat, job[j].kvp <= x, x <= job[j].kvp + d
  PROVE  x \div PageSize \in FirstPage(j) .. LastPage(j, d) /\ x \div PageSize \in Nat
<1>1. job[j].kvp + d \in Nat
  OBVIOUS
<1>2. job[j].kvp \div PageSize <= x \div PageSize /\ x \div PageSize <= (job[j].kvp + d) \div PageSize
  BY <1>1, DivMono
<1>3. x \div PageSize \in Nat /\ job[j].kvp \div PageSize \in Nat /\ (job[j].kvp + d) \div PageSize \in Nat
  BY <1>1, DivBounds
<1> QED BY <1>2, <1>3 DEF FirstPage, LastPage

\* A window writes to its own pages only.
LEMMA WrittenOk ==
  ASSUME NEW j, TableOk(table), job[j].ids \in Seq(Tokens), job[j].kvp \in Nat, Len(job[j].ids) = job[j].kvp + 1,
         NEW d \in Nat, NEW draft \in [1 .. d -> Tokens],
         \A i \in FirstPage(j) .. LastPage(j, d) : i < Len(job[j].pages) /\ PageAt(j, i) \in Pages
  PROVE  Wrote(table, Written(j, draft), j, FirstPage(j), LastPage(j, d))
<1> DEFINE k == job[j].kvp
           f == FirstPage(j)
           l == LastPage(j, d)
           row == SubSeq(Row(j, draft), k + 1, Len(Row(j, draft)))
           Inv(w) == /\ Wrote(table, w.t, j, f, l)
                     /\ w.at + Len(w.rest) = k + d + 1 /\ k <= w.at
           I == [n \in Nat |-> {w \in Windows : Inv(w)}]
<1>1. row \in Seq(Tokens) /\ Len(row) = d + 1 /\ Len(row) \in Nat
  <2>1. row \in Seq(Tokens) /\ Len(row) = d + 1
    BY RowOk
  <2> HIDE DEF row
  <2> QED BY <2>1
<1>2. Written(j, draft) = Fed(j, row)
  BY DEF Written
<1> HIDE DEF row
<1>3. table \in [Pages -> CachePage]
  BY DEF TableOk
<1>4. [t |-> table, at |-> job[j].kvp, rest |-> row] \in I[0]
  <2> DEFINE w == [t |-> table, at |-> job[j].kvp, rest |-> row]
  <2>1. w \in Windows /\ w.t = table /\ w.at = k /\ w.rest = row
    BY <1>1, <1>3 DEF Windows
  <2>2. Wrote(table, table, j, f, l)
    BY <1>3 DEF Wrote
  <2>3. k \in Nat
    OBVIOUS
  <2> HIDE DEF w, k
  <2>4. k + Len(row) = k + d + 1 /\ k <= k
    BY <1>1, <2>3
  <2>5. Inv(w)
    BY <2>1, <2>2, <2>4
  <2> HIDE DEF Inv
  <2>6. I[0] = {x \in Windows : Inv(x)}
    OBVIOUS
  <2> HIDE DEF I
  <2>7. w \in I[0]
    BY <2>1, <2>5, <2>6
  <2> QED BY <2>7 DEF w
<1>5. ASSUME NEW n \in Nat, NEW w \in I[n] PROVE Put(j, w) \in I[n + 1]
  <2>1. w \in Windows /\ Inv(w)
    BY <1>5
  <2>2. w.t \in [Pages -> CachePage] /\ w.at \in Nat /\ w.rest \in Seq(Tokens) /\ Len(w.rest) \in Nat
    BY <2>1 DEF Windows
  <2>3. Wrote(table, w.t, j, f, l) /\ w.at + Len(w.rest) = k + d + 1 /\ k <= w.at
    BY <2>1
  <2>4. CASE w.rest = <<>>
    BY <2>1, <2>4 DEF Put
  <2>5. CASE w.rest # <<>>
    <3> DEFINE p == PageAt(j, w.at \div PageSize)
               m == Smaller(Len(w.rest), PageSize - Len(w.t[p].toks))
               s == SubSeq(w.rest, 1, m)
               rest == SubSeq(w.rest, m + 1, Len(w.rest))
               v == [t |-> Extend(w.t, p, s), at |-> w.at + m, rest |-> rest]
    <3>1. Put(j, w) = v
      BY <2>5 DEF Put
    <3>2. Len(w.rest) >= 1 /\ w.at <= k + d
      BY <2>2, <2>3, <2>5
    <3>3. w.at \div PageSize \in f .. l
      BY <2>2, <2>3, <3>2, WindowPage
    <3>4. p \in Pages /\ w.at \div PageSize < Len(job[j].pages)
      BY <3>3
    <3>5. w.t[p] \in CachePage /\ Len(w.t[p].toks) \in Nat /\ Len(w.t[p].toks) <= PageSize
      <4>1. w.t[p] \in CachePage
        BY <2>2, <3>4
      <4>2. Len(w.t[p].toks) <= PageSize
        BY <2>3, <3>4 DEF Wrote, Rewritten, TableOk, PageOk
      <4> QED BY <4>1, <4>2 DEF CachePage
    <3>6. m \in Nat /\ m <= Len(w.rest) /\ Len(w.t[p].toks) + m <= PageSize
      <4> DEFINE x == Len(w.rest)
                 y == Len(w.t[p].toks)
      <4>1. x \in Nat /\ y \in Nat /\ y <= PageSize /\ PageSize \in Nat
        BY <2>2, <3>5, PageTableAssumption
      <4>2. m = Smaller(x, PageSize - y)
        OBVIOUS
      <4> HIDE DEF x, y, m
      <4>3. m \in Nat /\ m <= x /\ y + m <= PageSize
        BY <4>1, <4>2 DEF Smaller
      <4> QED BY <4>3 DEF x, y
    <3> HIDE DEF m
    <3>7. s \in Seq(Tokens) /\ Len(s) = m
      <4>1. SubSeq(w.rest, 0 + 1, m) \in Seq(Tokens) /\ Len(SubSeq(w.rest, 0 + 1, m)) = m - 0
        BY <2>2, <3>6, SubSeqOk
      <4> QED BY <3>6, <4>1
    <3>8. rest \in Seq(Tokens) /\ Len(rest) = Len(w.rest) - m
      BY <2>2, <3>6, SubSeqOk
    <3> HIDE DEF s, rest
    <3>9. Wrote(table, Extend(w.t, p, s), j, f, l)
      BY <1>3, <2>3, <3>3, <3>4, <3>6, <3>7, ExtendWrote
    <3>10. v.t = Extend(w.t, p, s) /\ v.at = w.at + m /\ v.rest = rest
      OBVIOUS
    <3>11. Extend(w.t, p, s) \in [Pages -> CachePage] /\ w.at + m \in Nat
      BY <2>2, <3>6, <3>9 DEF Wrote
    <3>12. v \in Windows
      BY <3>8, <3>11 DEF Windows
    <3>13. (w.at + m) + Len(rest) = k + d + 1 /\ k <= w.at + m
      <4> DEFINE x == Len(w.rest)
                 a == w.at
                 z == Len(rest)
      <4>1. x \in Nat /\ a \in Nat /\ m \in Nat /\ m <= x /\ z = x - m /\ a + x = k + d + 1 /\ k <= a /\ k \in Nat
        BY <2>2, <2>3, <3>6, <3>8
      <4> HIDE DEF x, a, z, k
      <4>2. (a + m) + z = k + d + 1 /\ k <= a + m
        BY <4>1
      <4> QED BY <4>2 DEF a, z
    <3> HIDE DEF v, p
    <3>14. Inv(v)
      <4> HIDE DEF k, f, l
      <4> QED BY <3>9, <3>10, <3>13
    <3>15. n + 1 \in Nat
      OBVIOUS
    <3> HIDE DEF Inv
    <3> QED BY <3>1, <3>12, <3>14, <3>15
  <2> QED BY <2>4, <2>5
<1> HIDE DEF I
<1>6. \E x \in I[Len(row)] : Fed(j, row) = x.t
  BY <1>1, <1>4, <1>5, FedLoop
<1>7. PICK x \in I[Len(row)] : Fed(j, row) = x.t
  BY <1>6
<1>8. Inv(x)
  BY <1>1, <1>7 DEF I
<1> QED BY <1>2, <1>7, <1>8

-----------------------------------------------------------------------------
(* the page it completes,                                                  *)

\* The page a window ends on, and the hash of the page it completes.
LEMMA NewPage ==
  ASSUME NEW j, job[j].kvp \in Nat, NEW d \in Nat, d < PageSize, NEW n \in 1 .. d + 1
  PROVE  LET g == NewPos(j, n) \div PageSize
         IN  /\ NewPos(j, n) \in Nat /\ g \in Nat /\ g \in {FirstPage(j), FirstPage(j) + 1}
             /\ g # FirstPage(j) => g = FirstPage(j) + 1 /\ (FirstPage(j) + 1) * PageSize <= NewPos(j, n)
<1> DEFINE k == job[j].kvp
           f == FirstPage(j)
           x == NewPos(j, n)
           g == x \div PageSize
<1>1. k \in Nat /\ x = k + n /\ x \in Nat /\ k <= x /\ x <= k + PageSize
  <2>1. PageSize \in Nat
    BY PageTableAssumption
  <2> QED BY <2>1 DEF NewPos
<1>2. f = k \div PageSize
  BY DEF FirstPage
<1> HIDE DEF k, f, x
<1>3. f \in Nat /\ g \in Nat /\ f <= g
  BY <1>1, <1>2, DivBounds, DivMono
<1>4. f + 1 \in Nat /\ (f + 1) + 1 \in Nat /\ (f + 1) + 1 = f + 2
  BY <1>3
<1>5. k < (f + 1) * PageSize
  <2>1. f < f + 1
    BY <1>3
  <2> QED BY <1>1, <1>2, <1>4, <2>1, DivBounds
<1>6. (f + 2) * PageSize = (f + 1) * PageSize + PageSize /\ (f + 1) * PageSize \in Nat
  BY <1>4, MultMono
<1>7. x < (f + 2) * PageSize
  <2> DEFINE a == (f + 1) * PageSize
             b == (f + 2) * PageSize
  <2>1. a \in Nat /\ b = a + PageSize /\ k < a /\ PageSize \in Nat
    BY <1>5, <1>6, PageTableAssumption
  <2> HIDE DEF a, b
  <2>2. x < b
    BY <1>1, <2>1
  <2> QED BY <2>2 DEF b
<1>8. g < f + 2
  <2>1. f + 2 \in Nat
    BY <1>3
  <2> QED BY <1>1, <1>7, <2>1, DivBounds
<1>9. g # f => g = f + 1
  <2> HIDE DEF g
  <2> QED BY <1>3, <1>8
<1>10. g = f + 1 => (f + 1) * PageSize <= x
  BY <1>1, <1>4, DivBounds
<1> QED BY <1>1, <1>3, <1>9, <1>10 DEF f, x

\* A token sequence is a hash.
LEMMA TokenSeq ==
  ASSUME NEW s \in Seq(Tokens)
  PROVE  s \in Seq(Int)
<1>1. Tokens \subseteq Int
  BY PageTableAssumption
<1>2. Len(s) \in Nat /\ s \in [1 .. Len(s) -> Tokens]
  BY LenProperties
<1> DEFINE d == Len(s)
<1> HIDE DEF d
<1>3. d \in Nat /\ s \in [1 .. d -> Int]
  BY <1>1, <1>2 DEF d
<1> QED BY <1>3, SeqOfFunction

\* The hash of a completed page is longer than those of the pages before it, or
\* as random as the first random one of them.
LEMMA NewHashOk ==
  ASSUME IInv, phase = "decode", todo # <<>>, NEW j, j = todo[1], PrefillDone(j), NEW d \in 0 .. Depth, WindowOk(j, d),
         NEW draft, NEW n, NEW token, NEW eos, Choice(j, d, draft, n, token, eos),
         NewPos(j, n) \div PageSize # FirstPage(j)
  PROVE  LET h == NewHash(j, draft, n, token)
         IN  /\ h \in Seq(Int) /\ Len(h) >= PageSize
             /\ \A x \in 1 .. FirstPage(j) : Grows(Own(j, x).hash, h)
<1> DEFINE f == FirstPage(j)
           before == HashBefore(j, f)
           seen == Seen(j, draft, n, token)
           own == SubSeq(seen, f * PageSize + 1, (f + 1) * PageSize)
           h == NewHash(j, draft, n, token)
<1>1. /\ j \in Jobs /\ JobTypes /\ TableOk(table) /\ PagesOf(j) /\ job[j].kvp \in Nat /\ Len(job[j].ids) = job[j].kvp + 1
      /\ d \in Nat /\ d < PageSize /\ f \in Nat /\ Done(j) = f /\ f * PageSize \in Nat
      /\ LastPage(j, d) < Len(job[j].pages) /\ f <= LastPage(j, d) /\ Len(job[j].pages) \in Nat /\ LastPage(j, d) \in Nat
  BY DecodeStart
<1>2. draft \in [1 .. d -> Tokens] /\ n \in 1 .. d + 1 /\ token \in Tokens
  BY DEF Choice
<1>3. NewPos(j, n) \in Nat /\ (f + 1) * PageSize <= NewPos(j, n)
  BY <1>1, <1>2, NewPage
<1>4. seen \in Seq(Tokens) /\ Len(seen) = job[j].kvp + 1 + n
  <2>1. seen \in Seq(Tokens) /\ Len(seen) = Len(job[j].ids) + n
    <3> HIDE DEF f, before, own, h, seen
    <3>1. JobTypes /\ j \in Jobs /\ d \in Nat
      BY <1>1
    <3>2. Seen(j, draft, n, token) \in Seq(Tokens) /\ Len(Seen(j, draft, n, token)) = Len(job[j].ids) + n
      BY <1>2, <3>1, SeenType
    <3> QED BY <3>2 DEF seen
  <2> HIDE DEF seen
  <2>2. n \in Nat
    BY <1>1, <1>2
  <2> QED BY <1>1, <2>1, <2>2
<1>5. own \in Seq(Tokens) /\ Len(own) = PageSize
  <2> DEFINE a == f * PageSize
             b == (f + 1) * PageSize
  <2>1. a \in Nat /\ b = a + PageSize /\ b <= NewPos(j, n) /\ PageSize \in Nat
    BY <1>1, <1>3, MultMono, PageTableAssumption
  <2>2. NewPos(j, n) <= Len(seen)
    BY <1>1, <1>2, <1>4 DEF NewPos
  <2> HIDE DEF a, b, seen
  <2>3. a \in Nat /\ b \in Nat /\ a <= b /\ b <= Len(seen) /\ b - a = PageSize
    BY <1>3, <1>4, <2>1, <2>2
  <2>4. SubSeq(seen, a + 1, b) \in Seq(Tokens) /\ Len(SubSeq(seen, a + 1, b)) = b - a
    BY <1>4, <2>3, SubSeqOk
  <2> QED BY <2>3, <2>4 DEF a, b
<1>6. h = before \o own
  BY DEF NewHash
<1>7. before \in Seq(Int)
  <2>1. f <= Len(job[j].pages)
    BY <1>1
  <2> QED BY <1>1, <2>1, HashBeforeType
<1>8. own \in Seq(Int)
  BY <1>5, TokenSeq
<1> HIDE DEF before, own, h, f
<1>9. h \in Seq(Int) /\ Len(h) = Len(before) + PageSize /\ \A i \in 1 .. Len(before) : h[i] = before[i]
  BY <1>5, <1>6, <1>7, <1>8, Concat
<1>10. Len(h) >= PageSize /\ Len(before) < Len(h) /\ Len(before) \in Nat /\ Len(h) \in Nat
  BY <1>7, <1>9, PageTableAssumption
<1>11. ASSUME NEW x \in 1 .. f PROVE Grows(Own(j, x).hash, h)
  <2>1. before = Own(j, f).hash
    BY <1>1, <1>11 DEF before, HashBefore, Own, PageAt
  <2> DEFINE a == Own(j, x).hash
  <2>2. x = f \/ Grows(a, before)
    <3>1. CASE x = f
      BY <3>1
    <3>2. CASE x # f
      <4>1. f \in 1 .. Done(j) /\ x \in 1 .. f - 1
        BY <1>1, <1>11, <3>2
      <4> QED BY <1>1, <2>1, <4>1 DEF PagesOf
    <3> QED BY <3>1, <3>2
  <2>3. Len(a) \in Nat
    <3>1. job[j].pages[x] \in Pages
      <4>1. x \in 1 .. Len(job[j].pages)
        BY <1>1, <1>11
      <4> QED BY <1>1, <4>1, PageIn
    <3>2. a \in Seq(Int)
      BY <1>1, <3>1 DEF TableOk, CachePage, Own
    <3> QED BY <3>2
  <2> HIDE DEF a
  <2>4. CASE x = f
    BY <1>10, <2>1, <2>4 DEF Grows, a
  <2>5. CASE Len(a) < Len(before)
    BY <1>10, <2>3, <2>5 DEF Grows, a
  <2>6. CASE Rooted(a) /\ ~Rooted(before)
    <3>1. before # Root /\ ~(before[1] >= 0)
      BY <2>6 DEF Rooted
    <3>2. 1 \in 1 .. Len(before)
      BY <1>7, <3>1 DEF Root
    <3>3. h[1] = before[1] /\ h # Root
      <4>1. Len(h) # 0
        BY <1>10
      <4> QED BY <1>9, <3>2, <4>1 DEF Root
    <3>4. ~Rooted(h)
      BY <3>1, <3>3 DEF Rooted
    <3> QED BY <2>6, <3>4 DEF Grows, a
  <2> QED BY <2>2, <2>4, <2>5, <2>6 DEF Grows
<1> QED BY <1>9, <1>10, <1>11 DEF h, f

\* Linking keeps the table sound, and all hashes, counts and tokens.
LEMMA LinkOk ==
  ASSUME NEW t, TableOk(t), NEW p \in Pages, NEW h \in Seq(Int)
  PROVE  /\ TableOk(Link(t, p, h))
         /\ \A q \in Pages : q # p => Link(t, p, h)[q] = t[q]
         /\ \A q \in Pages : Link(t, p, h)[q].hash = t[q].hash /\ Link(t, p, h)[q].refs = t[q].refs
                             /\ Link(t, p, h)[q].toks = t[q].toks
<1> DEFINE y == [t[p] EXCEPT !.prev = h, !.saved = {}]
<1>1. t \in [Pages -> CachePage] /\ t[p] \in CachePage /\ Len(t[p].toks) <= PageSize
  BY DEF TableOk, PageOk
<1>2. Link(t, p, h) = [t EXCEPT ![p] = y]
  BY <1>1 DEF Link
<1>3. y \in CachePage /\ y.hash = t[p].hash /\ y.refs = t[p].refs /\ y.toks = t[p].toks /\ y.saved = {}
  <2>1. {} \in SUBSET Save
    OBVIOUS
  <2> QED BY <1>1, <2>1 DEF CachePage
<1> HIDE DEF y
<1>4. Len(y.toks) <= PageSize
  BY <1>1, <1>3
<1>5. TableOk([t EXCEPT ![p] = y])
  BY <1>3, <1>4, WriteOk
<1>6. \A q \in Pages : [t EXCEPT ![p] = y][q] = IF q = p THEN y ELSE t[q]
  BY <1>1
<1> QED BY <1>2, <1>3, <1>5, <1>6

\* A content hash is not a random one.
LEMMA LongHash ==
  ASSUME NEW h \in Seq(Int), Len(h) >= PageSize
  PROVE  Len(h) # 1 /\ HashShape(h)
<1>1. Len(h) \in Nat /\ PageSize \in Nat /\ PageSize # 0 /\ PageSize # 1
  BY PageTableAssumption
<1> DEFINE n == Len(h)
<1>2. n \in Nat /\ n >= PageSize
  BY <1>1
<1> HIDE DEF n
<1>3. n # 1
  BY <1>1, <1>2
<1> QED BY <1>3 DEF n, HashShape

\* A completed page takes its hash when no referenced page has it.
LEMMA HashedOk ==
  ASSUME NEW t, TableOk(t), NEW own \in Pages, t[own].refs = 1, NEW h \in Seq(Int), Len(h) >= PageSize,
         Under(h, t, Referenced(t)) = {}
  PROVE  LET stale == Under(h, t, Unreferenced(t))
             cleared == IF stale = {} THEN t ELSE Clear(t, CHOOSE q \in stale : TRUE)
             u == UpdateHash(cleared, own, h)
         IN  /\ TableOk(u) /\ u[own].hash = h /\ u[own].toks = t[own].toks
             /\ \A p \in Pages : u[p].refs = t[p].refs
             /\ \A p \in Pages : p # own => t[p].refs = 0 \/ u[p] = t[p]
<1> DEFINE stale == Under(h, t, Unreferenced(t))
           old == CHOOSE q \in stale : TRUE
           c == IF stale = {} THEN t ELSE Clear(t, old)
           u == UpdateHash(c, own, h)
           y == [c[own] EXCEPT !.hash = h, !.saved = {}]
<1>1. \A q \in Pages : t[q] \in CachePage /\ t[q].refs \in Nat
  BY DEF TableOk, CachePage
<1>2. TableOk(c) /\ c[own] = t[own] /\ (\A p \in Pages : c[p].refs = t[p].refs)
      /\ (\A p \in Pages : t[p].refs = 0 \/ c[p] = t[p]) /\ \A p \in Pages : c[p].hash # h
  <2>1. \A p \in Pages : t[p].hash = h => t[p].refs = 0
    <3>1. \A p \in Pages : t[p].hash = h => ~(t[p].refs > 0)
      BY DEF Under, Referenced
    <3> QED BY <1>1, <3>1
  <2>2. CASE stale = {}
    <3>1. \A p \in Pages : t[p].hash # h
      <4>1. \A p \in Pages : p \in Unreferenced(t) \/ t[p].refs > 0
        BY DEF Unreferenced, Referenced
      <4> QED BY <2>1, <2>2, <4>1 DEF Under
    <3> QED BY <2>2, <3>1
  <2>3. CASE stale # {}
    <3>1. old \in Pages /\ t[old].hash = h
      BY <2>3 DEF Under, Unreferenced
    <3>2. t[old].refs = 0
      BY <2>1, <3>1
    <3>3. c = Clear(t, old)
      BY <2>3
    <3> HIDE DEF old, c
    <3>4. /\ TableOk(c) /\ \A q \in Pages : q # old => c[q] = t[q]
      BY <3>1, <3>3, ClearOk
    <3>5. Len(c[old].hash) = 1 /\ c[old].refs = 0
      BY <3>1, <3>3, ClearOk
    <3>6. c[old].hash # h
      BY <3>5, LongHash
    <3>7. \A p \in Pages : p # old => c[p].hash # h
      BY <3>1, <3>4 DEF TableOk, Distinct
    <3>8. own # old
      BY <3>2
    <3> QED BY <3>2, <3>4, <3>5, <3>6, <3>7, <3>8
  <2> QED BY <2>2, <2>3
<1> HIDE DEF c
<1>3. c \in [Pages -> CachePage] /\ c[own] \in CachePage /\ PageOk(c[own])
  BY <1>2 DEF TableOk
<1>4. u = [c EXCEPT ![own] = y]
  BY <1>3 DEF UpdateHash
<1>5. y \in CachePage /\ y.hash = h /\ y.refs = c[own].refs /\ y.toks = c[own].toks /\ y.saved = {}
  <2>1. {} \in SUBSET Save
    OBVIOUS
  <2> QED BY <1>3, <2>1 DEF CachePage
<1> HIDE DEF y
<1>6. PageOk(y)
  <2>1. Len(y.toks) <= PageSize
    BY <1>3, <1>5 DEF PageOk
  <2>2. Len(y.hash) # 1 /\ HashShape(y.hash)
    BY <1>5, LongHash
  <2> QED BY <1>5, <2>1, <2>2 DEF PageOk
<1>7. TableOk([c EXCEPT ![own] = y])
  <2>1. \A q \in Pages \ {own} : c[q].hash # y.hash
    BY <1>2, <1>5
  <2> QED BY <1>2, <1>6, <2>1, Replace
<1>8. \A q \in Pages : [c EXCEPT ![own] = y][q] = IF q = own THEN y ELSE c[q]
  BY <1>3
<1> HIDE DEF u
<1>9. TableOk(u) /\ u[own].hash = h /\ u[own].toks = t[own].toks
      /\ (\A p \in Pages : u[p].refs = t[p].refs)
      /\ \A p \in Pages : p # own => t[p].refs = 0 \/ u[p] = t[p]
  BY <1>2, <1>4, <1>5, <1>7, <1>8
<1> QED BY <1>9 DEF u, c

\* A completed page is given up for the referenced page that has its hash.
LEMMA SwitchedOk ==
  ASSUME NEW t, TableOk(t), NEW own \in Pages, t[own].refs = 1, Len(t[own].hash) = 1, NEW h \in Seq(Int), Len(h) >= PageSize,
         NEW twin \in Pages, t[twin].hash = h
  PROVE  LET u == Switch(t, own, twin)
         IN  /\ TableOk(u) /\ twin # own
             /\ \A p \in Pages : p # own => u[p].hash = t[p].hash /\ u[p].toks = t[p].toks
             /\ \A p \in Pages : p # own /\ p # twin => u[p].refs = t[p].refs
             /\ u[twin].refs = t[twin].refs + 1 /\ u[own].refs = t[own].refs - 1
<1> DEFINE s == SubRef(t, own)
           u == AddRef(s, twin)
<1>1. twin # own /\ Len(t[twin].hash) # 1
  BY LongHash
<1>2. TableOk(s) /\ \A q \in Pages : q # own => s[q] = t[q]
  BY SubRefOk
<1>3. s[own].refs = t[own].refs - 1
  BY SubRefOk
<1>4. Len(s[twin].hash) # 1
  BY <1>1, <1>2
<1> HIDE DEF s
<1>5. TableOk(u) /\ (\A q \in Pages : q # twin => u[q] = s[q]) /\ u[twin].hash = s[twin].hash
      /\ u[twin].toks = s[twin].toks /\ u[twin].refs = s[twin].refs + 1
  BY <1>2, <1>4, AddRefOk
<1> HIDE DEF u
<1>6. TableOk(u) /\ (\A p \in Pages : p # own => u[p].hash = t[p].hash /\ u[p].toks = t[p].toks)
  BY <1>2, <1>5
<1>7. (\A p \in Pages : p # own /\ p # twin => u[p].refs = t[p].refs) /\ u[twin].refs = t[twin].refs + 1
  BY <1>1, <1>2, <1>5
<1>8. u[own].refs = t[own].refs - 1
  BY <1>1, <1>3, <1>5
<1> QED BY <1>1, <1>6, <1>7, <1>8 DEF u, s, Switch

\* What a window, the completion of its first page included, may do to the table.
SameCounts(T, pages, j) == pages = job[j].pages /\ \A p \in Pages : T[p].refs = table[p].refs
SwitchedTo(T, pages, j, twin) ==
  /\ twin \in Pages \ ToSet(job[j].pages) /\ pages = [job[j].pages EXCEPT ![FirstPage(j) + 1] = twin]
  /\ T[twin].refs = table[twin].refs + 1
  /\ T[PageAt(j, FirstPage(j))].refs = table[PageAt(j, FirstPage(j))].refs - 1
  /\ \A p \in Pages : p # twin /\ p # PageAt(j, FirstPage(j)) => T[p].refs = table[p].refs
Harmless(T, j, p) ==
  \/ T[p].hash = table[p].hash /\ T[p].toks = table[p].toks
  \/ table[p].refs = 0
  \/ p \in ToSet(job[j].pages) /\ (T[p].hash = table[p].hash \/ table[p].refs <= 1)
Turned(T, pages, j, g, h) ==
  /\ TableOk(T)
  /\ \A i \in 1 .. Len(job[j].pages) : i # FirstPage(j) + 1 \/ g = FirstPage(j) =>
       pages[i] = job[j].pages[i] /\ T[pages[i]].hash = table[pages[i]].hash
  /\ g # FirstPage(j) => T[pages[FirstPage(j) + 1]].hash = h
  /\ \A p \in Pages : Harmless(T, j, p)
  /\ SameCounts(T, pages, j) \/ \E twin \in Pages : SwitchedTo(T, pages, j, twin)

\* The table after a window was written, before anything is completed.
LEMMA WrittenTable ==
  ASSUME IInv, phase = "decode", todo # <<>>, NEW j, j = todo[1], PrefillDone(j), NEW d \in 0 .. Depth, WindowOk(j, d),
         NEW draft \in [1 .. d -> Tokens]
  PROVE  LET t == Written(j, draft)
         IN  /\ Wrote(table, t, j, FirstPage(j), LastPage(j, d)) /\ TableOk(t)
             /\ \A p \in Pages : t[p].hash = table[p].hash /\ t[p].refs = table[p].refs /\ t[p].prev = table[p].prev
             /\ \A p \in Pages : t[p] = table[p] \/ p \in ToSet(job[j].pages)
<1> DEFINE t == Written(j, draft)
           f == FirstPage(j)
           l == LastPage(j, d)
<1>1. /\ TableOk(table) /\ job[j].ids \in Seq(Tokens) /\ job[j].kvp \in Nat /\ Len(job[j].ids) = job[j].kvp + 1 /\ d \in Nat
      /\ f \in Nat /\ l \in Nat /\ l < Len(job[j].pages) /\ Len(job[j].pages) \in Nat
      /\ \A i \in 0 .. Len(job[j].pages) - 1 : PageAt(j, i) \in Pages /\ PageAt(j, i) \in ToSet(job[j].pages)
  BY DecodeStart
<1>2. \A i \in f .. l : i \in 0 .. Len(job[j].pages) - 1 /\ i < Len(job[j].pages)
  <2> HIDE DEF f, l
  <2> QED BY <1>1
<1>3. \A i \in f .. l : i < Len(job[j].pages) /\ PageAt(j, i) \in Pages /\ PageAt(j, i) \in ToSet(job[j].pages)
  BY <1>1, <1>2
<1>4. Wrote(table, t, j, f, l)
  BY <1>1, <1>3, WrittenOk
<1> HIDE DEF t, f, l
<1>5. t \in [Pages -> CachePage] /\ \A p \in Pages : t[p] = table[p] \/ Rewritten(table[p], t[p])
  BY <1>4 DEF Wrote
<1>6. TableOk(t) /\ \A p \in Pages : t[p].hash = table[p].hash /\ t[p].refs = table[p].refs
  BY <1>1, <1>5, RewriteOk
<1>7. \A p \in Pages : t[p].prev = table[p].prev
  BY <1>4 DEF Wrote
<1>8. \A p \in Pages : t[p] = table[p] \/ p \in ToSet(job[j].pages)
  BY <1>3, <1>4 DEF Wrote
<1> QED BY <1>4, <1>6, <1>7, <1>8 DEF t, f, l

\* The page after a completed one is linked to it.
LEMMA LinkedOk ==
  ASSUME NEW t, TableOk(t), JobTypes, NEW j \in Jobs, NEW i \in Nat, NEW h \in Seq(Int)
  PROVE  LET v == IF i + 1 < Len(job[j].pages) THEN Link(t, PageAt(j, i + 1), h) ELSE t
         IN  TableOk(v) /\ \A q \in Pages : v[q].hash = t[q].hash /\ v[q].refs = t[q].refs /\ v[q].toks = t[q].toks
<1>1. CASE i + 1 < Len(job[j].pages)
  <2>1. i + 2 \in 1 .. Len(job[j].pages) /\ (i + 1) + 1 = i + 2
    <3>1. Len(job[j].pages) \in Nat
      BY PageIn
    <3> QED BY <1>1, <3>1
  <2>2. PageAt(j, i + 1) \in Pages
    BY <2>1, PageIn DEF PageAt
  <2>3. TableOk(Link(t, PageAt(j, i + 1), h)) /\ \A q \in Pages :
          LET v == Link(t, PageAt(j, i + 1), h) IN v[q].hash = t[q].hash /\ v[q].refs = t[q].refs /\ v[q].toks = t[q].toks
    BY <2>2, LinkOk
  <2> QED BY <1>1, <2>3
<1>2. CASE ~(i + 1 < Len(job[j].pages))
  BY <1>2
<1> QED BY <1>1, <1>2

\* receive_sample, page by page: hashes of other pages stay, reference counts
\* move from a page to its twin.
LEMMA CompletedOk ==
  ASSUME IInv, phase = "decode", todo # <<>>, NEW j, j = todo[1], PrefillDone(j), NEW d \in 0 .. Depth, WindowOk(j, d),
         NEW draft, NEW n, NEW token, NEW eos, Choice(j, d, draft, n, token, eos)
  PROVE  LET c == Completed(j, draft, n, token)
         IN  Turned(c.table, c.pages, j, NewPos(j, n) \div PageSize, NewHash(j, draft, n, token))
<1> DEFINE f == FirstPage(j)
           g == NewPos(j, n) \div PageSize
           t == Written(j, draft)
           h == NewHash(j, draft, n, token)
           own == PageAt(j, f)
           c == Completed(j, draft, n, token)
           L == Len(job[j].pages)
<1>1. draft \in [1 .. d -> Tokens] /\ n \in 1 .. d + 1 /\ token \in Tokens
  BY DEF Choice
<1>2. /\ j \in Jobs /\ JobTypes /\ TableOk(table) /\ RefCounts /\ PagesOf(j) /\ f \in Nat /\ f < L /\ L \in Nat
      /\ table[own].refs = 1 /\ Len(table[own].hash) = 1 /\ own \in Pages /\ own \in ToSet(job[j].pages)
      /\ \A i \in 0 .. L - 1 : PageAt(j, i) \in Pages /\ PageAt(j, i) \in ToSet(job[j].pages)
      /\ \A i, x \in 0 .. L - 1 : PageAt(j, i) = PageAt(j, x) => i = x
      /\ \A i \in f .. L - 1 : Len(table[PageAt(j, i)].hash) = 1
      /\ Done(j) = f
  <2>1. /\ j \in Jobs /\ JobTypes /\ TableOk(table) /\ RefCounts /\ PagesOf(j) /\ f \in Nat /\ L \in Nat
        /\ f <= LastPage(j, d) /\ LastPage(j, d) < L /\ LastPage(j, d) \in Nat /\ Done(j) = f
        /\ \A i \in f .. LastPage(j, d) : table[PageAt(j, i)].refs = 1
        /\ \A i \in 0 .. L - 1 : PageAt(j, i) \in Pages /\ PageAt(j, i) \in ToSet(job[j].pages)
        /\ \A i, x \in 0 .. L - 1 : PageAt(j, i) = PageAt(j, x) => i = x
        /\ \A i \in f .. L - 1 : Len(table[PageAt(j, i)].hash) = 1
    BY DecodeStart
  <2> HIDE DEF f, L
  <2>2. f < L /\ f \in f .. LastPage(j, d) /\ f \in 0 .. L - 1 /\ f \in f .. L - 1
    BY <2>1
  <2> QED BY <2>1, <2>2
<1>3. /\ TableOk(t) /\ \A p \in Pages : t[p].hash = table[p].hash /\ t[p].refs = table[p].refs
      /\ \A p \in Pages : t[p] = table[p] \/ p \in ToSet(job[j].pages)
  BY <1>1, WrittenTable
<1>4. \A i \in 1 .. L : job[j].pages[i] \in Pages /\ job[j].pages[i] \in ToSet(job[j].pages)
  BY <1>2, PageIn
<1>5. CASE g = f
  <2>1. c.table = t /\ c.pages = job[j].pages
    BY <1>5 DEF Completed
  <2>2. \A p \in Pages : Harmless(t, j, p)
    BY <1>3 DEF Harmless
  <2> HIDE DEF t, c, f, g, L
  <2>3. SameCounts(t, job[j].pages, j)
    BY <1>3 DEF SameCounts
  <2>4. \A i \in 1 .. L : t[job[j].pages[i]].hash = table[job[j].pages[i]].hash
    BY <1>3, <1>4
  <2> QED BY <1>3, <1>5, <2>1, <2>2, <2>3, <2>4 DEF Turned, f, L, c, g
<1>6. CASE g # f
  <2>1. c = PageDone(t, j, f, h)
    BY <1>6 DEF Completed
  <2>2. h \in Seq(Int) /\ Len(h) >= PageSize /\ \A x \in 1 .. f : Grows(Own(j, x).hash, h)
    BY <1>6, NewHashOk
  <2> DEFINE twins == Under(h, t, Referenced(t))
             stale == Under(h, t, Unreferenced(t))
             twin == CHOOSE q \in twins : TRUE
             cleared == IF stale = {} THEN t ELSE Clear(t, CHOOSE q \in stale : TRUE)
             u == IF twins # {} THEN Switch(t, own, twin) ELSE UpdateHash(cleared, own, h)
             v == IF f + 1 < L THEN Link(u, PageAt(j, f + 1), h) ELSE u
  <2>3. c.table = v /\ c.pages = IF twins = {} THEN job[j].pages ELSE [job[j].pages EXCEPT ![f + 1] = twin]
    BY <2>1 DEF PageDone
  <2>4. t[own].refs = 1 /\ Len(t[own].hash) = 1
    BY <1>2, <1>3
  <2>5. ASSUME TableOk(u)
        PROVE  TableOk(v) /\ \A q \in Pages : v[q].hash = u[q].hash /\ v[q].refs = u[q].refs /\ v[q].toks = u[q].toks
    <3> HIDE DEF u, f
    <3> QED BY <1>2, <2>2, <2>5, LinkedOk
  <2>6. \A i \in 1 .. L : i # f + 1 => job[j].pages[i] # own
    <3> SUFFICES ASSUME NEW i \in 1 .. L, i # f + 1, job[j].pages[i] = own PROVE FALSE
      OBVIOUS
    <3> HIDE DEF f, L
    <3>1. i - 1 \in 0 .. L - 1 /\ f \in 0 .. L - 1 /\ (i - 1) + 1 = i
      BY <1>2
    <3>2. PageAt(j, i - 1) = PageAt(j, f)
      BY <3>1 DEF PageAt, own
    <3>3. i - 1 = f
      BY <1>2, <3>1, <3>2
    <3> QED BY <1>2, <3>3
  <2>7. own = job[j].pages[f + 1] /\ f + 1 \in 1 .. L
    <3> HIDE DEF L, f
    <3> QED BY <1>2 DEF PageAt, own
  <2>8. CASE twins = {}
    <3>1. u = UpdateHash(cleared, own, h)
      BY <2>8
    <3>2. /\ TableOk(u) /\ u[own].hash = h /\ u[own].toks = t[own].toks
          /\ (\A p \in Pages : u[p].refs = t[p].refs) /\ \A p \in Pages : p # own => t[p].refs = 0 \/ u[p] = t[p]
      <4> HIDE DEF t, own, h
      <4>0. TableOk(t) /\ own \in Pages /\ t[own].refs = 1 /\ h \in Seq(Int) /\ Len(h) >= PageSize /\ Under(h, t, Referenced(t)) = {}
        BY <1>2, <1>3, <2>2, <2>4, <2>8
      <4>1. LET a == Under(h, t, Unreferenced(t))
                b == IF a = {} THEN t ELSE Clear(t, CHOOSE q \in a : TRUE)
                w == UpdateHash(b, own, h)
            IN  /\ TableOk(w) /\ w[own].hash = h /\ w[own].toks = t[own].toks
                /\ (\A p \in Pages : w[p].refs = t[p].refs) /\ \A p \in Pages : p # own => t[p].refs = 0 \/ w[p] = t[p]
        BY <4>0, HashedOk, Zenon
      <4> QED BY <3>1, <4>1
    <3> HIDE DEF u
    <3>3. TableOk(v) /\ \A q \in Pages : v[q].hash = u[q].hash /\ v[q].refs = u[q].refs /\ v[q].toks = u[q].toks
      BY <2>5, <3>2
    <3> HIDE DEF v, t, own, f, g, L, c, h
    <3>4. \A i \in 1 .. L : i # f + 1 => v[job[j].pages[i]].hash = table[job[j].pages[i]].hash
      <4> SUFFICES ASSUME NEW i \in 1 .. L, i # f + 1 PROVE v[job[j].pages[i]].hash = table[job[j].pages[i]].hash
        OBVIOUS
      <4> DEFINE p == job[j].pages[i]
      <4>1. p \in Pages /\ p \in ToSet(job[j].pages) /\ p # own
        BY <1>4, <2>6
      <4> HIDE DEF p
      <4>2. table[p].refs >= 1
        BY <1>2, <4>1, Held
      <4>3. u[p] = t[p]
        BY <1>3, <3>2, <4>1, <4>2
      <4> QED BY <1>3, <3>3, <4>1, <4>3 DEF p
    <3>5. \A p \in Pages : Harmless(v, j, p)
      <4> SUFFICES ASSUME NEW p \in Pages PROVE Harmless(v, j, p)
        OBVIOUS
      <4>1. CASE p = own
        BY <1>2, <4>1 DEF Harmless
      <4>2. CASE p # own
        <5>1. table[p].refs = 0 \/ u[p] = t[p]
          BY <1>3, <3>2, <4>2
        <5> QED BY <1>3, <3>3, <5>1 DEF Harmless
      <4> QED BY <4>1, <4>2
    <3>6. SameCounts(v, job[j].pages, j)
      BY <1>3, <3>2, <3>3 DEF SameCounts
    <3>7. v[job[j].pages[f + 1]].hash = h
      BY <1>2, <2>7, <3>2, <3>3
    <3>8. c.table = v /\ c.pages = job[j].pages
      BY <2>3, <2>8
    <3>9. Turned(v, job[j].pages, j, g, h)
      BY <1>6, <3>3, <3>4, <3>5, <3>6, <3>7 DEF Turned, f, L
    <3> QED BY <3>8, <3>9 DEF c, g, h
  <2>9. CASE twins # {}
    <3>1. u = Switch(t, own, twin)
      BY <2>9
    <3>2. twin \in Pages /\ t[twin].hash = h /\ t[twin].refs > 0
      BY <2>9 DEF Under, Referenced
    <3> HIDE DEF twin, h, u, v, t, own, f, g, L, c
    <3>3. /\ TableOk(u) /\ twin # own
          /\ \A p \in Pages : p # own => u[p].hash = t[p].hash /\ u[p].toks = t[p].toks
          /\ \A p \in Pages : p # own /\ p # twin => u[p].refs = t[p].refs
          /\ u[twin].refs = t[twin].refs + 1 /\ u[own].refs = t[own].refs - 1
      BY <1>2, <1>3, <2>2, <2>4, <3>1, <3>2, SwitchedOk
    <3>4. TableOk(v) /\ \A q \in Pages : v[q].hash = u[q].hash /\ v[q].refs = u[q].refs /\ v[q].toks = u[q].toks
      BY <2>5, <3>3
    <3> DEFINE pages == [job[j].pages EXCEPT ![f + 1] = twin]
    <3>5. \A i \in 1 .. L : i # f + 1 => pages[i] = job[j].pages[i]
      BY <1>2, PageIn DEF L
    <3>6. pages[f + 1] = twin
      BY <1>2, <2>7, PageIn DEF L
    <3> HIDE DEF pages
    <3>7. \A i \in 1 .. L : i # f + 1 => v[pages[i]].hash = table[pages[i]].hash
      BY <1>3, <1>4, <2>6, <3>3, <3>4, <3>5
    <3>8. v[pages[f + 1]].hash = h
      BY <3>2, <3>3, <3>4, <3>6
    <3>9. \A p \in Pages : Harmless(v, j, p)
      <4> SUFFICES ASSUME NEW p \in Pages PROVE Harmless(v, j, p)
        OBVIOUS
      <4>1. CASE p = own
        BY <1>2, <4>1 DEF Harmless
      <4>2. CASE p # own
        <5>1. v[p].hash = table[p].hash /\ v[p].toks = t[p].toks
          BY <1>3, <3>3, <3>4, <4>2
        <5> QED BY <1>3, <5>1 DEF Harmless
      <4> QED BY <4>1, <4>2
    <3>10. twin \notin ToSet(job[j].pages)
      <4> SUFFICES ASSUME twin \in ToSet(job[j].pages) PROVE FALSE
        OBVIOUS
      <4>1. PICK x \in 1 .. L : twin = job[j].pages[x]
        BY <1>2, PageIn DEF ToSet, L
      <4>2. CASE x <= f
        <5>1. x \in 1 .. f
          BY <1>2, <4>2
        <5>2. Grows(h, h)
          BY <1>3, <2>2, <3>2, <4>1, <5>1 DEF Own
        <5>3. Len(h) \in Nat
          BY <2>2
        <5> QED BY <5>2, <5>3 DEF Grows
      <4>3. CASE ~(x <= f)
        <5>1. x - 1 \in f .. L - 1 /\ (x - 1) + 1 = x
          BY <1>2, <4>3
        <5>2. Len(table[twin].hash) = 1
          BY <1>2, <4>1, <5>1 DEF PageAt
        <5>3. Len(h) = 1
          BY <1>3, <3>2, <5>2
        <5> QED BY <2>2, <5>3, LongHash
      <4> QED BY <4>2, <4>3
    <3>11. SwitchedTo(v, pages, j, twin)
      <4>1. v[twin].refs = table[twin].refs + 1
        BY <1>3, <3>2, <3>3, <3>4
      <4>2. v[own].refs = table[own].refs - 1
        BY <1>2, <1>3, <3>3, <3>4
      <4>3. \A p \in Pages : p # twin /\ p # own => v[p].refs = table[p].refs
        BY <1>3, <3>3, <3>4
      <4> QED BY <3>2, <3>10, <4>1, <4>2, <4>3 DEF SwitchedTo, pages, own, f
    <3>12. c.table = v /\ c.pages = pages
      BY <2>3, <2>9 DEF pages
    <3>13. Turned(v, pages, j, g, h)
      BY <1>6, <3>2, <3>4, <3>5, <3>7, <3>8, <3>9, <3>11 DEF Turned, f, L
    <3> QED BY <3>12, <3>13 DEF c, g, h
  <2> QED BY <2>8, <2>9
<1> QED BY <1>5, <1>6

-----------------------------------------------------------------------------
(* what it takes back,                                                     *)

Shortened(x, y) ==
  /\ y \in CachePage /\ y.hash = x.hash /\ y.prev = x.prev /\ y.refs = x.refs /\ y.saved = x.saved
  /\ Len(y.toks) <= Len(x.toks)
Shorter(u, v, pages, a, b) ==
  /\ v \in [Pages -> CachePage]
  /\ \A p \in Pages : v[p] = u[p] \/ (Shortened(u[p], v[p]) /\ \E i \in a .. b : p = pages[i + 1])

\* Cutting the tokens of a page leaves the rest of it.
LEMMA ShortenedFields ==
  ASSUME NEW x \in CachePage, NEW s \in Seq(Tokens), Len(s) <= Len(x.toks)
  PROVE  Shortened(x, [x EXCEPT !.toks = s])
BY DEF Shortened, CachePage

\* Cutting the tokens of pages keeps the table sound.
LEMMA ShorterOk ==
  ASSUME NEW u, TableOk(u), NEW v, NEW pages, NEW a, NEW b, Shorter(u, v, pages, a, b)
  PROVE  TableOk(v) /\ \A p \in Pages : v[p].hash = u[p].hash /\ v[p].refs = u[p].refs
<1>1. v \in [Pages -> CachePage] /\ \A p \in Pages : v[p].hash = u[p].hash /\ v[p].refs = u[p].refs
  BY DEF Shorter, Shortened
<1>2. \A p \in Pages : PageOk(v[p])
  <2> SUFFICES ASSUME NEW p \in Pages PROVE PageOk(v[p])
    OBVIOUS
  <2>1. PageOk(u[p])
    BY DEF TableOk
  <2>2. CASE v[p] = u[p]
    BY <2>1, <2>2
  <2>3. CASE Shortened(u[p], v[p])
    <3>1. Len(v[p].toks) \in Nat /\ Len(u[p].toks) \in Nat /\ Len(u[p].toks) <= PageSize /\ PageSize \in Nat
      BY <2>1, <2>3, PageTableAssumption DEF Shortened, PageOk, CachePage
    <3>2. Len(v[p].toks) <= Len(u[p].toks)
      BY <2>3 DEF Shortened
    <3>3. Len(v[p].toks) <= PageSize
      BY <3>1, <3>2
    <3> QED BY <2>1, <2>3, <3>3 DEF Shortened, PageOk
  <2> QED BY <2>2, <2>3 DEF Shorter
<1>3. Distinct(v)
  BY <1>1 DEF TableOk, Distinct
<1> QED BY <1>1, <1>2, <1>3 DEF TableOk

\* The pages of r positions behind pos are those with index a to b.
Behind(u, pages, pos, r, a, b) ==
  /\ u \in [Pages -> CachePage] /\ pages \in Seq(Pages) /\ pos \in Nat /\ r \in Nat
  /\ \A x \in pos .. pos + r - 1 : x \div PageSize \in a .. b
  /\ \A i \in a .. b : i \in 0 .. Len(pages) - 1

Cuts == [t : [Pages -> CachePage], r : Nat]

\* One turn of reject_remainder stays in the pages of what is rejected.
LEMMA CutOk ==
  ASSUME NEW u, NEW pages, NEW pos, NEW r, NEW a, NEW b, Behind(u, pages, pos, r, a, b),
         NEW w \in Cuts, w.r <= r, Shorter(u, w.t, pages, a, b)
  PROVE  LET z == Cut(pages, pos, w)
         IN  z \in Cuts /\ z.r <= r /\ Shorter(u, z.t, pages, a, b)
<1>0. u \in [Pages -> CachePage] /\ pages \in Seq(Pages) /\ pos \in Nat /\ r \in Nat
  BY DEF Behind
<1>1. CASE w.r = 0
  BY <1>1 DEF Cut
<1>2. CASE w.r # 0
  <2> DEFINE i == (pos + w.r - 1) \div PageSize
             p == pages[i + 1]
             n == Smaller(Len(w.t[p].toks), w.r)
             s == SubSeq(w.t[p].toks, 1, Len(w.t[p].toks) - n)
             y == [w.t[p] EXCEPT !.toks = s]
             z == [t |-> [w.t EXCEPT ![p] = y], r |-> w.r - n]
  <2>1. w.t \in [Pages -> CachePage] /\ w.r \in Nat
    BY DEF Cuts
  <2>2. i \in a .. b /\ i \in 0 .. Len(pages) - 1
    <3>1. pos + w.r - 1 \in pos .. pos + r - 1
      BY <1>0, <1>2, <2>1
    <3> QED BY <3>1 DEF Behind
  <2>3. p \in Pages
    <3>1. Len(pages) \in Nat
      BY <1>0
    <3> HIDE DEF i
    <3>2. i + 1 \in 1 .. Len(pages)
      BY <2>2, <3>1
    <3> QED BY <1>0, <3>2
  <2> HIDE DEF p, i
  <2>4. Cut(pages, pos, w) = z
    BY <1>2, <2>1, <2>3 DEF Cut, p, i
  <2>5. w.t[p] \in CachePage /\ w.t[p].toks \in Seq(Tokens)
    BY <2>1, <2>3 DEF CachePage
  <2> DEFINE k == w.t[p].toks
  <2>6. Len(k) \in Nat /\ n \in Nat /\ n <= Len(k) /\ n <= w.r
    <3>1. Len(k) \in Nat
      BY <2>5
    <3> DEFINE m == Len(k)
    <3>2. n = Smaller(m, w.r) /\ m \in Nat
      BY <3>1
    <3> HIDE DEF m, n
    <3>3. n \in Nat /\ n <= m /\ n <= w.r
      BY <2>1, <3>2 DEF Smaller
    <3> QED BY <3>1, <3>3 DEF m
  <2>7. s \in Seq(Tokens) /\ Len(s) <= Len(k)
    <3> DEFINE m == Len(k) - n
    <3> HIDE DEF n, k
    <3>1. m \in Nat /\ m <= Len(k) /\ m - 0 = m /\ 0 + 1 = 1 /\ 0 <= m
      BY <2>6
    <3> HIDE DEF m
    <3>2. k \in Seq(Tokens)
      BY <2>5 DEF k
    <3>3. SubSeq(k, 0 + 1, m) \in Seq(Tokens) /\ Len(SubSeq(k, 0 + 1, m)) = m - 0
      BY <3>1, <3>2, SubSeqOk
    <3>4. SubSeq(k, 1, m) \in Seq(Tokens) /\ Len(SubSeq(k, 1, m)) <= Len(k)
      BY <3>1, <3>3
    <3> QED BY <3>4 DEF m, k
  <2> HIDE DEF s
  <2>8. Shortened(w.t[p], y)
    BY <2>5, <2>7, ShortenedFields
  <2> HIDE DEF y, n
  <2>9. z \in Cuts /\ z.r <= r /\ z.t = [w.t EXCEPT ![p] = y]
    <3>1. y \in CachePage
      BY <2>8 DEF Shortened
    <3>2. w.r - n \in Nat /\ w.r - n <= r
      BY <1>0, <2>1, <2>6
    <3> QED BY <2>1, <3>1, <3>2 DEF Cuts
  <2> HIDE DEF z
  <2>10. Shorter(u, z.t, pages, a, b)
    <3>1. \A q \in Pages : z.t[q] = IF q = p THEN y ELSE w.t[q]
      BY <2>1, <2>9
    <3>2. Shortened(u[p], y)
      <4>1. CASE w.t[p] = u[p]
        BY <2>8, <4>1
      <4>2. CASE Shortened(u[p], w.t[p])
        <5>1. Len(y.toks) \in Nat /\ Len(w.t[p].toks) \in Nat /\ Len(u[p].toks) \in Nat
          <6>1. y \in CachePage /\ u[p] \in CachePage
            BY <1>0, <2>3, <2>8 DEF Shortened
          <6> QED BY <2>5, <6>1 DEF CachePage
        <5>2. Len(y.toks) <= Len(w.t[p].toks) /\ Len(w.t[p].toks) <= Len(u[p].toks)
          BY <2>8, <4>2 DEF Shortened
        <5>3. Len(y.toks) <= Len(u[p].toks)
          BY <5>1, <5>2
        <5> QED BY <2>8, <4>2, <5>3 DEF Shortened
      <4> QED BY <2>3, <4>1, <4>2 DEF Shorter
    <3>3. z.t \in [Pages -> CachePage]
      BY <2>9 DEF Cuts
    <3> QED BY <2>2, <3>1, <3>2, <3>3 DEF Shorter, p
  <2> QED BY <2>4, <2>9, <2>10
<1> QED BY <1>1, <1>2

\* reject_remainder cuts the pages of what is rejected only.
LEMMA RejectedOk ==
  ASSUME NEW u, NEW pages, NEW pos, NEW r, NEW a, NEW b, Behind(u, pages, pos, r, a, b)
  PROVE  Shorter(u, Rejected(u, pages, pos, r), pages, a, b)
<1> DEFINE Inv(w) == w.r <= r /\ Shorter(u, w.t, pages, a, b)
           I == [n \in Nat |-> {w \in Cuts : Inv(w)}]
<1>0. u \in [Pages -> CachePage] /\ r \in Nat
  BY DEF Behind
<1>1. [t |-> u, r |-> r] \in I[0]
  <2> DEFINE w == [t |-> u, r |-> r]
  <2>1. w \in Cuts /\ w.r <= r /\ w.t = u
    BY <1>0 DEF Cuts
  <2>2. Shorter(u, u, pages, a, b)
    BY <1>0 DEF Shorter
  <2> HIDE DEF w
  <2>3. w \in {x \in Cuts : Inv(x)}
    BY <2>1, <2>2
  <2> HIDE DEF Inv
  <2> QED BY <2>3 DEF w
<1>2. ASSUME NEW n \in Nat, NEW w \in I[n] PROVE Cut(pages, pos, w) \in I[n + 1]
  <2>1. w \in Cuts /\ w.r <= r /\ Shorter(u, w.t, pages, a, b)
    BY <1>2
  <2> DEFINE z == Cut(pages, pos, w)
  <2>2. z \in Cuts /\ z.r <= r /\ Shorter(u, z.t, pages, a, b)
    BY <2>1, CutOk
  <2> HIDE DEF z
  <2>3. z \in {x \in Cuts : Inv(x)}
    BY <2>2
  <2> HIDE DEF Inv
  <2> QED BY <2>3 DEF z
<1> HIDE DEF I
<1>3. \E x \in I[r] : Rejected(u, pages, pos, r) = x.t
  <2>1. \A n \in Nat : \A x \in I[n] : Cut(pages, pos, x) \in I[n + 1]
    BY <1>2
  <2>2. r \in Nat
    BY <1>0
  <2> HIDE DEF Inv
  <2> QED BY <1>1, <2>1, <2>2, RejectedLoop
<1>4. PICK x \in I[r] : Rejected(u, pages, pos, r) = x.t
  BY <1>3
<1>5. x \in I[r]
  OBVIOUS
<1>6. I[r] = {w \in Cuts : Inv(w)}
  BY <1>0 DEF I
<1> QED BY <1>4, <1>5, <1>6

\* A window as a whole: written, completed, cut.
LEMMA AfterOk ==
  ASSUME IInv, phase = "decode", todo # <<>>, NEW j, j = todo[1], PrefillDone(j), NEW d \in 0 .. Depth, WindowOk(j, d),
         NEW draft, NEW n, NEW token, NEW eos, Choice(j, d, draft, n, token, eos)
  PROVE  Turned(After(j, draft, n, token, eos), Completed(j, draft, n, token).pages, j,
                NewPos(j, n) \div PageSize, NewHash(j, draft, n, token))
<1> DEFINE f == FirstPage(j)
           l == LastPage(j, d)
           pos == NewPos(j, n)
           g == pos \div PageSize
           h == NewHash(j, draft, n, token)
           c == Completed(j, draft, n, token)
           u == c.table
           pages == c.pages
           L == Len(job[j].pages)
           v == After(j, draft, n, token, eos)
<1>1. draft \in [1 .. d -> Tokens] /\ n \in 1 .. d + 1
  BY DEF Choice
<1>2. /\ j \in Jobs /\ JobTypes /\ job[j].kvp \in Nat /\ d \in Nat /\ d < PageSize
      /\ f \in Nat /\ l \in Nat /\ l < L /\ L \in Nat /\ f <= l
      /\ \A i \in 0 .. L - 1 : PageAt(j, i) \in Pages /\ PageAt(j, i) \in ToSet(job[j].pages)
  BY DecodeStart
<1>3. Turned(u, pages, j, g, h)
  BY CompletedOk
<1>4. pages \in Seq(Pages) /\ Len(pages) = L
  BY <1>2, DonePages
<1>5. Len(draft) = d /\ d + 1 - n \in Nat /\ pos \in Nat /\ pos + (d + 1 - n) - 1 = job[j].kvp + d
  <2>1. Len(draft) = d
    BY <1>1, <1>2, SeqOfFunction
  <2>2. n \in Nat /\ n <= d + 1 /\ n >= 1 /\ pos = job[j].kvp + n
    BY <1>1, <1>2 DEF NewPos
  <2> HIDE DEF pos
  <2> QED BY <1>2, <2>1, <2>2
<1>6. v = IF eos THEN u ELSE Rejected(u, pages, pos, d + 1 - n)
  BY <1>5 DEF After
<1>7. g \in Nat /\ g \in {f, f + 1}
  BY <1>1, <1>2, NewPage
<1>8. CASE eos
  BY <1>3, <1>6, <1>8
<1>9. CASE ~eos
  <2>0. v = Rejected(u, pages, pos, d + 1 - n)
    BY <1>6, <1>9
  <2> HIDE DEF u, pages, pos, v, c, L, h, f
  <2>1. u \in [Pages -> CachePage] /\ TableOk(u)
    BY <1>3 DEF Turned, TableOk
  <2>2. \A x \in pos .. pos + (d + 1 - n) - 1 : x \div PageSize \in g .. l
    <3> SUFFICES ASSUME NEW x \in pos .. job[j].kvp + d PROVE x \div PageSize \in g .. l
      BY <1>5
    <3>1. x \in Nat /\ pos <= x /\ x <= job[j].kvp + d /\ job[j].kvp + d \in Nat
      BY <1>2, <1>5
    <3>2. pos \div PageSize <= x \div PageSize /\ x \div PageSize <= (job[j].kvp + d) \div PageSize
      BY <1>5, <3>1, DivMono
    <3>3. x \div PageSize \in Nat /\ l = (job[j].kvp + d) \div PageSize
      BY <3>1, DivBounds DEF LastPage
    <3> HIDE DEF l
    <3>4. g <= x \div PageSize /\ x \div PageSize <= l
      BY <3>2, <3>3
    <3> HIDE DEF g
    <3> QED BY <1>2, <1>7, <3>3, <3>4
  <2> HIDE DEF g, l
  <2>3. \A i \in g .. l : i \in 0 .. Len(pages) - 1 /\ i \in 0 .. L - 1
    BY <1>2, <1>4, <1>7
  <2>4. Behind(u, pages, pos, d + 1 - n, g, l)
    BY <1>4, <1>5, <2>1, <2>2, <2>3 DEF Behind
  <2>5. Shorter(u, v, pages, g, l)
    BY <2>0, <2>4, RejectedOk
  <2>6. TableOk(v) /\ \A p \in Pages : v[p].hash = u[p].hash /\ v[p].refs = u[p].refs
    BY <2>1, <2>5, ShorterOk
  <2>7. \A p \in Pages : Harmless(v, j, p)
    <3> SUFFICES ASSUME NEW p \in Pages PROVE Harmless(v, j, p)
      OBVIOUS
    <3>1. CASE v[p] = u[p]
      BY <1>3, <3>1 DEF Turned, Harmless
    <3>2. CASE v[p] # u[p]
      <4>1. PICK i \in g .. l : p = pages[i + 1]
        BY <2>5, <3>2 DEF Shorter
      <4>2. i + 1 \in 1 .. L /\ (i + 1 # f + 1 \/ g = f)
        BY <1>2, <1>7, <2>3
      <4>3. pages[i + 1] = job[j].pages[i + 1] /\ u[pages[i + 1]].hash = table[pages[i + 1]].hash
        BY <1>3, <4>2 DEF Turned, L, f
      <4>4. job[j].pages[i + 1] \in ToSet(job[j].pages)
        BY <1>2, <4>2, PageIn DEF L
      <4> QED BY <2>6, <4>1, <4>3, <4>4 DEF Harmless
    <3> QED BY <3>1, <3>2
  <2>8. \A i \in 1 .. L : i # f + 1 \/ g = f => pages[i] = job[j].pages[i] /\ v[pages[i]].hash = table[pages[i]].hash
    <3> SUFFICES ASSUME NEW i \in 1 .. L, i # f + 1 \/ g = f
                 PROVE  pages[i] = job[j].pages[i] /\ v[pages[i]].hash = table[pages[i]].hash
      OBVIOUS
    <3>1. pages[i] = job[j].pages[i] /\ u[pages[i]].hash = table[pages[i]].hash
      BY <1>3 DEF Turned, L, f
    <3>2. pages[i] \in Pages
      BY <1>2, <3>1, PageIn DEF L
    <3> QED BY <2>6, <3>1, <3>2
  <2>9. g # f => v[pages[f + 1]].hash = h
    <3> SUFFICES ASSUME g # f PROVE v[pages[f + 1]].hash = h
      OBVIOUS
    <3>1. u[pages[f + 1]].hash = h
      BY <1>3 DEF Turned, f
    <3>2. f + 1 \in 1 .. L
      BY <1>2
    <3>3. pages[f + 1] \in Pages
      BY <1>4, <3>2
    <3> QED BY <2>6, <3>1, <3>3
  <2>10. SameCounts(v, pages, j) \/ \E twin \in Pages : SwitchedTo(v, pages, j, twin)
    <3>1. CASE SameCounts(u, pages, j)
      BY <2>6, <3>1 DEF SameCounts
    <3>2. ASSUME NEW twin \in Pages, SwitchedTo(u, pages, j, twin) PROVE SwitchedTo(v, pages, j, twin)
      <4>1. PageAt(j, f) \in Pages
        <5>1. f \in 0 .. L - 1
          BY <1>2
        <5> QED BY <1>2, <5>1
      <4> QED BY <2>6, <3>2, <4>1 DEF SwitchedTo, f
    <3> QED BY <1>3, <3>1, <3>2 DEF Turned
  <2>11. Turned(v, pages, j, g, h)
    BY <2>6, <2>7, <2>8, <2>9, <2>10 DEF Turned, L, f
  <2> QED BY <2>11 DEF v, pages, c, g, h, pos
<1> QED BY <1>8, <1>9

-----------------------------------------------------------------------------
(* and the whole.                                                          *)

LEMMA SeqReplace ==
  ASSUME NEW S, NEW s \in Seq(S), Injective(s), NEW i \in 1 .. Len(s), NEW x \in S \ ToSet(s)
  PROVE  LET b == [s EXCEPT ![i] = x]
         IN  /\ b \in Seq(S) /\ Len(b) = Len(s) /\ Injective(b)
             /\ \A q : q \in ToSet(b) <=> q = x \/ (q \in ToSet(s) /\ q # s[i])
<1> DEFINE b == [s EXCEPT ![i] = x]
<1>1. Len(s) \in Nat /\ DOMAIN s = 1 .. Len(s) /\ s \in [1 .. Len(s) -> S]
  BY LenProperties
<1>2. b \in Seq(S) /\ Len(b) = Len(s) /\ DOMAIN b = 1 .. Len(s)
  BY <1>1
<1>3. \A k \in 1 .. Len(s) : b[k] = IF k = i THEN x ELSE s[k]
  BY <1>1
<1> HIDE DEF b
<1>4. \A k \in 1 .. Len(s) : s[k] \in ToSet(s) /\ s[k] # x
  BY <1>1 DEF ToSet
<1>5. Injective(b)
  <2> SUFFICES ASSUME NEW k \in 1 .. Len(s), NEW m \in 1 .. Len(s), b[k] = b[m] PROVE k = m
    BY <1>2 DEF Injective
  <2> QED BY <1>1, <1>3, <1>4 DEF Injective
<1>6. ASSUME NEW q, q \in ToSet(b) PROVE q = x \/ (q \in ToSet(s) /\ q # s[i])
  <2>1. PICK k \in 1 .. Len(s) : q = b[k]
    BY <1>2, <1>6 DEF ToSet
  <2> QED BY <1>1, <1>3, <1>4, <2>1 DEF Injective
<1>7. ASSUME NEW q, q = x \/ (q \in ToSet(s) /\ q # s[i]) PROVE q \in ToSet(b)
  <2>1. CASE q = x
    <3>1. b[i] = q
      BY <1>3, <2>1
    <3> QED BY <1>2, <3>1 DEF ToSet
  <2>2. CASE q \in ToSet(s) /\ q # s[i]
    <3>1. PICK k \in 1 .. Len(s) : q = s[k]
      BY <1>1, <2>2 DEF ToSet
    <3>2. b[k] = q
      BY <1>3, <2>2, <3>1
    <3> QED BY <1>2, <3>2 DEF ToSet
  <2> QED BY <1>7, <2>1, <2>2
<1>8. \A q : q \in ToSet(b) <=> q = x \/ (q \in ToSet(s) /\ q # s[i])
  BY <1>6, <1>7
<1> QED BY <1>2, <1>5, <1>8 DEF b

\* Reference counts stay exact over the switch to a twin.
LEMMA RefCountsSwitched ==
  ASSUME RefCounts, JobTypes, NEW j \in Jobs, FirstPage(j) \in Nat, FirstPage(j) + 1 \in 1 .. Len(job[j].pages),
         NEW twin \in Pages, SwitchedTo(table', job'[j].pages, j, twin),
         \A k \in Jobs : k # j => job'[k] = job[k]
  PROVE  RefCounts'
<1> DEFINE i == FirstPage(j) + 1
           s == job[j].pages
           b == job'[j].pages
           own == s[i]
<1>1. s \in Seq(Pages) /\ i \in 1 .. Len(s) /\ Injective(s) /\ own \in Pages /\ own \in ToSet(s)
  <2>1. s \in Seq(Pages) /\ DOMAIN s = 1 .. Len(s) /\ own \in Pages /\ own \in ToSet(s)
    BY PageIn
  <2> QED BY <2>1 DEF RefCounts, Injective
<1>2. b = [s EXCEPT ![i] = twin] /\ twin \in Pages \ ToSet(s)
  BY DEF SwitchedTo
<1>3. own = PageAt(j, FirstPage(j))
  BY DEF PageAt
<1>4. table'[twin].refs = table[twin].refs + 1 /\ table'[own].refs = table[own].refs - 1
      /\ \A p \in Pages : p # twin /\ p # own => table'[p].refs = table[p].refs
  BY <1>3 DEF SwitchedTo
<1>5. Injective(b) /\ \A q : q \in ToSet(b) <=> q = twin \/ (q \in ToSet(s) /\ q # own)
  <2> HIDE DEF i, s, b
  <2> QED BY <1>1, <1>2, SeqReplace
<1>6. \A k \in Jobs : k # j => job'[k].pages = job[k].pages
  OBVIOUS
<1> HIDE DEF i, s, b, own
<1>7. \A k \in Jobs : Injective(job'[k].pages)
  <2> SUFFICES ASSUME NEW k \in Jobs PROVE Injective(job'[k].pages)
    OBVIOUS
  <2>1. CASE k = j
    BY <1>5, <2>1 DEF b
  <2>2. CASE k # j
    <3>1. job'[k].pages = job[k].pages
      BY <1>6, <2>2
    <3>2. Injective(job[k].pages)
      BY DEF RefCounts, Injective
    <3> QED BY <3>1, <3>2
  <2> QED BY <2>1, <2>2
<1>8. ASSUME NEW p \in Pages
      PROVE  table'[p].refs = Cardinality({k \in Jobs : p \in ToSet(job'[k].pages)})
  <2> DEFINE H == Holders(p)
             G == {k \in Jobs : p \in ToSet(job'[k].pages)}
  <2>1. H \in SUBSET Jobs /\ table[p].refs = Cardinality(H) /\ \A k : k \in H <=> k \in Jobs /\ p \in ToSet(job[k].pages)
    <3>1. \A k : k \in H <=> k \in Jobs /\ p \in ToSet(job[k].pages)
      BY DEF Holders
    <3> HIDE DEF H
    <3>2. Holders(p) \in SUBSET Jobs /\ table[p].refs = Cardinality(Holders(p))
      BY Held
    <3> QED BY <3>1, <3>2 DEF H
  <2> HIDE DEF H
  <2>2. \A k : k \in G <=> (k # j /\ k \in H) \/ (k = j /\ p \in ToSet(b))
    <3>1. \A k \in Jobs : k # j => (k \in G <=> k \in H)
      BY <1>6, <2>1
    <3>2. j \in G <=> p \in ToSet(b)
      BY DEF b
    <3> QED BY <2>1, <3>1, <3>2
  <2>3. j \in H <=> p \in ToSet(s)
    BY <2>1 DEF s
  <2> HIDE DEF G
  <2>4. CASE p = twin
    <3>1. j \notin H /\ p \in ToSet(b)
      BY <1>2, <1>5, <2>3, <2>4
    <3>2. G = H \cup {j}
      BY <2>2, <3>1
    <3>3. Cardinality(G) = Cardinality(H) + 1
      BY <2>1, <3>1, <3>2, SmallSets
    <3> QED BY <1>4, <2>1, <2>4, <3>3 DEF G
  <2>5. CASE p = own
    <3>1. p # twin /\ j \in H /\ p \notin ToSet(b)
      BY <1>1, <1>2, <1>5, <2>3, <2>5
    <3>2. G = H \ {j}
      BY <2>2, <3>1
    <3>3. Cardinality(G) = Cardinality(H) - 1
      BY <2>1, <3>1, <3>2, SmallSets
    <3> QED BY <1>4, <2>1, <2>5, <3>3 DEF G
  <2>6. CASE p # twin /\ p # own
    <3>1. p \in ToSet(b) <=> p \in ToSet(s)
      BY <1>5, <2>6
    <3>2. G = H
      BY <2>2, <2>3, <3>1
    <3> QED BY <1>4, <2>1, <2>6, <3>2 DEF G
  <2> QED BY <2>4, <2>5, <2>6
<1> QED BY <1>7, <1>8 DEF RefCounts, Injective

\* A longer sequence with the same start has the same prefixes.
LEMMA SamePrefix ==
  ASSUME NEW S, NEW s \in Seq(S), NEW t \in Seq(S), NEW m \in Nat, m <= Len(s), Len(s) <= Len(t),
         \A k \in 1 .. Len(s) : t[k] = s[k]
  PROVE  SubSeq(t, 1, m) = SubSeq(s, 1, m)
<1>1. Len(s) \in Nat /\ Len(t) \in Nat /\ 0 \in Nat /\ 0 <= m /\ m <= Len(t) /\ 0 + 1 = 1 /\ m - 0 = m
  OBVIOUS
<1>2. /\ SubSeq(s, 0 + 1, m) \in Seq(S) /\ Len(SubSeq(s, 0 + 1, m)) = m - 0
      /\ \A i \in 1 .. m - 0 : SubSeq(s, 0 + 1, m)[i] = s[0 + i]
  BY <1>1, SubSeqOk
<1>3. /\ SubSeq(t, 0 + 1, m) \in Seq(S) /\ Len(SubSeq(t, 0 + 1, m)) = m - 0
      /\ \A i \in 1 .. m - 0 : SubSeq(t, 0 + 1, m)[i] = t[0 + i]
  BY <1>1, SubSeqOk
<1> DEFINE a == SubSeq(s, 1, m)
           b == SubSeq(t, 1, m)
<1>4. a \in Seq(S) /\ Len(a) = m /\ \A i \in 1 .. m : a[i] = s[0 + i]
  BY <1>1, <1>2
<1>5. b \in Seq(S) /\ Len(b) = m /\ \A i \in 1 .. m : b[i] = t[0 + i]
  BY <1>1, <1>3
<1> HIDE DEF a, b
<1>6. \A i \in 1 .. m : 0 + i = i /\ i \in 1 .. Len(s)
  BY <1>1
<1>7. \A i \in 1 .. Len(b) : b[i] = a[i]
  BY <1>4, <1>5, <1>6
<1>8. b = a
  BY <1>4, <1>5, <1>7, SeqEqual
<1> QED BY <1>8 DEF a, b

\* The same for the window chosen.
LEMMA SeenOk ==
  ASSUME JobTypes, NEW j \in Jobs, NEW d \in Nat, NEW draft, NEW n, NEW token, NEW eos, Choice(j, d, draft, n, token, eos)
  PROVE  /\ Seen(j, draft, n, token) \in Seq(Tokens)
         /\ Len(Seen(j, draft, n, token)) = Len(job[j].ids) + n
         /\ \A i \in 1 .. Len(job[j].ids) : Seen(j, draft, n, token)[i] = job[j].ids[i]
<1>1. draft \in [1 .. d -> Tokens] /\ n \in 1 .. d + 1 /\ token \in Tokens
  BY DEF Choice
<1> QED BY <1>1, SeenType

\* Where a window leaves its job.
NowAt(j, ids, pages, pos) ==
  /\ job'[j].ids = ids /\ job'[j].pages = pages /\ job'[j].kvp = pos /\ job'[j].prompt = job[j].prompt

\* The pages of the job whose window was sampled.
LEMMA SampledPages ==
  ASSUME IInv, phase = "decode", todo # <<>>, NEW j, j = todo[1], PrefillDone(j), NEW d \in 0 .. Depth, WindowOk(j, d),
         NEW draft, NEW n, NEW token, NEW eos, Choice(j, d, draft, n, token, eos),
         NEW pages, Len(pages) = Len(job[j].pages),
         Turned(table', pages, j, NewPos(j, n) \div PageSize, NewHash(j, draft, n, token)),
         NowAt(j, Seen(j, draft, n, token), pages, NewPos(j, n))
  PROVE  PagesOf(j)'
<1> DEFINE f == FirstPage(j)
           pos == NewPos(j, n)
           g == pos \div PageSize
           h == NewHash(j, draft, n, token)
           seen == Seen(j, draft, n, token)
           L == Len(job[j].pages)
           H == HashedPages(j)
<1>1. draft \in [1 .. d -> Tokens] /\ n \in 1 .. d + 1 /\ token \in Tokens
  BY DEF Choice
<1>2. /\ j \in Jobs /\ JobTypes /\ PagesOf(j) /\ job[j].kvp \in Nat /\ Len(job[j].ids) = job[j].kvp + 1 /\ d \in Nat
      /\ d < PageSize /\ f \in Nat /\ f <= LastPage(j, d) /\ LastPage(j, d) < L /\ LastPage(j, d) \in Nat /\ L \in Nat /\ Started(j) /\ JobShape(j)
      /\ H \in Nat /\ H <= f /\ Done(j) = f /\ L = TotalPages(job[j].prompt) /\ job[j].ids \in Seq(Tokens)
      /\ \A i \in 0 .. L - 1 : PageAt(j, i) \in Pages /\ PageAt(j, i) \in ToSet(job[j].pages)
      /\ \A i \in f .. L - 1 : Len(table[PageAt(j, i)].hash) = 1
  BY DecodeStart
<1>3. /\ job'[j].ids = seen /\ job'[j].pages = pages /\ job'[j].kvp = pos /\ job'[j].prompt = job[j].prompt
  BY DEF NowAt
<1>4. g \in Nat /\ g \in {f, f + 1} /\ pos \in Nat
  BY <1>1, <1>2, NewPage
<1>5. seen \in Seq(Tokens) /\ Len(seen) = Len(job[j].ids) + n /\ \A i \in 1 .. Len(job[j].ids) : seen[i] = job[j].ids[i]
  <2> HIDE DEF f, H, L, g, h, seen, pos
  <2>1. j \in Jobs /\ JobTypes /\ d \in Nat
    BY <1>2
  <2> DEFINE x == Seen(j, draft, n, token)
  <2>2. x \in Seq(Tokens) /\ Len(x) = Len(job[j].ids) + n
    BY <2>1, SeenOk
  <2>3. \A i \in 1 .. Len(job[j].ids) : x[i] = job[j].ids[i]
    BY <2>1, SeenOk
  <2> QED BY <2>2, <2>3 DEF seen
<1>6. HashedPages(j)' = H
  BY <1>3 DEF HashedPages
<1>7. FirstPage(j)' = g
  BY <1>3 DEF FirstPage
<1>8. PrefillDone(j)'
  <2> HIDE DEF seen
  <2>1. pos = job[j].kvp + n /\ n \in Nat
    BY <1>1, <1>2 DEF NewPos
  <2> HIDE DEF pos
  <2>2. pos = Len(seen) - 1
    BY <1>2, <1>5, <2>1
  <2> QED BY <1>3, <2>2 DEF PrefillDone
<1>9. Done(j)' = g
  <2>1. Done(j)' = Larger(HashedPages(j)', FirstPage(j)')
    BY DEF Done
  <2> HIDE DEF H, g
  <2>2. Larger(H, g) = g
    BY <1>2, <1>4 DEF Larger
  <2> QED BY <1>6, <1>7, <2>1, <2>2
<1> HIDE DEF f, pos, g, h, seen, L, H
<1>10. \A i \in 1 .. L : i # f + 1 \/ g = f => pages[i] = job[j].pages[i] /\ table'[pages[i]].hash = Own(j, i).hash
  <2> SUFFICES ASSUME NEW i \in 1 .. L, i # f + 1 \/ g = f PROVE pages[i] = job[j].pages[i] /\ table'[pages[i]].hash = Own(j, i).hash
    OBVIOUS
  <2>1. pages[i] = job[j].pages[i] /\ table'[pages[i]].hash = table[pages[i]].hash
    BY DEF Turned, L, f, g, pos
  <2> QED BY <2>1 DEF Own
<1>11. g # f => table'[pages[f + 1]].hash = h
  BY DEF Turned, f, g, pos, h
<1>12. \A i \in 1 .. L : Own(j, i)' = table'[pages[i]]
  BY <1>3 DEF Own
<1>13. \A i \in g + 1 .. L : Len(Own(j, i)'.hash) = 1
  <2> SUFFICES ASSUME NEW i \in g + 1 .. L PROVE Len(Own(j, i)'.hash) = 1
    OBVIOUS
  <2>1. i \in 1 .. L /\ (i # f + 1 \/ g = f) /\ i - 1 \in f .. L - 1 /\ (i - 1) + 1 = i
    BY <1>2, <1>4
  <2>2. Len(table[PageAt(j, i - 1)].hash) = 1
    BY <1>2, <2>1
  <2>3. Len(Own(j, i).hash) = 1
    BY <2>1, <2>2 DEF PageAt, Own
  <2> QED BY <1>10, <1>12, <2>1, <2>3
<1>14. \A y \in 1 .. g : \A x \in 1 .. y - 1 : Grows(Own(j, x)'.hash, Own(j, y)'.hash)
  <2> SUFFICES ASSUME NEW y \in 1 .. g, NEW x \in 1 .. y - 1 PROVE Grows(Own(j, x)'.hash, Own(j, y)'.hash)
    OBVIOUS
  <2>1. x \in 1 .. f /\ x \in 1 .. L /\ x # f + 1 /\ y \in 1 .. L
    BY <1>2, <1>4
  <2>2. Own(j, x)'.hash = Own(j, x).hash
    BY <1>10, <1>12, <2>1
  <2>3. CASE y = f + 1 /\ g # f
    <3>1. Own(j, y)'.hash = h
      BY <1>11, <1>12, <2>1, <2>3
    <3>2. Grows(Own(j, x).hash, h)
      BY <2>1, <2>3, NewHashOk DEF f, g, pos, h
    <3> QED BY <2>2, <3>1, <3>2
  <2>4. CASE ~(y = f + 1 /\ g # f)
    <3>1. Own(j, y)'.hash = Own(j, y).hash
      BY <1>10, <1>12, <2>1, <2>4
    <3>2. y \in 1 .. f
      BY <1>2, <1>4, <2>4
    <3>3. Grows(Own(j, x).hash, Own(j, y).hash)
      BY <1>2, <3>2 DEF PagesOf
    <3> QED BY <2>2, <3>1, <3>3
  <2> QED BY <2>3, <2>4
<1>15. \A i \in 1 .. H : Own(j, i)'.hash = PageHash(j, i)'
  <2> SUFFICES ASSUME NEW i \in 1 .. H PROVE Own(j, i)'.hash = PageHash(j, i)'
    OBVIOUS
  <2>1. i \in 1 .. L /\ i # f + 1 /\ i \in Nat
    BY <1>2
  <2>2. Own(j, i)'.hash = Own(j, i).hash
    BY <1>10, <1>12, <2>1
  <2>3. Own(j, i).hash = SubSeq(job[j].ids, 1, i * PageSize)
    BY <1>2 DEF PagesOf, PageHash, H
  <2>4. PageHash(j, i)' = SubSeq(seen, 1, i * PageSize)
    BY <1>3 DEF PageHash
  <2>5. i * PageSize \in Nat /\ i * PageSize <= Len(job[j].ids)
    <3>1. H * PageSize <= job[j].prompt - 1 /\ job[j].prompt \in Nat /\ job[j].prompt <= Len(job[j].ids) /\ Len(job[j].ids) \in Nat
      <4>1. job[j].prompt \in Nat /\ job[j].new \in Nat
        BY <1>2 DEF JobTypes, Job
      <4>2. job[j].prompt >= 1 /\ Len(job[j].ids) = job[j].prompt + job[j].new
        BY <1>2 DEF JobShape
      <4>3. H * PageSize <= job[j].prompt - 1
        BY <4>1, <4>2, HashedBounds DEF H
      <4> QED BY <4>1, <4>2, <4>3
    <3>2. i * PageSize <= H * PageSize /\ i * PageSize \in Nat /\ H * PageSize \in Nat
      <4>1. i <= H
        BY <1>2
      <4> QED BY <1>2, <2>1, <4>1, MultMono
    <3> DEFINE a == i * PageSize
               b == H * PageSize
    <3>3. a \in Nat /\ b \in Nat /\ a <= b /\ b <= job[j].prompt - 1
      BY <3>1, <3>2
    <3> HIDE DEF a, b
    <3>4. a <= Len(job[j].ids)
      BY <3>1, <3>3
    <3> QED BY <3>2, <3>4 DEF a
  <2> DEFINE m == i * PageSize
             ids == job[j].ids
  <2>6. m \in Nat /\ m <= Len(ids) /\ ids \in Seq(Tokens) /\ Len(ids) <= Len(seen) /\ \A k \in 1 .. Len(ids) : seen[k] = ids[k]
    BY <1>1, <1>2, <1>5, <2>5
  <2> HIDE DEF m, ids
  <2>7. SubSeq(seen, 1, m) = SubSeq(ids, 1, m)
    BY <1>5, <2>6, SamePrefix
  <2> QED BY <2>2, <2>3, <2>4, <2>7 DEF m, ids
<1>16. Len(job'[j].pages) = TotalPages(job'[j].prompt)
  BY <1>2, <1>3 DEF L
<1>17. Len(job'[j].pages) = L
  BY <1>3 DEF L
<1>18. \A i \in Done(j)' + 1 .. Len(job'[j].pages) : Len(Own(j, i)'.hash) = 1 /\ PrefillDone(j)'
  BY <1>8, <1>9, <1>13, <1>17
<1>19. \A y \in 1 .. Done(j)' : \A x \in 1 .. y - 1 : Grows(Own(j, x)'.hash, Own(j, y)'.hash)
  BY <1>9, <1>14
<1>20. \A i \in 1 .. HashedPages(j)' : Own(j, i)'.hash = PageHash(j, i)'
  BY <1>6, <1>15
<1> QED BY <1>16, <1>18, <1>19, <1>20 DEF PagesOf

\* The tensors after a window.
LEMMA SampledKv ==
  ASSUME IInv, phase = "decode", todo # <<>>, NEW j, j = todo[1], PrefillDone(j), NEW d \in 0 .. Depth, WindowOk(j, d),
         NEW draft \in [1 .. d -> Tokens], NEW u
  PROVE  Kept(Forward(kv, j, Row(j, draft), job[j].kvp, job[j].kvp + Len(draft) + 1), u) \in Tensors
<1> DEFINE row == Row(j, draft)
           y == job[j].kvp + Len(draft) + 1
           k == Forward(kv, j, row, job[j].kvp, y)
<1>1. kv \in Tensors /\ job[j].ids \in Seq(Tokens) /\ job[j].kvp \in Nat /\ Len(job[j].ids) = job[j].kvp + 1 /\ d \in Nat
  BY DecodeStart
<1>2. row \in Seq(Tokens) /\ Len(row) = job[j].kvp + 1 + d /\ Len(draft) = d
  BY <1>1, RowOk
<1> HIDE DEF row
<1>3. y \in Nat /\ y <= Len(row)
  BY <1>1, <1>2
<1> HIDE DEF y
<1>4. k \in Tensors
  BY <1>1, <1>2, <1>3, ForwardOk
<1> HIDE DEF k
<1>5. Kept(k, u) \in Tensors
  BY <1>4, KeptOk
<1> QED BY <1>5 DEF k, y, row

\* A window that is sampled keeps the memory sound.
LEMMA SampledOk ==
  ASSUME IInv, phase = "decode", todo # <<>>, NEW j, j = todo[1], PrefillDone(j), NEW d \in 0 .. Depth, WindowOk(j, d),
         NEW draft, NEW n, NEW token, NEW eos, Choice(j, d, draft, n, token, eos),
         Sampled(j, draft, n, token, eos), active' = active, phase' = phase
  PROVE  Memory'
<1>1. /\ j \in Jobs /\ j \in Running /\ Started(j) /\ JobShape(j) /\ PagesOf(j)
      /\ JobsOk /\ JobTypes /\ TableOk(table) /\ RefCounts /\ Queues
      /\ FirstPage(j) \in Nat /\ FirstPage(j) <= LastPage(j, d) /\ LastPage(j, d) \in Nat
      /\ LastPage(j, d) < Len(job[j].pages) /\ Len(job[j].pages) \in Nat
  BY DecodeStart
<1>2. draft \in [1 .. d -> Tokens] /\ n \in 1 .. d + 1 /\ token \in Tokens
  BY DEF Choice
<1> DEFINE c == Completed(j, draft, n, token)
           pages == c.pages
<1>3. CASE ~c.ok
  <2>1. table' = table /\ kv' = kv /\ job' = job /\ finished' = finished
    BY <1>3 DEF Sampled, pageVars
  <2>2. phase # "claim" /\ phase' # "claim"
    OBVIOUS
  <2>3. Working' = Working
    BY <2>1 DEF Working
  <2> QED BY <2>1, <2>2, <2>3, QuietStep DEF Quiet
<1>4. CASE c.ok
  <2>1. /\ table' = After(j, draft, n, token, eos)
        /\ kv' = Kept(Forward(kv, j, Row(j, draft), job[j].kvp, job[j].kvp + Len(draft) + 1), After(j, draft, n, token, eos))
        /\ job' = [job EXCEPT ![j].ids = Seen(j, draft, n, token), ![j].pages = pages, ![j].kvp = NewPos(j, n), ![j].new = @ + n]
        /\ finished' = finished \/ finished' = Append(finished, j)
    BY <1>4 DEF Sampled
  <2>2. kv' \in Tensors
    BY <1>2, <2>1, SampledKv
  <2>3. Turned(table', pages, j, NewPos(j, n) \div PageSize, NewHash(j, draft, n, token))
    BY <2>1, AfterOk
  <2>4. pages \in Seq(Pages) /\ Len(pages) = Len(job[j].pages)
    BY <1>1, DonePages
  <2>5. /\ NowAt(j, Seen(j, draft, n, token), pages, NewPos(j, n))
        /\ \A k \in Jobs : k # j => job'[k] = job[k]
    <3> DEFINE a == Seen(j, draft, n, token)
               x == NewPos(j, n)
    <3>1. job' = [job EXCEPT ![j].ids = a, ![j].pages = pages, ![j].kvp = x, ![j].new = @ + n]
      BY <2>1
    <3>2. job \in [Jobs -> Job]
      BY <1>1 DEF JobTypes
    <3> HIDE DEF a, x, pages
    <3>3. /\ job'[j].ids = a /\ job'[j].pages = pages /\ job'[j].kvp = x /\ job'[j].prompt = job[j].prompt
          /\ \A k \in Jobs : k # j => job'[k] = job[k]
      BY <1>1, <3>1, <3>2 DEF Job
    <3> QED BY <3>3 DEF NowAt, a, x
  <2> HIDE DEF pages, c
  <2>6. TableOk(table') /\ \A p \in Pages : Harmless(table', j, p)
    BY <2>3 DEF Turned
  <2>7. RefCounts'
    <3>1. job'[j].pages = pages
      BY <2>5 DEF NowAt
    <3>2. CASE SameCounts(table', pages, j)
      <4>1. \A k \in Jobs : job'[k].pages = job[k].pages
        BY <2>5, <3>1, <3>2 DEF SameCounts
      <4>2. \A p \in Pages : table'[p].refs = table[p].refs
        BY <3>2 DEF SameCounts
      <4> QED BY <1>1, <4>1, <4>2, RefCountsKept
    <3>3. ASSUME NEW twin \in Pages, SwitchedTo(table', pages, j, twin) PROVE RefCounts'
      <4>1. FirstPage(j) + 1 \in 1 .. Len(job[j].pages)
        BY <1>1
      <4>2. SwitchedTo(table', job'[j].pages, j, twin)
        BY <3>1, <3>3
      <4> QED BY <1>1, <2>5, <4>1, <4>2, RefCountsSwitched
    <3> QED BY <2>3, <3>2, <3>3 DEF Turned
  <2>8. Working' \subseteq Working /\ Running' \subseteq Running
    <3>1. ToSet(finished) \subseteq ToSet(finished')
      <4>1. CASE finished' = finished
        BY <4>1
      <4>2. CASE finished' = Append(finished, j)
        <5>1. finished \in Seq(Jobs)
          BY <1>1 DEF Queues, QueueTypes
        <5>2. ToSet(Append(finished, j)) = ToSet(finished) \cup {j}
          BY <1>1, <5>1, SeqAppend
        <5> QED BY <4>2, <5>2
      <4> QED BY <2>1, <4>1, <4>2
    <3>2. Working' = ToSet(active) \ ToSet(finished')
      BY DEF Working
    <3>3. Working' \subseteq Working
      BY <3>1, <3>2 DEF Working
    <3>4. Running' = Working' /\ Running = Working
      BY DEF Running
    <3> QED BY <3>3, <3>4
  <2>9. \A k \in Running' : PagesOf(k)'
    <3> SUFFICES ASSUME NEW k \in Running PROVE PagesOf(k)'
      BY <2>8
    <3>1. CASE k = j
      <4>1. PagesOf(j)'
        BY <2>3, <2>4, <2>5, SampledPages
      <4> QED BY <3>1, <4>1
    <3>2. CASE k # j
      <4>1. /\ k \in Jobs /\ Started(k) /\ JobShape(k) /\ PagesOf(k)
        BY <1>1, RunningOk DEF IInv, Memory
      <4>2. job'[k] = job[k]
        BY <2>5, <3>2, <4>1
      <4>3. \A p \in Pages :
              \/ table'[p].hash = table[p].hash /\ table'[p].toks = table[p].toks
              \/ table[p].refs = 0
              \/ p \in ToSet(job[j].pages) /\ (table'[p].hash = table[p].hash \/ table[p].refs <= 1)
        BY <2>6 DEF Harmless
      <4> QED BY <1>1, <3>2, <4>1, <4>2, <4>3, OthersKept
    <3> QED BY <3>1, <3>2
  <2>10. Claiming' /\ NeverStarves'
    BY DEF Claiming, NeverStarves, At
  <2>11. TableOk(table)'
    BY <2>6
  <2>12. KvOk'
    BY <2>2 DEF KvOk, Tensors
  <2> QED BY <2>7, <2>9, <2>10, <2>11, <2>12 DEF Memory
<1> QED BY <1>3, <1>4

\* Decoding keeps the memory sound.
LEMMA DecodeStep ==
  ASSUME IInv, Decode
  PROVE  Memory'
<1> SUFFICES ASSUME NEW j, j = todo[1] PROVE Memory'
  OBVIOUS
<1>1. phase = "decode" /\ todo # <<>> /\ PrefillDone(j) /\ active' = active /\ phase' = phase
  BY DEF Decode, At, Turn
<1>2. PICK d \in 0 .. Depth :
        /\ WindowOk(j, d)
        /\ \E draft \in [1 .. d -> Tokens], n \in 1 .. d + 1, token \in Tokens, eos \in BOOLEAN :
             /\ job[j].new + n <= MaxTokens
             /\ job[j].new + n = MaxTokens => eos
             /\ (n <= d /\ ~eos) => token # draft[n] \/ Checkpoint(j, n)
             /\ Sampled(j, draft, n, token, eos)
  BY DEF Decode, Turn
<1>3. PICK draft \in [1 .. d -> Tokens], n \in 1 .. d + 1, token \in Tokens, eos \in BOOLEAN :
        /\ job[j].new + n <= MaxTokens
        /\ job[j].new + n = MaxTokens => eos
        /\ Sampled(j, draft, n, token, eos)
  BY <1>2
<1>4. Choice(j, d, draft, n, token, eos)
  BY <1>3 DEF Choice
<1> QED BY <1>1, <1>2, <1>3, <1>4, SampledOk

-----------------------------------------------------------------------------
(* The inductive invariant.                                                *)

LEMMA InitTable ==
  ASSUME PageTableInit
  PROVE  TableOk(table) /\ KvOk /\ \A p \in Pages : table[p].refs = 0
<1>1. PICK number \in [Pages -> 1 .. Cardinality(Pages)] :
        /\ \A p, q \in Pages : p # q => number[p] # number[q]
        /\ table = [p \in Pages |-> Blank(<<-number[p]>>)]
  BY DEF PageTableInit
<1>2. Cardinality(Pages) \in Nat
  BY PageTableAssumption, FS_CardinalityType
<1>3. \A p \in Pages : number[p] \in Nat /\ number[p] >= 1
  BY <1>2
<1> DEFINE h(p) == <<-number[p]>>
<1>4. \A p \in Pages : h(p) \in Seq(Int) /\ Len(h(p)) = 1 /\ h(p)[1] = -number[p] /\ h(p)[1] < 0
  BY <1>3
<1>5. \A p \in Pages : table[p] = Blank(h(p))
  BY <1>1
<1> HIDE DEF h
<1>6. \A p \in Pages : /\ table[p] \in CachePage /\ table[p].hash = h(p) /\ table[p].refs = 0 /\ table[p].toks = <<>>
                       /\ table[p].saved = {}
  BY <1>4, <1>5, BlankFields
<1>7. \A p \in Pages : PageOk(table[p])
  <2>1. \A p \in Pages : Len(table[p].toks) = 0
    BY <1>6
  <2> QED BY <1>4, <1>6, <2>1, PageTableAssumption DEF PageOk, HashShape
<1>8. Distinct(table)
  <2> SUFFICES ASSUME NEW p \in Pages, NEW q \in Pages, p # q PROVE table[p].hash # table[q].hash
    BY DEF Distinct
  <2>1. number[p] # number[q] /\ -number[p] # -number[q]
    BY <1>1, <1>3
  <2> QED BY <1>4, <1>6, <2>1
<1>9. table \in [Pages -> CachePage]
  <2>1. DOMAIN table = Pages /\ table = [p \in Pages |-> table[p]]
    BY <1>1
  <2> QED BY <1>6, <2>1
<1>10. KvOk
  BY DEF PageTableInit, KvOk
<1> QED BY <1>6, <1>7, <1>8, <1>9, <1>10 DEF TableOk

\* The invariant holds at the start,
LEMMA InitInvariant ==
  Init => IInv
<1> SUFFICES ASSUME Init PROVE IInv
  OBVIOUS
<1>1. TableOk(table) /\ KvOk /\ \A p \in Pages : table[p].refs = 0
  BY InitTable DEF Init
<1>2. /\ pending = <<>> /\ active = <<>> /\ phase = "idle" /\ todo = <<>> /\ skipped = {} /\ finished = <<>> /\ failed = FALSE
      /\ job = [j \in Jobs |-> NewJob]
  BY DEF Init
<1>3. NewJob \in Job /\ NewJob.state = "new" /\ NewJob.pages = <<>> /\ NewJob.kvp = 0 /\ NewJob.new = 0
  BY DEF NewJob, Job, States
<1>4. \A j \in Jobs : job[j] = NewJob
  BY <1>2
<1>5. Queues
  <2>1. QueueTypes
    <3>1. Len(active) <= MaxBatch
      BY <1>2, GeneratorAssumption
    <3>2. pending \in Seq(Jobs) /\ active \in Seq(Jobs) /\ todo \in Seq(Jobs) /\ finished \in Seq(Jobs)
      BY <1>2
    <3>3. Injective(pending) /\ Injective(active) /\ Injective(todo) /\ Injective(finished)
      BY <1>2, ToSetEmpty
    <3>4. skipped \in SUBSET Jobs /\ phase \in Phases /\ failed \in BOOLEAN
      BY <1>2 DEF Phases
    <3> QED BY <3>1, <3>2, <3>3, <3>4 DEF QueueTypes
  <2>2. \A j \in Jobs : StateOf(j) = "new"
    BY <1>3, <1>4 DEF StateOf
  <2>3. ToSet(pending) = {} /\ ToSet(active) = {} /\ ToSet(finished) = {}
    BY <1>2, ToSetEmpty
  <2> QED BY <1>2, <2>1, <2>2, <2>3 DEF Queues
<1>6. JobsOk
  <2>1. JobTypes
    BY <1>2, <1>3 DEF JobTypes
  <2>2. \A j \in Jobs : JobShape(j)
    BY <1>3, <1>4, GeneratorAssumption DEF JobShape, Started
  <2> QED BY <2>1, <2>2 DEF JobsOk
<1>7. RefCounts
  <2>1. \A j \in Jobs : job[j].pages = <<>>
    BY <1>3, <1>4
  <2>2. \A j \in Jobs : DOMAIN job[j].pages = {} /\ ToSet(job[j].pages) = {}
    BY <2>1, ToSetEmpty
  <2>3. \A p \in Pages : {j \in Jobs : p \in ToSet(job[j].pages)} = {}
    BY <2>2
  <2>4. Cardinality({}) = 0
    BY FS_EmptySet
  <2> QED BY <1>1, <2>2, <2>3, <2>4 DEF RefCounts
<1>8. Running = {}
  <2>1. ToSet(active) = {}
    BY <1>2, ToSetEmpty
  <2> QED BY <2>1 DEF Running, Working
<1>9. Claiming /\ NeverStarves
  BY <1>2 DEF Claiming, NeverStarves, At
<1> QED BY <1>1, <1>5, <1>6, <1>7, <1>8, <1>9 DEF IInv, Memory

\* The memory invariant is about the variables only.
LEMMA MemorySame ==
  ASSUME IInv, vars' = vars
  PROVE  Memory'
<1>1. /\ table' = table /\ kv' = kv /\ job' = job /\ active' = active /\ finished' = finished /\ phase' = phase
      /\ failed' = failed /\ Memory /\ Queues /\ JobsOk /\ JobTypes
  BY DEF vars, IInv, JobsOk
<1>2. TableOk(table)' /\ KvOk' /\ RefCounts'
  BY <1>1 DEF Memory, KvOk, RefCounts
<1>3. Running' = Running
  BY <1>1 DEF Running, Working, Starting
<1>4. \A k \in Running' : PagesOf(k)'
  <2> SUFFICES ASSUME NEW k \in Running PROVE PagesOf(k)'
    BY <1>3
  <2>1. k \in Jobs /\ Started(k) /\ JobShape(k) /\ PagesOf(k)
    BY <1>1, RunningOk DEF Memory
  <2> QED BY <1>1, <2>1, QuietKept
<1>5. Claiming' /\ NeverStarves'
  <2> SUFFICES ASSUME NEW j, Starting = j PROVE Claiming' /\ NeverStarves'
    OBVIOUS
  <2>1. Starting' = j
    BY <1>1 DEF Starting
  <2>2. phase = "claim" => ClaimingOf(j)
    BY <1>1, ClaimingNow DEF Memory
  <2>3. At("claim") => Supplied(j)
    BY <1>1, ClaimingNow DEF Memory
  <2>4. ClaimingOf(j)' <=> ClaimingOf(j)
    BY <1>1 DEF ClaimingOf, TotalPages, HashedPages, Own, PageHash
  <2>5. HeldAhead(j)' = HeldAhead(j)
    BY <1>1 DEF HeldAhead, HashedPages, PageHash, Under, Referenced
  <2>6. Supplied(j)' <=> Supplied(j)
    BY <1>1, <2>5 DEF Supplied
  <2>7. At("claim")' <=> At("claim")
    BY <1>1 DEF At
  <2> QED BY <1>1, <2>1, <2>2, <2>3, <2>4, <2>6, <2>7, ClaimingNext
<1> QED BY <1>2, <1>4, <1>5 DEF Memory

\* every step keeps the memory sound,
LEMMA MemoryStep ==
  ASSUME IInv, Next
  PROVE  Memory'
<1>1. CASE \E j \in Jobs : Enqueue(j) \/ CancelPending(j) \/ CancelActive(j)
  BY <1>1, QuietSteps
<1>2. CASE ClearQueue \/ Iterate \/ PassOver \/ StartOver \/ PrefillOver
  BY <1>2, QuietSteps
<1>3. CASE NotReady \/ DecodeOver \/ ReleaseOver \/ Leave
  BY <1>3, QuietSteps
<1>4. CASE StartJob
  BY <1>4, StartStep
<1>5. CASE Claim
  BY <1>5, ClaimStep
<1>6. CASE NothingToPrefill
  BY <1>6, NothingStep
<1>7. CASE Prefill
  BY <1>7, PrefillStep
<1>8. CASE Decode
  BY <1>8, DecodeStep
<1>9. CASE ReleasePage
  BY <1>9, ReleaseStep
<1>10. CASE Rest
  <2>1. vars' = vars
    BY <1>10 DEF Rest
  <2> QED BY <2>1, MemorySame
<1> QED BY <1>1, <1>2, <1>3, <1>4, <1>5, <1>6, <1>7, <1>8, <1>9, <1>10 DEF Next

\* and so the invariant is inductive.
LEMMA InvariantStep ==
  IInv /\ [Next]_vars => IInv'
<1> SUFFICES ASSUME IInv, [Next]_vars PROVE IInv'
  OBVIOUS
<1>1. CASE Next
  BY <1>1, QueuesStep, JobsStep, MemoryStep DEF IInv, JobsOk
<1>2. CASE vars' = vars
  <2>1. Queues'
    BY <1>2 DEF vars, IInv, Queues, QueueTypes, StateOf
  <2>2. JobsOk'
    BY <1>2 DEF vars, IInv, JobsOk, JobTypes, JobShape, Started, PrefillDone
  <2>3. Memory'
    BY <1>2, MemorySame
  <2> QED BY <2>1, <2>2, <2>3 DEF IInv
<1> QED BY <1>1, <1>2

\* The inductive invariant holds in every behaviour.
THEOREM GeneratorInvariant ==
  Spec => []IInv
BY InitInvariant, InvariantStep, PTL DEF Spec

-----------------------------------------------------------------------------
(* What follows from it.                                                   *)

LEMMA TypesFollow ==
  IInv => TypeOK
<1> SUFFICES ASSUME IInv PROVE TypeOK
  OBVIOUS
<1>1. Queues /\ QueueTypes /\ JobsOk /\ JobTypes /\ TableOk(table) /\ KvOk
  BY DEF IInv, Queues, JobsOk, Memory
<1>2. PageTableTypeOK
  BY <1>1 DEF PageTableTypeOK, TableOk, PageOk, KvOk
<1>3. \A j \in Jobs : job[j].kvp <= Len(job[j].ids) /\ job[j].new <= MaxTokens
  <2> SUFFICES ASSUME NEW j \in Jobs PROVE job[j].kvp <= Len(job[j].ids) /\ job[j].new <= MaxTokens
    OBVIOUS
  <2>1. JobShape(j) /\ job[j] \in Job
    BY <1>1 DEF JobsOk, JobTypes
  <2>2. job[j].kvp \in Nat /\ Len(job[j].ids) \in Nat
    BY <2>1 DEF Job
  <2>3. job[j].kvp <= Len(job[j].ids)
    <3>1. CASE Started(j)
      <4>1. job[j].kvp < Len(job[j].ids)
        BY <2>1, <3>1 DEF JobShape
      <4> QED BY <2>2, <4>1
    <3>2. CASE ~Started(j)
      <4>1. job[j].kvp = 0
        BY <2>1, <3>2 DEF JobShape
      <4> QED BY <2>2, <4>1
    <3> QED BY <3>1, <3>2
  <2> QED BY <2>1, <2>3 DEF JobShape
<1>4. {j \in Jobs : job[j].state = "queued"} = ToSet(pending)
  <2>1. ToSet(pending) \subseteq Jobs
    BY <1>1 DEF QueueTypes, ToSet
  <2> QED BY <1>1, <2>1 DEF Queues, StateOf
<1>5. {j \in Jobs : job[j].state = "active"} = ToSet(active)
  <2>1. ToSet(active) \subseteq Jobs
    BY <1>1 DEF QueueTypes, ToSet
  <2> QED BY <1>1, <2>1 DEF Queues, StateOf
<1> QED BY <1>1, <1>2, <1>3, <1>4, <1>5 DEF TypeOK, QueueTypes, JobTypes

\* and that a window has pages, which nobody else holds.
LEMMA WindowsFollow ==
  IInv => WindowAlone
<1> SUFFICES ASSUME IInv, phase = "decode", todo # <<>>, NEW j, j = todo[1], PrefillDone(j) PROVE WindowOk(j, Depth)
  BY DEF WindowAlone, At, Turn
<1>1. Queues /\ JobsOk /\ JobTypes /\ TableOk(table) /\ RefCounts
  BY DEF IInv, JobsOk, Memory
<1>2. j \in Jobs /\ j \in Running /\ StateOf(j) = "active" /\ j \notin ToSet(finished)
  BY <1>1, TurnRuns DEF Turn
<1>3. Started(j) /\ JobShape(j) /\ PagesOf(j)
  BY <1>1, <1>2, RunningOk DEF IInv, Memory
<1>4. /\ job[j].kvp \in Nat /\ job[j].prompt \in Nat /\ job[j].new \in Nat /\ Depth \in Nat /\ MaxTokens \in Nat
      /\ job[j].kvp < job[j].prompt + job[j].new /\ job[j].new < MaxTokens
  <2>1. job[j].kvp \in Nat /\ job[j].prompt \in Nat /\ job[j].new \in Nat
    BY <1>1, <1>2 DEF JobTypes, Job
  <2>2. Depth \in Nat /\ MaxTokens \in Nat
    BY GeneratorAssumption, PageTableAssumption
  <2>3. Len(job[j].ids) = job[j].prompt + job[j].new /\ job[j].kvp < Len(job[j].ids)
    BY <1>3 DEF JobShape
  <2>4. job[j].new < MaxTokens
    BY <1>2, <1>3 DEF JobShape, StateOf
  <2> QED BY <2>1, <2>2, <2>3, <2>4
<1> DEFINE f == FirstPage(j)
           l == LastPage(j, Depth)
           L == Len(job[j].pages)
<1>5. l \in Nat /\ L \in Nat /\ l < L
  <2>1. job[j].kvp + Depth \in Nat /\ job[j].kvp + Depth < job[j].prompt + MaxTokens + Depth + 1
    BY <1>4
  <2>2. (job[j].kvp + Depth) \div PageSize < TotalPages(job[j].prompt)
    BY <1>4, <2>1, PagesEnough
  <2>3. (job[j].kvp + Depth) \div PageSize \in Nat
    BY <2>1, DivBounds
  <2>4. L = TotalPages(job[j].prompt) /\ L \in Nat
    BY <1>1, <1>2, <1>3, PageIn DEF PagesOf
  <2> QED BY <2>2, <2>3, <2>4 DEF LastPage
<1>6. f \in Nat /\ Done(j) = f
  BY <1>1, <1>2, <1>3, DoneBounds
<1> HIDE DEF f, l, L
<1>7. ASSUME NEW i \in f .. l PROVE i < L /\ table[PageAt(j, i)].refs = 1
  <2>1. i < L /\ i + 1 \in f + 1 .. L /\ i + 1 \in 1 .. L
    BY <1>5, <1>6
  <2> DEFINE p == job[j].pages[i + 1]
  <2>2. p \in Pages /\ p \in ToSet(job[j].pages)
    BY <1>1, <1>2, <2>1, PageIn DEF L
  <2>3. Len(table[p].hash) = 1
    BY <1>3, <1>6, <2>1 DEF PagesOf, Own, L
  <2> HIDE DEF p
  <2>4. table[p].refs <= 1
    BY <1>1, <2>2, <2>3 DEF TableOk, PageOk
  <2>5. table[p].refs >= 1 /\ table[p].refs \in Nat
    BY <1>1, <1>2, <2>2, Held
  <2>6. table[p].refs = 1
    BY <2>4, <2>5
  <2> QED BY <2>1, <2>6 DEF p, PageAt
<1> QED BY <1>7 DEF WindowOk, f, l, L

\* Types hold, and queue and batch agree with the jobs' states.
THEOREM GeneratorTypes ==
  Spec => []TypeOK
<1>1. Spec => []IInv
  BY GeneratorInvariant
<1> QED BY <1>1, TypesFollow, PTL

\* Reference counts are exact and no job holds a page twice, through sharing,
\* switching to a twin, cancellation, revert and release: no page leaks and none
\* is given away in use.
THEOREM GeneratorRefCounts ==
  Spec => []RefCounts
<1>1. IInv => RefCounts
  BY DEF IInv, Memory
<1> QED BY <1>1, GeneratorInvariant, PTL

\* No two pages ever have one hash, whatever is generated, reverted or revived.
THEOREM GeneratorUniqueHashes ==
  Spec => []UniqueHashes
<1>1. IInv => UniqueHashes
  BY DEF IInv, Memory, TableOk, Distinct, UniqueHashes
<1> QED BY <1>1, GeneratorInvariant, PTL

\* A job that was started always finds a page to evict for what it has to claim.
THEOREM GeneratorNeverStarves ==
  Spec => []NeverStarves
<1>1. IInv => NeverStarves
  BY DEF IInv, Memory
<1> QED BY <1>1, GeneratorInvariant, PTL

\* A draft window never reaches a page that another job holds, or past the pages
\* of its job: the assertion of get_input_ids_list never fails.
THEOREM GeneratorWindowAlone ==
  Spec => []WindowAlone
BY WindowsFollow, GeneratorInvariant, PTL
=============================================================================
