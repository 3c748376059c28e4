--------------------------- MODULE ContentProofs ---------------------------
(***************************************************************************)
(* What is in the pages, in the server's settings: a model with recurrent  *)
(* layers and one job at a time.  ContentInv says what every hash promises *)
(* and what the pages of the running job hold; with IInv of                *)
(* GeneratorProofs it is inductive.  As there is one job, a page that is   *)
(* referenced is that job's, so that no step can disturb it but the job's  *)
(* own; what is left is that the job's writes keep the promises of its     *)
(* pages, and that an unreferenced page keeps its own.                     *)
(***************************************************************************)
EXTENDS GeneratorProofs

\* What a page, or a state of it that revert() may bring back, promises of the
\* K/V behind it when it is complete under a content hash.
Promise(x, k) ==
  Len(x.toks) = PageSize /\ IsContent(x.hash) =>
    /\ x.hash = x.prev \o x.toks
    /\ Rooted(x.hash) =>
         \A s \in 1 .. PageSize : k[s] = SubSeq(x.hash, 1, Len(x.hash) - PageSize + s)

PageSound(x, k) == \A y \in x.saved \cup {x} : Promise(y, k)
Promises == \A p \in Pages : PageSound(table[p], kv[p])

\* Slot s of the page with index i holds the token and the K/V of its position.
Holds(j, i, s) ==
  LET p == PageAt(j, i)
      x == i * PageSize + s
  IN  /\ s <= Len(table[p].toks) /\ table[p].toks[s] = job[j].ids[x]
      /\ kv[p][s] = SubSeq(job[j].ids, 1, x)
Filling(j) ==
  \A i \in 0 .. Len(job[j].pages) - 1 : \A s \in 1 .. PageSize :
    i * PageSize + s <= job[j].kvp => Holds(j, i, s)

\* A rooted hash spells the sequence.
Spelled(j) == \A i \in 1 .. Done(j) : Rooted(Own(j, i).hash) => Own(j, i).hash = PageHash(j, i)

\* Behind the job's position its own pages are empty.
Empty(j) ==
  \A i \in FirstPage(j) .. Len(job[j].pages) - 1 :
    i >= HashedPages(j) =>
      Len(table[PageAt(j, i)].toks) = IF i = FirstPage(j) THEN job[j].kvp % PageSize ELSE 0

\* The page a job samples into is linked to the one before it.
Linked(j) ==
  PrefillDone(j) => table[PageAt(j, FirstPage(j))].prev = HashBefore(j, FirstPage(j))

Sound(j) == Filling(j) /\ Spelled(j) /\ Empty(j) /\ Linked(j)

\* While pages are claimed, the first page without a hash is linked already.
LinkedFrom(t, pages, h) ==
  Len(pages) > h =>
    t[pages[h + 1]].prev = IF h > 0 /\ Complete(t, pages[h]) THEN t[pages[h]].hash ELSE Root
LinkingOf(j) == LinkedFrom(table, job[j].pages, HashedPages(j))
Linking == phase = "claim" => LinkingOf(Starting)

Contents == Promises /\ (\A j \in Running : Sound(j)) /\ Linking
ContentInv == Contents /\ ~failed

-----------------------------------------------------------------------------
(* One job.                                                                *)

\* The active job is the only one, and what is referenced is its page.
LEMMA Alone ==
  ASSUME IInv, MaxBatch = 1, NEW j \in ToSet(active)
  PROVE  /\ j \in Jobs /\ j = Starting /\ \A k \in ToSet(active) : k = j
         /\ \A k \in Jobs : job[k].pages # <<>> => k = j
         /\ \A p \in Pages : table[p].refs \in {0, 1} /\ (table[p].refs > 0 <=> p \in ToSet(job[j].pages))
<1>1. Queues /\ JobsOk /\ QueueTypes /\ JobTypes /\ RefCounts
  BY DEF IInv, Queues, JobsOk, Memory
<1>2. active \in Seq(Jobs) /\ Len(active) = 1 /\ active[1] = j /\ j \in Jobs
  <2>1. active \in Seq(Jobs) /\ Len(active) \in Nat /\ Len(active) <= 1 /\ DOMAIN active = 1 .. Len(active)
    BY <1>1 DEF QueueTypes
  <2>2. PICK i \in DOMAIN active : active[i] = j
    BY DEF ToSet
  <2>3. i = 1 /\ Len(active) = 1
    BY <2>1, <2>2
  <2> QED BY <2>1, <2>2, <2>3
<1>3. Starting = j /\ \A k \in ToSet(active) : k = j
  BY <1>2 DEF Starting, Last, ToSet
<1>4. ASSUME NEW k \in Jobs, job[k].pages # <<>> PROVE k = j
  <2>1. StateOf(k) = "active"
    BY <1>1, <1>4 DEF JobsOk, JobShape, Started, StateOf
  <2> QED BY <1>1, <1>3, <2>1 DEF Queues
<1>5. ASSUME NEW p \in Pages
      PROVE  table[p].refs \in {0, 1} /\ (table[p].refs > 0 <=> p \in ToSet(job[j].pages))
  <2>1. Holders(p) \subseteq {j}
    <3>1. \A k \in Jobs : p \in ToSet(job[k].pages) => job[k].pages # <<>>
      BY ToSetEmpty
    <3> QED BY <1>4, <3>1 DEF Holders
  <2>2. Holders(p) = {} \/ Holders(p) = {j}
    BY <2>1
  <2>3. Cardinality({}) = 0 /\ Cardinality({j}) = 1
    BY FS_EmptySet, FS_Singleton
  <2>4. table[p].refs = Cardinality(Holders(p)) /\ (j \in Holders(p) <=> p \in ToSet(job[j].pages))
    BY <1>1, <1>2, Held DEF Holders
  <2> QED BY <2>2, <2>3, <2>4
<1> QED BY <1>2, <1>3, <1>4, <1>5

\* While a job starts or ends, none runs.
LEMMA NoneRuns ==
  IInv /\ MaxBatch = 1 /\ (phase = "claim" \/ active = <<>> \/ finished # <<>>) => Running = {}
<1> SUFFICES ASSUME IInv, MaxBatch = 1, phase = "claim" \/ active = <<>> \/ finished # <<>>
             PROVE  Running = {}
  OBVIOUS
<1>1. Queues /\ QueueTypes
  BY DEF IInv, Queues
<1>2. CASE active = <<>>
  BY <1>2, ToSetEmpty DEF Running, Working
<1>3. CASE active # <<>>
  <2>1. PICK j : j \in ToSet(active)
    BY <1>1, <1>3, SeqTail DEF QueueTypes
  <2>2. \A k \in ToSet(active) : k = j /\ k = Starting
    BY <2>1, Alone
  <2>3. CASE phase = "claim"
    BY <2>2, <2>3 DEF Running, Working
  <2>4. CASE finished # <<>>
    <3>1. finished[1] \in ToSet(finished) /\ ToSet(finished) \subseteq ToSet(active)
      BY <1>1, <2>4, SeqTail DEF Queues, QueueTypes
    <3> QED BY <2>2, <3>1 DEF Running, Working
  <2> QED BY <1>3, <2>3, <2>4
<1> QED BY <1>2, <1>3

\* Neither after the step that begins it.
LEMMA NoneRunsNext ==
  IInv' /\ MaxBatch = 1 /\ (phase' = "claim" \/ active' = <<>> \/ finished' # <<>>) => Running' = {}
<1>1. (IInv /\ MaxBatch = 1 /\ (phase = "claim" \/ active = <<>> \/ finished # <<>>) => Running = {})'
  BY NoneRuns, PTL
<1> QED BY <1>1

-----------------------------------------------------------------------------
(* Promises.                                                               *)

\* A page that is not complete, or has a random hash, and nothing to go back to
\* promises nothing.
LEMMA Unpromised ==
  ASSUME NEW x, x.saved = {}, Len(x.toks) # PageSize \/ Len(x.hash) = 1, NEW k
  PROVE  PageSound(x, k)
<1>1. ~(1 >= PageSize)
  BY PageTableAssumption
<1>2. Promise(x, k)
  BY <1>1 DEF Promise, IsContent
<1> QED BY <1>2 DEF PageSound

\* A page promises what it promised when its fields are the same.
LEMMA PromiseSame ==
  ASSUME NEW x, NEW y, NEW k, y.hash = x.hash, y.prev = x.prev, y.toks = x.toks, Promise(x, k)
  PROVE  Promise(y, k)
BY DEF Promise

\* And with other K/V, when those of a complete page are the same.
LEMMA PromiseKv ==
  ASSUME NEW x, NEW k, NEW u, Len(x.toks) = PageSize => \A s \in 1 .. PageSize : u[s] = k[s], Promise(x, k)
  PROVE  Promise(x, u)
<1>1. CASE Len(x.toks) = PageSize /\ IsContent(x.hash) /\ Rooted(x.hash)
  BY <1>1 DEF Promise
<1> QED BY <1>1 DEF Promise

\* A page that can go back to no more than before, and nothing else changed.
LEMMA SoundSame ==
  ASSUME NEW x, NEW y, NEW k, y.hash = x.hash, y.prev = x.prev, y.toks = x.toks, y.saved \subseteq x.saved,
         PageSound(x, k)
  PROVE  PageSound(y, k)
<1>1. Promise(y, k)
  BY PromiseSame DEF PageSound
<1> QED BY <1>1 DEF PageSound

\* K/V that a page nobody holds loses were not promised.
LEMMA KeptSound ==
  ASSUME NEW t, TableOk(t), NEW k \in Tensors, NEW p \in Pages, PageSound(t[p], k[p])
  PROVE  PageSound(t[p], Kept(k, t)[p])
<1>1. CASE t[p].refs > 0
  <2>1. Kept(k, t)[p] = k[p]
    BY <1>1 DEF Kept
  <2> QED BY <2>1
<1>2. CASE ~(t[p].refs > 0)
  <2>1. t[p].saved = {}
    BY <1>2 DEF TableOk, PageOk
  <2>2. \A s \in 1 .. PageSize : s <= Len(t[p].toks) => Kept(k, t)[p][s] = k[p][s]
    BY <1>2 DEF Kept
  <2>3. Promise(t[p], k[p])
    BY DEF PageSound
  <2>4. ASSUME Len(t[p].toks) = PageSize PROVE \A s \in 1 .. PageSize : Kept(k, t)[p][s] = k[p][s]
    BY <2>2, <2>4, PageTableAssumption
  <2>5. Promise(t[p], Kept(k, t)[p])
    BY ONLY <2>3, <2>4, PromiseKv
  <2> QED BY <2>1, <2>5 DEF PageSound
<1> QED BY <1>1, <1>2

\* Every page blank.
LEMMA InitContent ==
  Init => ContentInv
<1> SUFFICES ASSUME Init PROVE ContentInv
  OBVIOUS
<1>1. \A p \in Pages : table[p].saved = {} /\ table[p].toks = <<>>
  BY DEF Init, PageTableInit, Blank
<1>2. Promises
  BY <1>1, Unpromised, PageTableAssumption DEF Promises
<1>3. Running = {} /\ phase = "idle" /\ ~failed
  BY ToSetEmpty DEF Init, Running, Working
<1> QED BY <1>2, <1>3 DEF ContentInv, Contents, Linking

\* Steps that leave pages and jobs alone.
LEMMA QuietContent ==
  ASSUME IInv, Contents, Quiet
  PROVE  Contents'
<1>1. Promises'
  BY DEF Contents, Promises, Quiet
<1>2. Linking'
  BY DEF Linking, Quiet
<1>3. ASSUME NEW j \in Running' PROVE Sound(j)'
  <2>1. j \in Running /\ job'[j] = job[j] /\ table' = table /\ kv' = kv
    BY DEF Running, Quiet
  <2>2. Sound(j)
    BY <2>1 DEF Contents
  <2> QED BY <2>1, <2>2 DEF Sound, Filling, Holds, PageAt, Spelled, Done, HashedPages, FirstPage, Own,
       PageHash, Empty, Linked, PrefillDone, HashBefore
<1> QED BY <1>1, <1>2, <1>3 DEF Contents

-----------------------------------------------------------------------------
(* Prefixes.                                                               *)

\* The prefix of a prefix.
LEMMA PrefixOf ==
  ASSUME NEW S, NEW s \in Seq(S), NEW n \in Nat, n <= Len(s), NEW m \in Nat, m <= n
  PROVE  /\ SubSeq(s, 1, n) \in Seq(S) /\ Len(SubSeq(s, 1, n)) = n
         /\ \A i \in 1 .. n : SubSeq(s, 1, n)[i] = s[i]
         /\ SubSeq(SubSeq(s, 1, n), 1, m) = SubSeq(s, 1, m)
<1> DEFINE u == SubSeq(s, 1, n)
<1>1. u \in Seq(S) /\ Len(u) = n /\ \A i \in 1 .. n : u[i] = s[i]
  OBVIOUS
<1> HIDE DEF u
<1>2. SubSeq(s, 1, m) = SubSeq(u, 1, m)
  BY <1>1, SamePrefix
<1> QED BY <1>1, <1>2 DEF u

\* A prefix and what follows it.
LEMMA SplitPrefix ==
  ASSUME NEW S, NEW s \in Seq(S), NEW a \in Nat, NEW b \in Nat, a <= b, b <= Len(s)
  PROVE  SubSeq(s, 1, a) \o SubSeq(s, a + 1, b) = SubSeq(s, 1, b)
<1> DEFINE u == SubSeq(s, 1, a)
           v == SubSeq(s, a + 1, b)
           w == SubSeq(s, 1, b)
<1>1. /\ u \in Seq(S) /\ Len(u) = a /\ (\A i \in 1 .. a : u[i] = s[i])
      /\ w \in Seq(S) /\ Len(w) = b /\ (\A i \in 1 .. b : w[i] = s[i])
  BY PrefixOf
<1>2. v \in Seq(S) /\ Len(v) = b - a /\ \A i \in 1 .. b - a : v[i] = s[a + i]
  BY SubSeqOk
<1> HIDE DEF u, v, w
<1>3. /\ u \o v \in Seq(S) /\ Len(u \o v) = b
      /\ (\A i \in 1 .. a : (u \o v)[i] = s[i]) /\ \A i \in 1 .. b - a : (u \o v)[a + i] = s[a + i]
  <2>1. u \o v \in Seq(S) /\ Len(u \o v) = Len(u) + Len(v)
    BY <1>1, <1>2, Concat
  <2>2. \A i \in 1 .. Len(u) : (u \o v)[i] = u[i]
    BY <1>1, <1>2, Concat
  <2>3. \A i \in 1 .. Len(v) : (u \o v)[Len(u) + i] = v[i]
    BY <1>1, <1>2, Concat
  <2> DEFINE c == u \o v
  <2> HIDE DEF c
  <2>4. Len(c) = b /\ \A i \in 1 .. a : c[i] = s[i]
    BY <1>1, <1>2, <2>1, <2>2 DEF c
  <2>5. \A i \in 1 .. b - a : c[a + i] = s[a + i]
    BY <1>1, <1>2, <2>3 DEF c
  <2> QED BY <2>1, <2>4, <2>5 DEF c
<1>4. \A i \in 1 .. b : (u \o v)[i] = w[i]
  <2> SUFFICES ASSUME NEW i \in 1 .. b PROVE (u \o v)[i] = s[i]
    BY <1>1
  <2>1. CASE i <= a
    BY <1>3, <2>1
  <2>2. CASE ~(i <= a)
    <3>1. i - a \in 1 .. b - a /\ a + (i - a) = i
      BY <2>2
    <3> QED BY <1>3, <3>1
  <2> QED BY <2>1, <2>2
<1>5. u \o v = w
  BY <1>1, <1>3, <1>4, SeqEqual
<1> QED BY <1>5 DEF u, v, w

\* What a complete page under the hash of a prefix holds.
LEMMA HashHolds ==
  ASSUME NEW ids \in Seq(Tokens), NEW n \in Nat, n + PageSize <= Len(ids),
         NEW x \in CachePage, NEW k, Promise(x, k),
         x.hash = SubSeq(ids, 1, n + PageSize), Len(x.toks) = PageSize
  PROVE  \A s \in 1 .. PageSize : x.toks[s] = ids[n + s] /\ k[s] = SubSeq(ids, 1, n + s)
<1> DEFINE h == SubSeq(ids, 1, n + PageSize)
<1>1. PageSize \in Nat /\ PageSize >= 2 /\ Tokens \subseteq Nat
  BY PageTableAssumption
<1>2. /\ h \in Seq(Tokens) /\ Len(h) = n + PageSize /\ (\A i \in 1 .. n + PageSize : h[i] = ids[i])
      /\ \A m \in 0 .. n + PageSize : SubSeq(h, 1, m) = SubSeq(ids, 1, m)
  BY <1>1, PrefixOf
<1> HIDE DEF h
<1>3. x.hash = h /\ x.prev \in Seq(Int) /\ x.toks \in Seq(Tokens) /\ x.toks \in Seq(Int)
  BY TokenSeq DEF h, CachePage
<1>4. IsContent(h) /\ Rooted(h)
  <2>1. h[1] \in Nat
    <3>1. 1 \in 1 .. Len(h) /\ h[1] \in Tokens
      <4>1. 1 \in 1 .. Len(h) /\ h \in Seq(Tokens)
        BY <1>1, <1>2
      <4> QED BY ONLY <4>1
    <3> QED BY <1>1, <3>1
  <2> QED BY <1>1, <1>2, <2>1 DEF IsContent, Rooted
<1>5. h = x.prev \o x.toks /\ \A s \in 1 .. PageSize : k[s] = SubSeq(h, 1, Len(h) - PageSize + s)
  BY <1>3, <1>4 DEF Promise
<1>6. Len(x.prev) \in Nat /\ Len(x.prev) = n /\ \A s \in 1 .. PageSize : h[n + s] = x.toks[s]
  <2> DEFINE a == x.prev
             b == x.toks
  <2>1. a \in Seq(Int) /\ b \in Seq(Int) /\ Len(b) = PageSize /\ h = a \o b
    BY <1>3, <1>5
  <2> HIDE DEF a, b
  <2>2. Len(a \o b) = Len(a) + Len(b) /\ Len(a) \in Nat
    <3>1. Len(a \o b) = Len(a) + Len(b)
      BY ONLY <2>1, Concat
    <3>2. Len(a) \in Nat
      BY ONLY <2>1
    <3> QED BY <3>1, <3>2
  <2>3. \A s \in 1 .. Len(b) : (a \o b)[Len(a) + s] = b[s]
    BY <2>1, Concat
  <2>4. Len(a) = n
    <3> HIDE DEF h
    <3>1. Len(h) = Len(a) + PageSize
      BY <2>1, <2>2
    <3> QED BY <1>1, <1>2, <2>2, <3>1
  <2>5. \A s \in 1 .. PageSize : h[n + s] = b[s]
    BY <2>1, <2>3, <2>4
  <2> QED BY <2>2, <2>4, <2>5 DEF a, b
<1> SUFFICES ASSUME NEW s \in 1 .. PageSize PROVE x.toks[s] = ids[n + s] /\ k[s] = SubSeq(ids, 1, n + s)
  OBVIOUS
<1>7. n + s \in 1 .. n + PageSize /\ n + s \in 0 .. n + PageSize /\ Len(h) - PageSize + s = n + s
  BY <1>1, <1>2
<1> QED BY <1>2, <1>5, <1>6, <1>7

-----------------------------------------------------------------------------
(* Allocation.                                                             *)

\* A job starts without pages.
LEMMA StartContent ==
  ASSUME IInv, IInv', Contents, MaxBatch = 1, StartJob
  PROVE  Contents'
<1> SUFFICES ASSUME NEW j, j = todo[1] PROVE Contents'
  OBVIOUS
<1>1. Queues /\ JobsOk /\ QueueTypes /\ JobTypes
  BY DEF IInv, Queues, JobsOk
<1>2. /\ phase = "start" /\ todo # <<>> /\ phase' = "claim"
      /\ table' = table /\ kv' = kv /\ active' = Append(active, j)
      /\ job' = [k \in Jobs |-> IF k \in skipped THEN [job[k] EXCEPT !.skips = @ + 1]
                                ELSE IF k = j THEN [job[k] EXCEPT !.state = "active"]
                                ELSE job[k]]
  BY DEF StartJob, Turn, At, pageVars
<1>3. j \in ToSet(pending) /\ j \notin skipped /\ j \in Jobs
  BY <1>1, <1>2, SeqTail DEF Queues, QueueTypes
<1>4. StateOf(j) = "queued" /\ Started(j) /\ JobShape(j) /\ job[j].pages = <<>> /\ job[j].prompt \in Nat
  BY <1>1, <1>3 DEF Queues, StateOf, Started, JobsOk, JobShape, JobTypes, Job
<1>5. job'[j].pages = <<>> /\ job'[j].prompt = job[j].prompt /\ Starting' = j
  <2>1. Starting' = j
    BY <1>1, <1>2, <1>3, SeqAppend DEF QueueTypes, Starting
  <2>2. job'[j] = [job[j] EXCEPT !.state = "active"] /\ job[j] \in Job
    BY <1>1, <1>2, <1>3 DEF JobTypes
  <2> QED BY <1>4, <2>1, <2>2, StartedFields
<1>6. HashedPages(j)' \in Nat
  <2>1. HashedPages(j) \in Nat
    BY <1>1, <1>3, <1>4, HashTypes
  <2> QED BY <1>5, <2>1 DEF HashedPages
<1>7. Linking'
  <2>1. LinkingOf(j)'
    <3>1. Len(job'[j].pages) = 0
      BY <1>5
    <3> QED BY <1>6, <3>1 DEF LinkingOf, LinkedFrom
  <2>2. Linking' <=> LinkingOf(j)'
    BY <1>2, <1>5 DEF Linking, LinkingOf
  <2> QED BY <2>1, <2>2
<1>8. Promises'
  BY <1>2 DEF Contents, Promises
<1> QED BY <1>2, <1>7, <1>8, NoneRunsNext DEF Contents

\* One page more.
LEMMA LinkedAppend ==
  ASSUME NEW t, NEW u, NEW b, NEW d, NEW c \in Nat, NEW h \in Nat, NEW p,
         Len(b) = c, Len(d) = c + 1, d[c + 1] = p, \A i \in 1 .. c : d[i] = b[i] /\ u[b[i]] = t[b[i]],
         LinkedFrom(t, b, h),
         c = h => u[p].prev = (IF c > 0 /\ Complete(t, b[c]) THEN t[b[c]].hash ELSE Root)
  PROVE  LinkedFrom(u, d, h)
<1>1. CASE c < h
  BY <1>1 DEF LinkedFrom
<1>2. CASE c = h
  <2>1. h > 0 => h \in 1 .. c
    BY <1>2
  <2> QED BY <1>2, <2>1 DEF LinkedFrom, Complete
<1>3. CASE c > h
  <2>1. h + 1 \in 1 .. c /\ (h > 0 => h \in 1 .. c)
    BY <1>3
  <2> QED BY <1>3, <2>1 DEF LinkedFrom, Complete
<1> QED BY <1>1, <1>2, <1>3

\* A page given to the starting job.
LEMMA ClaimedContent ==
  ASSUME IInv, IInv', Contents, MaxBatch = 1, phase = "claim", NEW j, Starting = j, NEW p \in Pages,
         job' = [job EXCEPT ![j].pages = Append(job[j].pages, p)], p \notin ToSet(job[j].pages),
         active' = active, phase' = phase, kv' = kv,
         \A q \in Pages : q # p => table'[q] = table[q],
         PageSound(table'[p], kv[p]),
         Len(job[j].pages) = HashedPages(j) => table'[p].prev =
           (IF Len(job[j].pages) > 0 /\ Complete(table, job[j].pages[Len(job[j].pages)])
            THEN table[job[j].pages[Len(job[j].pages)]].hash ELSE Root)
  PROVE  Contents'
<1> DEFINE c == Len(job[j].pages)
           H == HashedPages(j)
<1>1. /\ j \in Jobs /\ JobTypes /\ H \in Nat /\ c \in Nat /\ job[j].pages \in Seq(Pages)
  BY ClaimStart
<1>2. Promises'
  <2> SUFFICES ASSUME NEW q \in Pages PROVE PageSound(table'[q], kv'[q])
    BY DEF Promises
  <2>1. CASE q = p
    BY <2>1
  <2>2. CASE q # p
    BY <2>2 DEF Contents, Promises
  <2> QED BY <2>1, <2>2
<1>3. /\ job'[j].pages = Append(job[j].pages, p) /\ job'[j].prompt = job[j].prompt
  BY <1>1 DEF JobTypes, Job
<1>4. /\ Len(job'[j].pages) = c + 1 /\ job'[j].pages[c + 1] = p
      /\ \A i \in 1 .. c : job'[j].pages[i] = job[j].pages[i] /\ job[j].pages[i] \in Pages /\ job[j].pages[i] # p
  BY <1>1, <1>3 DEF ToSet
<1>5. H' = H
  BY <1>3 DEF HashedPages
<1>6. LinkedFrom(table', job'[j].pages, H)
  <2> DEFINE b == job[j].pages
             d == job'[j].pages
             t == table'
  <2>1. /\ \A i \in 1 .. c : d[i] = b[i] /\ t[b[i]] = table[b[i]]
        /\ Len(d) = c + 1 /\ d[c + 1] = p /\ Len(b) = c
    BY <1>4
  <2>2. c = H => t[p].prev = IF c > 0 /\ Complete(table, b[c]) THEN table[b[c]].hash ELSE Root
    OBVIOUS
  <2>3. LinkedFrom(table, b, H)
    BY DEF Contents, Linking, LinkingOf
  <2>4. c \in Nat /\ H \in Nat
    BY <1>1
  <2> HIDE DEF b, d, c, H, t
  <2>5. LinkedFrom(t, d, H)
    BY ONLY <2>1, <2>2, <2>3, <2>4, LinkedAppend
  <2> QED BY <2>5 DEF t, d
<1>7. Linking'
  <2>1. Starting' = j
    BY DEF Starting
  <2>2. LinkingOf(j)'
    BY <1>5, <1>6 DEF LinkingOf
  <2>3. Linking' <=> LinkingOf(j)'
    BY <2>1 DEF Linking, LinkingOf
  <2> QED BY <2>2, <2>3
<1> QED BY <1>2, <1>7, NoneRunsNext DEF Contents

\* A page found under the hash promises what it did.
LEMMA FoundSound ==
  ASSUME TableOk(table), NEW p \in Pages, NEW k, PageSound(table[p], k)
  PROVE  PageSound(AddRef(table, p)[p], k)
<1>1. table \in [Pages -> CachePage] /\ table[p] \in CachePage
  BY DEF TableOk
<1> DEFINE y == AddRef(table, p)[p]
<1>2. y.hash = table[p].hash /\ y.prev = table[p].prev /\ y.toks = table[p].toks /\ y.saved = {}
  BY <1>1 DEF AddRef, CachePage
<1> HIDE DEF y
<1>3. PageSound(y, k)
  BY <1>2, SoundSame
<1> QED BY <1>3 DEF y

\* A page taken for it promises nothing.
LEMMA ClearedSound ==
  ASSUME TableOk(table), NEW p \in Pages, NEW h, NEW k
  PROVE  PageSound(AddRefClear(table, p, h)[p], k)
<1>1. table \in [Pages -> CachePage] /\ table[p] \in CachePage
  BY DEF TableOk
<1> DEFINE y == AddRefClear(table, p, h)[p]
<1>2. y.toks = <<>> /\ y.saved = {}
  BY <1>1 DEF AddRefClear, Blank
<1>3. Len(y.toks) # PageSize
  BY <1>2, PageTableAssumption
<1> HIDE DEF y
<1>4. PageSound(y, k)
  BY <1>2, <1>3, Unpromised
<1> QED BY <1>4 DEF y

\* A hit.
LEMMA ClaimHitContent ==
  ASSUME IInv, IInv', Contents, MaxBatch = 1, ClaimHit
  PROVE  Contents'
<1> SUFFICES ASSUME NEW j, j = Starting PROVE Contents'
  OBVIOUS
<1> DEFINE c == Len(job[j].pages)
<1>1. phase = "claim" /\ Claimed < HashedPages(j)
  BY DEF ClaimHit, At
<1>2. /\ j \in Jobs /\ Started(j) /\ JobShape(j) /\ JobTypes /\ TableOk(table)
      /\ ClaimingOf(j) /\ HashedPages(j) \in Nat /\ HashedPages(j) < TotalPages(job[j].prompt)
      /\ c \in Nat /\ Claimed = c /\ job[j].pages \in Seq(Pages)
  BY <1>1, ClaimStart
<1>3. PICK p \in Under(PageHash(Starting, Claimed + 1), table, Pages) : table' = AddRef(table, p) /\ Take(p)
  BY DEF ClaimHit
<1>4. p \in Pages /\ table[p].hash = PageHash(j, c + 1) /\ c + 1 \in 1 .. HashedPages(j)
  BY <1>1, <1>2, <1>3 DEF Under
<1>5. p \notin ToSet(job[j].pages)
  <2> SUFFICES ASSUME p \in ToSet(job[j].pages) PROVE FALSE
    OBVIOUS
  <2>1. PICK i \in 1 .. c : job[j].pages[i] = p
    BY <1>2 DEF ToSet
  <2>2. i <= HashedPages(j) /\ i \in 1 .. HashedPages(j) /\ i # c + 1
    BY <1>1, <1>2
  <2>3. Own(j, i).hash = PageHash(j, i)
    BY <1>2, <2>2 DEF ClaimingOf
  <2>4. PageHash(j, i) # PageHash(j, c + 1)
    BY <1>2, <1>4, <2>2, HashTypes
  <2> QED BY <1>4, <2>1, <2>3, <2>4 DEF Own
<1>6. \A q \in Pages : q # p => table'[q] = table[q]
  BY <1>2, <1>3 DEF AddRef, TableOk
<1>7. PageSound(table'[p], kv[p])
  BY <1>2, <1>3, <1>4, FoundSound DEF Contents, Promises
<1>8. job' = [job EXCEPT ![j].pages = Append(job[j].pages, p)] /\ active' = active /\ phase' = phase /\ kv' = kv
  BY <1>3 DEF Take, ClaimHit
<1>9. c # HashedPages(j)
  BY <1>1, <1>2
<1> QED BY <1>1, <1>2, <1>9, <1>4, <1>5, <1>6, <1>7, <1>8, ClaimedContent

\* A miss.
LEMMA ClaimMissContent ==
  ASSUME IInv, IInv', Contents, MaxBatch = 1, ClaimMiss
  PROVE  Contents'
<1> SUFFICES ASSUME NEW j, j = Starting PROVE Contents'
  OBVIOUS
<1> DEFINE c == Len(job[j].pages)
           h == PageHash(j, c + 1)
<1>1. phase = "claim" /\ Claimed < HashedPages(j)
  BY DEF ClaimMiss, At
<1>2. /\ j \in Jobs /\ Started(j) /\ JobShape(j) /\ JobTypes /\ TableOk(table) /\ RefCounts
      /\ HashedPages(j) \in Nat /\ c \in Nat /\ Claimed = c /\ job[j].pages \in Seq(Pages)
  BY <1>1, ClaimStart
<1>3. PICK p \in Evictable : table' = AddRefClear(table, p, h) /\ Take(p)
  BY <1>2 DEF ClaimMiss
<1>4. p \in Pages /\ p \notin ToSet(job[j].pages)
  BY <1>2, <1>3, EvictableFree
<1>5. c # HashedPages(j)
  BY <1>1, <1>2
<1> HIDE DEF h
<1>6. \A q \in Pages : q # p => table'[q] = table[q]
  BY <1>2, <1>3 DEF AddRefClear, TableOk
<1>7. PageSound(table'[p], kv[p])
  BY <1>2, <1>3, <1>4, ClearedSound
<1>8. job' = [job EXCEPT ![j].pages = Append(job[j].pages, p)] /\ active' = active /\ phase' = phase /\ kv' = kv
  BY <1>3 DEF Take, ClaimMiss
<1> QED BY <1>1, <1>2, <1>4, <1>5, <1>6, <1>7, <1>8, ClaimedContent

\* A page of the job's own: what the page was it may become again.
LEMMA ClaimUniqueContent ==
  ASSUME IInv, IInv', Contents, MaxBatch = 1, ClaimUnique
  PROVE  Contents'
<1> SUFFICES ASSUME NEW j, j = Starting PROVE Contents'
  OBVIOUS
<1> DEFINE c == Len(job[j].pages)
           before == job[j].pages[c]
           h == IF c > 0 /\ Complete(table, before) THEN table[before].hash ELSE Root
<1>1. phase = "claim" /\ Claimed >= HashedPages(j) /\ Claimed < TotalPages(job[j].prompt)
  BY DEF ClaimUnique, At
<1>2. /\ j \in Jobs /\ Started(j) /\ JobShape(j) /\ JobTypes /\ TableOk(table) /\ RefCounts
      /\ c \in Nat /\ Claimed = c /\ job[j].pages \in Seq(Pages)
  BY <1>1, ClaimStart
<1>3. PICK p \in Evictable : table' = [AddRefUnique(table, p) EXCEPT ![p].prev = h] /\ Take(p)
  BY <1>2 DEF ClaimUnique
<1>4. p \in Pages /\ p \notin ToSet(job[j].pages)
  BY <1>2, <1>3, EvictableFree
<1>5. h \in Seq(Int)
  <2>1. CASE c > 0
    <3>1. before \in Pages
      BY <1>2, <2>1
    <3> HIDE DEF before
    <3>2. table[before].hash \in Seq(Int)
      BY <1>2, <3>1 DEF TableOk, CachePage
    <3> QED BY <3>2 DEF Root
  <2>2. CASE ~(c > 0)
    BY <2>2 DEF Root
  <2> QED BY <2>1, <2>2
<1>6. /\ \A q \in Pages : q # p => table'[q] = table[q]
      /\ Len(table'[p].hash) = 1 /\ table'[p].toks = <<>> /\ table'[p].prev = h
      /\ table'[p].saved = {[hash |-> table[p].hash, prev |-> table[p].prev, toks |-> table[p].toks]}
  <2> HIDE DEF h
  <2> DEFINE u == [AddRefUnique(table, p) EXCEPT ![p].prev = h]
  <2>1. TableOk(table) /\ p \in Pages /\ h \in Seq(Int)
    BY <1>2, <1>4, <1>5
  <2>2. /\ TableOk(u) /\ (\A q \in Pages : q # p => u[q] = table[q])
        /\ Len(u[p].hash) = 1 /\ u[p].toks = <<>> /\ u[p].prev = h
    BY <2>1, AddRefUniqueOk
  <2>3. TableOk(u) /\ u[p].saved = {[hash |-> table[p].hash, prev |-> table[p].prev, toks |-> table[p].toks]}
    BY <2>1, AddRefUniqueOk
  <2>4. table' = u
    BY <1>3
  <2> HIDE DEF u
  <2> QED BY <2>2, <2>3, <2>4
<1>7. PageSound(table'[p], kv[p])
  <2> DEFINE y == table'[p]
             s == [hash |-> table[p].hash, prev |-> table[p].prev, toks |-> table[p].toks]
  <2>1. s.hash = table[p].hash /\ s.prev = table[p].prev /\ s.toks = table[p].toks
    OBVIOUS
  <2>2. Len(y.hash) = 1 /\ y.saved = {s}
    BY <1>6
  <2>3. Promise(table[p], kv[p])
    BY <1>4 DEF Contents, Promises, PageSound
  <2> HIDE DEF y, s
  <2>4. Promise(s, kv[p])
    BY <2>1, <2>3, PromiseSame
  <2>5. ~(1 >= PageSize)
    BY PageTableAssumption
  <2>6. Promise(y, kv[p])
    BY <2>2, <2>5 DEF Promise, IsContent
  <2>7. PageSound(y, kv[p])
    BY <2>2, <2>4, <2>6 DEF PageSound
  <2> QED BY <2>7 DEF y
<1>8. job' = [job EXCEPT ![j].pages = Append(job[j].pages, p)] /\ active' = active /\ phase' = phase /\ kv' = kv
  BY <1>3 DEF Take, ClaimUnique
<1> QED BY <1>1, <1>2, <1>4, <1>6, <1>7, <1>8, ClaimedContent

\* The pages counted as cached are complete.
LEMMA CachedComplete ==
  ASSUME NEW pages, Len(pages) \in Nat, DOMAIN pages = 1 .. Len(pages), NEW n \in Nat, n <= Cached(pages)
  PROVE  \A i \in 1 .. n : Complete(table, pages[i])
<1> DEFINE S == {i \in DOMAIN pages : \A k \in 1 .. i : Complete(table, pages[k])}
<1> SUFFICES ASSUME NEW i \in 1 .. n, ~Complete(table, pages[i]) PROVE FALSE
  OBVIOUS
<1>1. S \subseteq 1 .. i - 1
  <2> SUFFICES ASSUME NEW x \in S PROVE x \in 1 .. i - 1
    OBVIOUS
  <2>1. x \in Nat /\ x >= 1 /\ \A k \in 1 .. x : Complete(table, pages[k])
    OBVIOUS
  <2> QED BY <2>1
<1>2. IsFiniteSet(1 .. i - 1) /\ Cardinality(1 .. i - 1) = i - 1
  BY CardinalityUpto
<1>3. Cardinality(S) <= i - 1 /\ Cardinality(S) \in Nat
  BY <1>1, <1>2, FS_Subset, FS_CardinalityType
<1>4. Cached(pages) = Cardinality(S)
  BY DEF Cached
<1> QED BY <1>3, <1>4

\* A slot in front of a page boundary is in a page in front of it.
LEMMA InFront ==
  ASSUME NEW i \in Nat, NEW s \in 1 .. PageSize, NEW n \in Nat, i * PageSize + s <= n * PageSize
  PROVE  i < n /\ i * PageSize \in Nat /\ i * PageSize + PageSize <= n * PageSize
<1>1. PageSize \in Nat /\ i * PageSize \in Nat /\ n * PageSize \in Nat
  BY MultMono, PageTableAssumption
<1>2. (n <= i => n * PageSize <= i * PageSize) /\ (i < n => i * PageSize + PageSize <= n * PageSize)
  BY MultMono
<1> QED BY <1>1, <1>2

\* The job goes on behind complete pages under the hashes of its prompt.
LEMMA ClaimOverContent ==
  ASSUME IInv, IInv', Contents, MaxBatch = 1, ClaimOver
  PROVE  Contents'
<1> SUFFICES ASSUME NEW j, j = Starting PROVE Contents'
  OBVIOUS
<1> DEFINE c == Len(job[j].pages)
           H == HashedPages(j)
           ids == job[j].ids
           b == job[j].pages
<1>1. phase = "claim" /\ Claimed = TotalPages(job[j].prompt) /\ phase' = "start"
  BY DEF ClaimOver, At
<1>2. /\ j \in Jobs /\ Started(j) /\ JobShape(j) /\ JobTypes /\ TableOk(table) /\ ClaimingOf(j)
      /\ H \in Nat /\ H < c /\ c \in Nat /\ Claimed = c /\ c = TotalPages(job[j].prompt)
      /\ job[j].pages \in Seq(Pages)
  BY <1>1, ClaimStart
<1>3. PICK n \in 0 .. Cached(job[j].pages) : job' = [job EXCEPT ![j].kvp = n * PageSize]
  BY DEF ClaimOver
<1>4. Cached(b) \in Nat /\ Cached(b) <= H
  <2>1. JobsOk /\ Claiming
    BY DEF IInv, Memory
  <2> QED BY <1>1, <1>2, <2>1, CachedBound
<1>5. n \in Nat /\ n <= H
  BY <1>2, <1>4
<1>6. n * PageSize \in Nat /\ (n * PageSize) \div PageSize = n /\ (n * PageSize) % PageSize = 0
  BY <1>5, DivOfMult
<1>7. /\ job'[j].pages = b /\ job'[j].ids = ids /\ job'[j].prompt = job[j].prompt
      /\ job'[j].kvp = n * PageSize
  BY <1>2, <1>3 DEF JobTypes, Job
<1>8. table' = table /\ kv' = kv /\ active' = active /\ finished' = finished
  BY DEF ClaimOver, pageVars
<1>9. Promises' /\ Linking'
  BY <1>1, <1>8 DEF Contents, Promises, Linking
<1>10. \A k \in Running' : k = j
  <2>1. Queues
    BY DEF IInv
  <2>2. j \in ToSet(active)
    BY <1>1, <1>2, <2>1, StarterRuns DEF Queues
  <2> QED BY <1>8, <2>2, Alone DEF Running, Working
<1>11. \A i \in 1 .. n : Complete(table, b[i])
  BY <1>2, <1>4, <1>5, CachedComplete, PageIn
<1>12. /\ ids \in Seq(Tokens) /\ Len(ids) = job[j].prompt /\ job[j].prompt \in Nat /\ job[j].prompt >= 1
       /\ H * PageSize <= job[j].prompt - 1 /\ H * PageSize \in Nat
  BY <1>2, <1>5, HashedBounds, MultMono DEF JobTypes, Job, JobShape, ClaimingOf
<1>13. FirstPage(j)' = n /\ HashedPages(j)' = H
  <2>1. FirstPage(j)' = n
    BY <1>6, <1>7 DEF FirstPage
  <2>2. HashedPages(j)' = H
    BY <1>7 DEF HashedPages
  <2> QED BY <2>1, <2>2
<1>14. ASSUME NEW i \in 0 .. c - 1, NEW s \in 1 .. PageSize, i * PageSize + s <= n * PageSize
       PROVE  Holds(j, i, s)
  <2> DEFINE p == PageAt(j, i)
  <2>1. i < n /\ i \in Nat /\ i * PageSize \in Nat /\ i * PageSize + PageSize <= n * PageSize
    BY <1>2, <1>5, <1>14, InFront
  <2>2. p = b[i + 1] /\ p \in Pages /\ i + 1 \in 1 .. n /\ i + 1 \in 1 .. c /\ i + 1 <= H
    BY <1>2, <1>5, <2>1 DEF PageAt
  <2>3. table[p] \in CachePage /\ Len(table[p].toks) = PageSize
    BY <1>2, <1>11, <2>2 DEF TableOk, Complete
  <2>4. table[p].hash = PageHash(j, i + 1)
    BY <1>2, <2>2 DEF ClaimingOf, Own
  <2>5. PageHash(j, i + 1) = SubSeq(ids, 1, i * PageSize + PageSize)
    BY <2>1, MultMono DEF PageHash
  <2>6. i * PageSize + PageSize <= Len(ids)
    <3>1. n * PageSize <= H * PageSize
      BY <1>2, <1>5, MultMono
    <3> QED BY <1>6, <1>12, <2>1, <3>1, PageTableAssumption
  <2>7. Promise(table[p], kv[p])
    BY <2>2 DEF Contents, Promises, PageSound
  <2> DEFINE m == i * PageSize
             x == table[p]
             k == kv[p]
  <2>8. /\ ids \in Seq(Tokens) /\ m \in Nat /\ m + PageSize <= Len(ids) /\ x \in CachePage /\ Promise(x, k)
        /\ x.hash = SubSeq(ids, 1, m + PageSize) /\ Len(x.toks) = PageSize
    BY <1>12, <2>1, <2>3, <2>4, <2>5, <2>6, <2>7
  <2> HIDE DEF p, ids, m, x, k
  <2>9. x.toks[s] = ids[m + s] /\ k[s] = SubSeq(ids, 1, m + s)
    BY <2>8, HashHolds
  <2> QED BY <2>3, <2>9 DEF Holds, p, ids, m, x, k
<1>15. Filling(j)'
  BY <1>7, <1>8, <1>14 DEF Filling, Holds, PageAt
<1>16. Spelled(j)'
  <2>1. Done(j)' = H
    BY <1>2, <1>5, <1>13 DEF Done, Larger
  <2>2. \A i \in 1 .. H : Own(j, i)' = Own(j, i) /\ (PageHash(j, i))' = PageHash(j, i)
    BY <1>7, <1>8 DEF Own, PageHash
  <2>3. \A i \in 1 .. H : Own(j, i).hash = PageHash(j, i)
    BY <1>2 DEF ClaimingOf
  <2> QED BY <2>1, <2>2, <2>3 DEF Spelled
<1>17. Empty(j)'
  <2>1. ASSUME NEW i \in n .. c - 1, i >= H PROVE Len(table[PageAt(j, i)].toks) = 0
    <3>1. i + 1 \in 1 .. c /\ i + 1 > H
      BY <1>2, <1>5, <2>1
    <3>2. Own(j, i + 1).toks = <<>>
      BY <1>2, <3>1 DEF ClaimingOf
    <3> QED BY <3>2 DEF Own, PageAt
  <2>2. \A i : (PageAt(j, i))' = PageAt(j, i)
    BY <1>7 DEF PageAt
  <2> QED BY <1>6, <1>7, <1>8, <1>13, <2>1, <2>2 DEF Empty
<1>18. Linked(j)'
  <2> SUFFICES ASSUME PrefillDone(j)' PROVE table[PageAt(j, n)].prev = HashBefore(j, n)
    BY <1>7, <1>8, <1>13 DEF Linked, PageAt, HashBefore
  <2>1. n * PageSize = Len(ids) - 1
    BY <1>7 DEF PrefillDone
  <2>2. n = H
    <3>1. H * PageSize < n * PageSize + PageSize => H <= n
      BY <1>2, <1>5, MultMono
    <3> QED BY <1>2, <1>5, <1>6, <1>12, <2>1, <3>1, PageTableAssumption
  <2>3. LinkedFrom(table, b, H)
    BY <1>1 DEF Contents, Linking, LinkingOf
  <2>4. n > 0 => Complete(table, b[n])
    BY <1>5, <1>11
  <2>5. table[b[n + 1]].prev = IF n > 0 THEN table[b[n]].hash ELSE Root
    BY <1>2, <1>5, <2>2, <2>3, <2>4 DEF LinkedFrom
  <2>6. n - 1 + 1 = n
    BY <1>5
  <2> QED BY <1>5, <2>5, <2>6 DEF PageAt, HashBefore
<1>19. Sound(j)'
  BY <1>15, <1>16, <1>17, <1>18 DEF Sound
<1> QED BY <1>9, <1>10, <1>19 DEF Contents

-----------------------------------------------------------------------------
(* A chunk of the prompt.                                                  *)

\* With a recurrent state nothing is passed over, and every chunk has a token.
LEMMA WholeChunk ==
  ASSUME IInv, Hybrid, phase = "prefill", todo # <<>>, NEW j, j = todo[1], ~PrefillDone(j)
  PROVE  From(j) = job[j].kvp /\ From(j) = FirstPage(j) * PageSize /\ From(j) < To(j)
<1>1. j \in Jobs /\ Started(j) /\ JobShape(j) /\ job \in [Jobs -> Job]
  BY PrefillStart DEF JobTypes
<1>2. From(j) = job[j].kvp /\ From(j) \in Nat
  BY <1>1, FromRange
<1>3. /\ job[j].kvp < ChunkEnd(j) /\ ChunkEnd(j) \in Nat
      /\ job[j].kvp = FirstPage(j) * PageSize
  BY <1>1, ChunkRange
<1>4. From(j) < To(j)
  BY <1>2, <1>3 DEF To
<1> QED BY <1>2, <1>3, <1>4

\* So a job with nothing to prefill is at the end of its prompt.
LEMMA NothingContent ==
  ASSUME IInv, Contents, Hybrid, NothingToPrefill
  PROVE  Contents'
<1> SUFFICES ASSUME NEW j, j = todo[1] PROVE Contents'
  OBVIOUS
<1>1. /\ phase = "prefill" /\ todo # <<>> /\ finished' = finished /\ phase' = "prefill"
      /\ table' = table /\ kv' = kv /\ active' = active
      /\ job' = [job EXCEPT ![j].kvp = IF PrefillDone(j) THEN @ ELSE From(j)]
      /\ PrefillDone(j) \/ To(j) <= From(j)
  BY DEF NothingToPrefill, Turn, At, pageVars
<1>2. PrefillDone(j)
  <2> SUFFICES ASSUME ~PrefillDone(j) PROVE FALSE
    OBVIOUS
  <2>1. From(j) < To(j) /\ From(j) \in Nat /\ To(j) \in Nat
    BY <1>1, WholeChunk, PrefillStart
  <2> QED BY <1>1, <2>1
<1>3. job' = job
  <2>1. j \in Jobs /\ job \in [Jobs -> Job]
    BY <1>1, TurnRuns DEF IInv, JobsOk, JobTypes, Turn
  <2> QED BY <1>1, <1>2, <2>1 DEF Job
<1>4. Quiet
  BY <1>1, <1>3 DEF Quiet, Working
<1> QED BY <1>4, QuietContent

\* w holds what the forward pass writes over k: the slots of the positions from
\* x to y - 1, and nothing else.
Overlaid(w, k, j, ids, x, y) ==
  /\ \A i \in 0 .. Len(job[j].pages) - 1 : \A s \in 1 .. PageSize :
       w[PageAt(j, i)][s] = IF x < i * PageSize + s /\ i * PageSize + s <= y
                            THEN SubSeq(ids, 1, i * PageSize + s) ELSE k[PageAt(j, i)][s]
  /\ \A p \in Pages :
       (\A i \in 0 .. Len(job[j].pages) - 1 :
          x < i * PageSize + PageSize /\ i * PageSize < y => p # PageAt(j, i)) => w[p] = k[p]

\* The forward pass does.
LEMMA ForwardSlots ==
  ASSUME NEW k \in Tensors, NEW j, NEW ids, NEW x \in Nat, NEW y \in Nat, Len(job[j].pages) \in Nat,
         \A i \in 0 .. Len(job[j].pages) - 1 : PageAt(j, i) \in Pages,
         \A a, b \in 0 .. Len(job[j].pages) - 1 : PageAt(j, a) = PageAt(j, b) => a = b,
         \A n \in x .. y - 1 : n \div PageSize \in 0 .. Len(job[j].pages) - 1
  PROVE  Overlaid(Forward(k, j, ids, x, y), k, j, ids, x, y)
<1> DEFINE At_(p, s) == {n \in x .. y - 1 : PageAt(j, n \div PageSize) = p /\ n % PageSize = s - 1}
           L == Len(job[j].pages)
<1>1. \A p \in Pages : Forward(k, j, ids, x, y)[p] =
        [s \in 1 .. PageSize |-> IF At_(p, s) = {} THEN k[p][s]
                                 ELSE SubSeq(ids, 1, (CHOOSE n \in At_(p, s) : TRUE) + 1)]
  BY DEF Forward
<1>2. ASSUME NEW i \in 0 .. L - 1, NEW s \in 1 .. PageSize
      PROVE  /\ i * PageSize \in Nat /\ At_(PageAt(j, i), s) \subseteq {i * PageSize + s - 1}
             /\ x < i * PageSize + s /\ i * PageSize + s <= y
                  <=> At_(PageAt(j, i), s) = {i * PageSize + s - 1}
  <2>1. i \in Nat /\ i * PageSize \in Nat /\ PageSize \in Nat
    BY MultMono, PageTableAssumption
  <2> DEFINE m == i * PageSize
  <2>2. ASSUME NEW n \in At_(PageAt(j, i), s) PROVE n = m + s - 1
    <3>1. n \div PageSize = i /\ n % PageSize = s - 1 /\ n \in Nat
      OBVIOUS
    <3>2. n = (n \div PageSize) * PageSize + (n % PageSize)
      BY <3>1, DivBounds
    <3> QED BY <2>1, <3>1, <3>2
  <2>3. ASSUME x < m + s, m + s <= y PROVE m + s - 1 \in At_(PageAt(j, i), s)
    <3>1. m + s - 1 \in x .. y - 1 /\ m + s - 1 \in Nat /\ m <= m + s - 1 /\ m + s - 1 < m + PageSize
      <4> HIDE DEF m
      <4> QED BY <2>1, <2>3 DEF m
    <3> DEFINE n == m + s - 1
    <3>2. n \in Nat /\ i \in Nat /\ i * PageSize <= n /\ n < i * PageSize + PageSize
      BY <2>1, <3>1
    <3> HIDE DEF n
    <3>3. n \div PageSize = i /\ n % PageSize = n - i * PageSize
      BY <3>2, DivUnique
    <3>4. n - i * PageSize = s - 1
      <4> HIDE DEF m
      <4>1. n = m + s - 1 /\ m \in Nat
        BY <2>1 DEF n, m
      <4> QED BY <4>1 DEF m
    <3> QED BY <3>1, <3>3, <3>4 DEF n
  <2>4. x <= m + s - 1 /\ m + s - 1 <= y - 1 => x < m + s /\ m + s <= y
    <3> HIDE DEF m
    <3>1. m \in Nat
      BY <2>1 DEF m
    <3> QED BY <3>1
  <2>5. m + s - 1 \in At_(PageAt(j, i), s) => x <= m + s - 1 /\ m + s - 1 <= y - 1
    OBVIOUS
  <2> HIDE DEF m, At_
  <2>6. /\ At_(PageAt(j, i), s) \subseteq {m + s - 1}
        /\ (x < m + s /\ m + s <= y <=> At_(PageAt(j, i), s) = {m + s - 1})
    BY <2>2, <2>3, <2>4, <2>5
  <2> QED BY <2>1, <2>6 DEF m
<1>3. ASSUME NEW i \in 0 .. L - 1, NEW s \in 1 .. PageSize
      PROVE  Forward(k, j, ids, x, y)[PageAt(j, i)][s] =
                IF x < i * PageSize + s /\ i * PageSize + s <= y THEN SubSeq(ids, 1, i * PageSize + s)
                ELSE k[PageAt(j, i)][s]
  <2> DEFINE m == i * PageSize
             p == PageAt(j, i)
             A == At_(p, s)
  <2>1. /\ A \subseteq {m + s - 1} /\ (x < m + s /\ m + s <= y <=> A = {m + s - 1}) /\ m \in Nat
    BY <1>2
  <2>2. Forward(k, j, ids, x, y)[p][s] =
          IF A = {} THEN k[p][s] ELSE SubSeq(ids, 1, (CHOOSE n \in A : TRUE) + 1)
    <3>1. p \in Pages
      OBVIOUS
    <3> HIDE DEF p, At_
    <3>2. Forward(k, j, ids, x, y)[p] =
            [z \in 1 .. PageSize |-> IF At_(p, z) = {} THEN k[p][z]
                                     ELSE SubSeq(ids, 1, (CHOOSE n \in At_(p, z) : TRUE) + 1)]
      BY <1>1, <3>1
    <3> QED BY <3>2
  <2> HIDE DEF A
  <2>3. A # {} => A = {m + s - 1} /\ (CHOOSE n \in A : TRUE) + 1 = m + s
    <3> SUFFICES ASSUME A # {} PROVE A = {m + s - 1} /\ (CHOOSE n \in A : TRUE) + 1 = m + s
      OBVIOUS
    <3>1. A = {m + s - 1}
      BY <2>1
    <3> DEFINE c == CHOOSE n \in A : TRUE
    <3>2. c \in A
      BY <3>1
    <3>3. c = m + s - 1
      BY <3>1, <3>2
    <3> HIDE DEF c, m
    <3>4. c + 1 = m + s
      BY <2>1, <3>3
    <3> QED BY <3>1, <3>4 DEF c
  <2>4. x < m + s /\ m + s <= y <=> A # {}
    BY <2>1, <2>3
  <2> HIDE DEF m, p
  <2> QED BY <2>2, <2>3, <2>4 DEF m, p
<1>4. ASSUME NEW p \in Pages, \A i \in 0 .. L - 1 : x < i * PageSize + PageSize /\ i * PageSize < y => p # PageAt(j, i)
      PROVE  Forward(k, j, ids, x, y)[p] = k[p]
  <2>1. ASSUME NEW s \in 1 .. PageSize PROVE At_(p, s) = {}
    <3> SUFFICES ASSUME NEW n \in x .. y - 1, PageAt(j, n \div PageSize) = p PROVE FALSE
      OBVIOUS
    <3> DEFINE i == n \div PageSize
    <3>1. n \in Nat /\ i \in 0 .. L - 1 /\ x <= n /\ n < y
      OBVIOUS
    <3>2. n = i * PageSize + (n % PageSize) /\ n % PageSize \in 0 .. PageSize - 1 /\ i * PageSize \in Nat
      BY <3>1, DivBounds, MultMono
    <3> DEFINE m == i * PageSize
               r == n % PageSize
    <3>3. n = m + r /\ r \in 0 .. PageSize - 1 /\ m \in Nat /\ PageSize \in Nat /\ n \in Nat
      BY <3>1, <3>2, PageTableAssumption
    <3> HIDE DEF m, r
    <3>4. x < m + PageSize /\ m < y
      BY <3>1, <3>3
    <3> QED BY <1>4, <3>1, <3>4 DEF m
  <2>2. k[p] = [s \in 1 .. PageSize |-> k[p][s]]
    BY DEF Tensors
  <2> HIDE DEF At_
  <2> QED BY <1>1, <2>1, <2>2
<1> QED BY <1>3, <1>4 DEF Overlaid

\* What the chunk leaves in the page with index i.
ChunkOf(j, i) ==
  LET x == table'[PageAt(j, i)]
      b == Smaller((i + 1) * PageSize, To(j))
  IN  /\ x.hash = table[PageAt(j, i)].hash /\ x.prev = HashBefore(j, i) /\ x.saved = {}
      /\ x.toks = SubSeq(job[j].ids, i * PageSize + 1, b) /\ i * PageSize <= b
      /\ \A s \in 1 .. PageSize :
           i * PageSize + s <= To(j) => kv'[PageAt(j, i)][s] = SubSeq(job[j].ids, 1, i * PageSize + s)

\* A chunk writes the pages from the job's position on, and no other.
LEMMA ChunkWritten ==
  ASSUME IInv, Hybrid, phase = "prefill", todo # <<>>, NEW j, j = todo[1], ~PrefillDone(j),
         From(j) < To(j), PrefillFrom(j, kv, 0)
  PROVE  /\ \A i \in FirstPage(j) .. To(j) \div PageSize : ChunkOf(j, i)
         /\ \A p \in Pages : (\A i \in FirstPage(j) .. To(j) \div PageSize : p # PageAt(j, i))
                             => table'[p] = table[p] /\ kv'[p] = kv[p]
<1> DEFINE F == FirstPage(j)
           G == To(j) \div PageSize
           y == To(j)
           x == From(j)
           L == Len(job[j].pages)
           ids == job[j].ids
           B(i) == Smaller((i + 1) * PageSize, y)
           s_(i) == SubSeq(ids, i * PageSize + 1, B(i))
<1>1. /\ j \in Jobs /\ JobTypes /\ TableOk(table) /\ RefCounts /\ kv \in Tensors
      /\ ids \in Seq(Tokens) /\ Len(ids) = job[j].prompt /\ job[j].prompt \in Nat
      /\ y \in Nat /\ y <= Len(ids) /\ G \in Nat /\ G < L /\ L \in Nat /\ F \in Nat
  <2>1. y \in Nat /\ y <= job[j].prompt - 1 /\ Len(ids) = job[j].prompt /\ job[j].prompt \in Nat
    BY PrefillStart
  <2>2. y <= Len(ids)
    BY <2>1
  <2> QED BY <2>1, <2>2, PrefillStart
<1>2. x = F * PageSize /\ x \in Nat /\ x \div PageSize = F /\ F <= G
  <2>1. x = F * PageSize
    BY WholeChunk
  <2>2. x \div PageSize = F /\ x \in Nat
    BY <1>1, <2>1, DivOfMult
  <2>3. F <= G
    <3>1. F * PageSize <= y
      BY <1>1, <2>1, <2>2
    <3> QED BY <1>1, <3>1, DivBounds
  <2> QED BY <2>1, <2>2, <2>3
<1>3. OwnPages(j) = F .. G
  <2>1. Smaller(G, L - 1) = G
    BY <1>1 DEF Smaller
  <2> QED BY <1>2, <2>1 DEF OwnPages
<1>4. table' = Filled(j) /\ kv' = Forward(kv, j, ids, x, y)
  <2>1. x + 0 = x
    BY <1>2
  <2> QED BY <2>1 DEF PrefillFrom
<1>5. /\ \A i \in 0 .. L - 1 : PageAt(j, i) \in Pages
      /\ \A a, b \in 0 .. L - 1 : PageAt(j, a) = PageAt(j, b) => a = b
  <2>1. \A i \in 0 .. L - 1 : i + 1 \in 1 .. L
    BY <1>1
  <2>2. \A i \in 0 .. L - 1 : PageAt(j, i) \in Pages
    BY <1>1, <2>1, PageIn DEF PageAt
  <2>3. ASSUME NEW a \in 0 .. L - 1, NEW b \in 0 .. L - 1, PageAt(j, a) = PageAt(j, b) PROVE a = b
    <3>1. a + 1 = b + 1
      BY <1>1, <2>1, <2>3, DistinctPages DEF PageAt
    <3> QED BY <3>1
  <2> QED BY <2>2, <2>3
<1>6. \A n \in x .. y - 1 : n \div PageSize \in 0 .. L - 1
  <2> SUFFICES ASSUME NEW n \in x .. y - 1 PROVE n \div PageSize \in 0 .. L - 1
    OBVIOUS
  <2>1. n \in Nat /\ n <= y
    BY <1>1, <1>2
  <2>2. n \div PageSize \in Nat /\ n \div PageSize <= G
    BY <1>1, <2>1, DivBounds, DivMono
  <2> QED BY <1>1, <2>2
<1>7. /\ \A i \in 0 .. L - 1 : \A s \in 1 .. PageSize :
           kv'[PageAt(j, i)][s] = IF x < i * PageSize + s /\ i * PageSize + s <= y
                                  THEN SubSeq(ids, 1, i * PageSize + s) ELSE kv[PageAt(j, i)][s]
      /\ \A p \in Pages : (\A i \in 0 .. L - 1 : x < i * PageSize + PageSize /\ i * PageSize < y => p # PageAt(j, i))
                          => kv'[p] = kv[p]
  <2> DEFINE w == Forward(kv, j, ids, x, y)
  <2> HIDE DEF x, y, ids
  <2>1. kv \in Tensors /\ x \in Nat /\ y \in Nat /\ L \in Nat
    BY <1>1, <1>2
  <2>2. Overlaid(w, kv, j, ids, x, y)
    BY <1>5, <1>6, <2>1, ForwardSlots
  <2>3. kv' = w
    BY <1>4
  <2> HIDE DEF w
  <2> QED BY <2>2, <2>3 DEF Overlaid
<1>8. ASSUME NEW i \in F .. G PROVE ChunkOf(j, i)
  <2> DEFINE p == PageAt(j, i)
             m == i * PageSize
  <2>1. i \in Nat /\ i \in 0 .. L - 1 /\ p \in Pages /\ i \in OwnPages(j) /\ i <= L
    BY <1>1, <1>3, <1>5
  <2>2. m \in Nat /\ (i + 1) * PageSize = m + PageSize /\ F * PageSize <= m /\ m <= y
    BY <1>1, <2>1, MultMono, DivBounds
  <2>3. B(i) \in Nat /\ m <= B(i) /\ B(i) <= Len(ids)
    <3> DEFINE c == (i + 1) * PageSize
    <3>1. B(i) = Smaller(c, y)
      OBVIOUS
    <3> HIDE DEF B, m, c, y
    <3> QED BY <1>1, <2>2, <3>1, PageTableAssumption DEF Smaller, c
  <2> HIDE DEF B
  <2>4. s_(i) \in Seq(Tokens)
    BY <1>1, <2>2, <2>3, SubSeqOk
  <2>5. table'[p] = [Link(table, p, HashBefore(j, i))[p] EXCEPT !.toks = s_(i)]
    <3> DEFINE at == {a \in OwnPages(j) : PageAt(j, a) = p}
               c == CHOOSE a \in at : TRUE
    <3>1. i \in at /\ c \in at
      BY <2>1
    <3>2. c \in 0 .. L - 1 /\ PageAt(j, c) = PageAt(j, i)
      BY <1>1, <1>3, <3>1
    <3>3. c = i
      BY <1>5, <2>1, <3>2
    <3>4. table'[p] = IF at = {} THEN table[p] ELSE
            [Link(table, p, HashBefore(j, c))[p] EXCEPT !.toks = s_(c)]
      BY <1>4, <2>1 DEF Filled, B
    <3> HIDE DEF c
    <3> QED BY <3>1, <3>3, <3>4
  <2>6. HashBefore(j, i) \in Seq(Int) /\ table \in [Pages -> CachePage]
    BY <1>1, <2>1, HashBeforeType DEF TableOk
  <2> DEFINE h == HashBefore(j, i)
             u == s_(i)
  <2>9. h \in Seq(Int) /\ u \in Seq(Tokens) /\ p \in Pages /\ table \in [Pages -> CachePage]
    BY <2>1, <2>4, <2>6
  <2>10. table'[p] = [Link(table, p, h)[p] EXCEPT !.toks = u]
    BY <2>5
  <2> HIDE DEF p, h, u
  <2>7. /\ table'[p].hash = table[p].hash /\ table'[p].prev = h /\ table'[p].saved = {}
        /\ table'[p].toks = u
    BY <2>9, <2>10, LinkWrite
  <2>8. ASSUME NEW s \in 1 .. PageSize, m + s <= y PROVE kv'[p][s] = SubSeq(ids, 1, m + s)
    <3>1. x < m + s
      <4> DEFINE e == F * PageSize
      <4>1. e \in Nat /\ x = e /\ e <= m /\ m \in Nat
        BY <1>2, <2>2
      <4> HIDE DEF e, m, x
      <4> QED BY <4>1
    <3> QED BY <1>7, <2>1, <2>8, <3>1 DEF p
  <2> QED BY <2>3, <2>7, <2>8 DEF ChunkOf, p, h, u, B
<1>9. ASSUME NEW p \in Pages, \A i \in F .. G : p # PageAt(j, i)
      PROVE  table'[p] = table[p] /\ kv'[p] = kv[p]
  <2>1. table'[p] = table[p]
    <3> DEFINE at == {a \in OwnPages(j) : PageAt(j, a) = p}
    <3>1. at = {}
      BY <1>3, <1>9
    <3>2. table'[p] = IF at = {} THEN table[p] ELSE
            [Link(table, p, HashBefore(j, CHOOSE a \in at : TRUE))[p] EXCEPT
               !.toks = s_(CHOOSE a \in at : TRUE)]
      BY <1>4 DEF Filled
    <3> QED BY <3>1, <3>2
  <2>2. ASSUME NEW i \in 0 .. L - 1, x < i * PageSize + PageSize, i * PageSize < y PROVE i \in F .. G
    <3>0. i \in Nat /\ i + 1 \in Nat
      BY <1>1
    <3>1. i \in Nat /\ i * PageSize \in Nat /\ (i + 1) * PageSize = i * PageSize + PageSize /\ i + 1 \in Nat
      BY <3>0, MultMono
    <3>2. i <= G
      BY <1>1, <2>2, <3>1, DivBounds
    <3>3. F < i + 1
      BY <1>2, <2>2, <3>1, DivBounds
    <3> QED BY <1>1, <3>1, <3>2, <3>3
  <2>3. kv'[p] = kv[p]
    BY <1>7, <1>9, <2>2
  <2> QED BY <2>1, <2>3
<1> QED BY <1>8, <1>9

\* A page with the tokens of a sequence from position n + 1 to position b, with
\* K/V computed from them, and when it is full a random hash or that of the sequence.
SliceOf(x, k, ids, n, b) ==
  /\ x.saved = {} /\ x.toks = SubSeq(ids, n + 1, b)
  /\ \A s \in 1 .. PageSize : n + s <= b => k[s] = SubSeq(ids, 1, n + s)
  /\ b = n + PageSize /\ IsContent(x.hash) => x.hash = SubSeq(ids, 1, b) /\ x.prev = SubSeq(ids, 1, n)

\* It keeps what it promises.
LEMMA SliceSound ==
  ASSUME NEW ids \in Seq(Tokens), NEW n \in Nat, NEW b \in Nat, n <= b, b <= Len(ids), NEW x, NEW k,
         SliceOf(x, k, ids, n, b)
  PROVE  PageSound(x, k)
<1> USE DEF SliceOf
<1> SUFFICES ASSUME Len(x.toks) = PageSize, IsContent(x.hash)
             PROVE  /\ x.hash = x.prev \o x.toks
                    /\ \A s \in 1 .. PageSize : k[s] = SubSeq(x.hash, 1, Len(x.hash) - PageSize + s)
  BY DEF PageSound, Promise
<1>1. PageSize \in Nat
  BY PageTableAssumption
<1>2. b = n + PageSize
  <2>1. Len(x.toks) = b - n
    BY SubSeqOk
  <2> QED BY <1>1, <2>1
<1>3. x.hash = SubSeq(ids, 1, b) /\ x.prev = SubSeq(ids, 1, n)
  BY <1>2
<1>4. x.hash = x.prev \o x.toks
  BY <1>3, SplitPrefix
<1>5. ASSUME NEW s \in 1 .. PageSize PROVE k[s] = SubSeq(x.hash, 1, Len(x.hash) - PageSize + s)
  <2>1. n + s \in Nat /\ n + s <= b
    BY <1>1, <1>2
  <2>2. Len(x.hash) = b /\ SubSeq(x.hash, 1, n + s) = SubSeq(ids, 1, n + s)
    BY <1>3, <2>1, PrefixOf
  <2>3. Len(x.hash) - PageSize + s = n + s
    BY <1>1, <1>2, <2>2
  <2> QED BY <2>1, <2>2, <2>3
<1> QED BY <1>4, <1>5

\* A chunk.
LEMMA PrefillContent ==
  ASSUME IInv, IInv', Contents, Hybrid, MaxBatch = 1, Prefill
  PROVE  Contents'
<1> SUFFICES ASSUME NEW j, j = todo[1] PROVE Contents'
  OBVIOUS
<1> DEFINE F == FirstPage(j)
           G == To(j) \div PageSize
           y == To(j)
           H == HashedPages(j)
           L == Len(job[j].pages)
           ids == job[j].ids
           B(i) == Smaller((i + 1) * PageSize, y)
<1>1. /\ phase = "prefill" /\ todo # <<>> /\ ~PrefillDone(j) /\ PrefillFrom(j, kv, 0)
      /\ active' = active /\ finished' = finished /\ phase' = phase
  <2>1. phase = "prefill" /\ todo # <<>> /\ ~PrefillDone(j) /\ PrefillFrom(j, kv, 0)
    BY DEF Prefill, At, Turn
  <2>2. active' = active /\ finished' = finished /\ phase' = phase
    BY DEF Prefill
  <2> QED BY <2>1, <2>2
<1>2. From(j) < To(j) /\ job[j].kvp = F * PageSize
  BY <1>1, WholeChunk
<1>3. /\ \A i \in F .. G : ChunkOf(j, i)
      /\ \A p \in Pages : (\A i \in F .. G : p # PageAt(j, i)) => table'[p] = table[p] /\ kv'[p] = kv[p]
  BY <1>1, <1>2, ChunkWritten
<1>4. /\ j \in Jobs /\ j \in Running /\ Started(j) /\ JobShape(j) /\ PagesOf(j)
      /\ JobTypes /\ TableOk(table) /\ RefCounts
      /\ ids \in Seq(Tokens) /\ Len(ids) = job[j].prompt /\ job[j].prompt \in Nat
      /\ y \in Nat /\ y < Len(ids) /\ G \in Nat /\ G < L /\ L \in Nat /\ F \in Nat /\ L = TotalPages(job[j].prompt)
  <2>1. y \in Nat /\ y <= job[j].prompt - 1 /\ Len(ids) = job[j].prompt /\ job[j].prompt \in Nat
    BY <1>1, PrefillStart
  <2>2. y < Len(ids)
    BY <2>1
  <2> QED BY <1>1, <2>1, <2>2, PrefillStart
<1>5. F <= G /\ F * PageSize \in Nat /\ F * PageSize <= y
  <2>1. F * PageSize \in Nat /\ F * PageSize <= y
    <3>1. From(j) = F * PageSize /\ F * PageSize \in Nat
      BY <1>1, <1>4, WholeChunk, DivOfMult
    <3> QED BY <1>2, <1>4, <3>1
  <2> QED BY <1>4, <2>1, DivBounds
<1>6. Sound(j) /\ Promises
  BY <1>4 DEF Contents
<1>7. H \in Nat /\ H < L /\ Done(j) = Larger(H, F) /\ Done(j) \in Nat /\ Done(j) < L
  BY <1>4, DoneBounds DEF Done
<1>8. job' = [job EXCEPT ![j].kvp = y]
  BY <1>1 DEF PrefillFrom
<1>9. /\ job'[j].pages = job[j].pages /\ job'[j].ids = ids /\ job'[j].prompt = job[j].prompt
      /\ job'[j].kvp = y
  BY <1>4, <1>8 DEF JobTypes, Job
<1>10. \A i \in 0 .. L - 1 : i + 1 \in 1 .. L /\ PageAt(j, i) \in Pages /\ PageAt(j, i) = job[j].pages[i + 1]
  <2>1. \A i \in 0 .. L - 1 : i + 1 \in 1 .. L
    BY <1>4
  <2> QED BY <1>4, <2>1, PageIn DEF PageAt
<1>11. ASSUME NEW i \in 0 .. L - 1, i \notin F .. G
       PROVE  table'[PageAt(j, i)] = table[PageAt(j, i)] /\ kv'[PageAt(j, i)] = kv[PageAt(j, i)]
  <2> SUFFICES ASSUME NEW x \in F .. G, PageAt(j, i) = PageAt(j, x) PROVE FALSE
    BY <1>3, <1>10
  <2>1. x \in 0 .. L - 1
    BY <1>4
  <2>2. /\ i + 1 \in 1 .. Len(job[j].pages) /\ x + 1 \in 1 .. Len(job[j].pages)
        /\ job[j].pages[i + 1] = job[j].pages[x + 1]
    BY <1>10, <2>1
  <2>3. i + 1 = x + 1
    BY <1>4, <2>2, DistinctPages
  <2>4. i = x
    BY <2>1, <2>3
  <2> QED BY <1>11, <2>4
<1>12. \A i \in 0 .. L - 1 : table'[PageAt(j, i)].hash = table[PageAt(j, i)].hash
  BY <1>3, <1>11 DEF ChunkOf
<1>13. ASSUME NEW i \in F .. G
       PROVE  /\ i \in Nat /\ i \in 0 .. L - 1 /\ i * PageSize \in Nat /\ (i + 1) * PageSize = i * PageSize + PageSize
              /\ B(i) \in Nat /\ B(i) <= Len(ids) /\ i * PageSize <= B(i) /\ B(i) <= y
              /\ \A s \in 1 .. PageSize : i * PageSize + s <= y => i * PageSize + s <= B(i)
              /\ B(i) = i * PageSize + PageSize \/ B(i) = y
  <2>1. i \in Nat /\ i \in 0 .. L - 1
    BY <1>4
  <2>2. i * PageSize \in Nat /\ (i + 1) * PageSize = i * PageSize + PageSize /\ i * PageSize <= B(i)
    BY <1>3, <2>1, MultMono DEF ChunkOf
  <2> DEFINE m == i * PageSize
             c == (i + 1) * PageSize
             b == Smaller(c, y)
  <2>3. B(i) = b /\ c = m + PageSize /\ m \in Nat /\ m <= b /\ PageSize \in Nat
    BY <2>2, PageTableAssumption
  <2> HIDE DEF m, c, B, y
  <2>4. /\ b \in Nat /\ b <= Len(ids) /\ b <= y /\ (b = m + PageSize \/ b = y)
        /\ \A s \in 1 .. PageSize : m + s <= y => m + s <= b
    BY <1>4, <2>3 DEF Smaller
  <2> QED BY <2>1, <2>2, <2>3, <2>4 DEF m
<1> HIDE DEF B
<1>14. ASSUME NEW i \in F .. G, i + 1 <= H
       PROVE  /\ table[PageAt(j, i)].hash = SubSeq(ids, 1, (i + 1) * PageSize)
              /\ HashBefore(j, i) = SubSeq(ids, 1, i * PageSize)
  <2>1. \A x \in 1 .. H : Own(j, x).hash = SubSeq(ids, 1, x * PageSize)
    BY <1>4 DEF PagesOf, PageHash
  <2>2. i \in Nat /\ i + 1 \in 1 .. H
    BY <1>7, <1>13, <1>14
  <2>3. table[PageAt(j, i)].hash = SubSeq(ids, 1, (i + 1) * PageSize)
    BY <2>1, <2>2 DEF Own, PageAt
  <2>4. CASE i = 0
    <3>1. 0 * PageSize = 0 /\ SubSeq(ids, 1, 0) = <<>>
      BY <1>4, PageTableAssumption
    <3> QED BY <2>3, <2>4, <3>1 DEF HashBefore, Root
  <2>5. CASE i # 0
    <3>1. i \in 1 .. H /\ (i - 1) + 1 = i
      BY <1>7, <2>2, <2>5
    <3> QED BY <2>1, <2>3, <2>5, <3>1 DEF HashBefore, Own, PageAt
  <2> QED BY <2>4, <2>5
<1>15. ASSUME NEW i \in F .. G PROVE PageSound(table'[PageAt(j, i)], kv'[PageAt(j, i)])
  <2> DEFINE p == PageAt(j, i)
             m == i * PageSize
             b == B(i)
             x == table'[p]
             k == kv'[p]
  <2>1. /\ x.hash = table[p].hash /\ x.prev = HashBefore(j, i) /\ x.saved = {} /\ x.toks = SubSeq(ids, m + 1, b)
        /\ \A s \in 1 .. PageSize : m + s <= y => k[s] = SubSeq(ids, 1, m + s)
    BY <1>3 DEF ChunkOf, B
  <2>2. m \in Nat /\ b \in Nat /\ m <= b /\ b <= Len(ids) /\ b <= y /\ (i + 1) * PageSize = m + PageSize
    BY <1>13
  <2>3. ASSUME b = m + PageSize, IsContent(x.hash)
        PROVE  x.hash = SubSeq(ids, 1, b) /\ x.prev = SubSeq(ids, 1, m)
    <3>1. Len(x.hash) # 1
      <4>1. ~(1 >= PageSize)
        BY PageTableAssumption
      <4> QED BY <2>3, <4>1 DEF IsContent
    <3>2. i + 1 <= Done(j)
      <4> SUFFICES ASSUME i + 1 > Done(j) PROVE FALSE
        BY <1>7, <1>13
      <4>1. i + 1 \in Done(j) + 1 .. L
        BY <1>7, <1>10, <1>13
      <4>2. Len(Own(j, i + 1).hash) = 1
        BY <1>4, <4>1 DEF PagesOf
      <4> QED BY <2>1, <3>1, <4>2 DEF Own, PageAt
    <3>3. i + 1 <= H
      BY <1>4, <1>7, <1>13, <3>2 DEF Larger
    <3> QED BY <1>14, <2>1, <2>2, <2>3, <3>3
  <2>4. \A s \in 1 .. PageSize : m + s <= b => k[s] = SubSeq(ids, 1, m + s)
    <3> HIDE DEF m, b, k, y, ids
    <3> QED BY <1>4, <2>1, <2>2
  <2> HIDE DEF p, m, b, x, k, ids
  <2>5. PageSound(x, k)
    <3>1. SliceOf(x, k, ids, m, b)
      BY <2>1, <2>3, <2>4 DEF SliceOf
    <3> QED BY <1>4, <2>2, <3>1, SliceSound
  <2> QED BY <2>5 DEF x, k, p
<1>16. Promises'
  <2> SUFFICES ASSUME NEW p \in Pages PROVE PageSound(table'[p], kv'[p])
    BY DEF Promises
  <2>1. CASE \A i \in F .. G : p # PageAt(j, i)
    BY <1>3, <1>6, <2>1 DEF Promises
  <2>2. CASE \E i \in F .. G : p = PageAt(j, i)
    BY <1>15, <2>2
  <2> QED BY <2>1, <2>2
<1>17. Linking'
  BY <1>1 DEF Linking
<1>18. \A k \in Running' : k = j
  BY <1>1, <1>4, Alone DEF Running, Working
<1>19. FirstPage(j)' = G /\ H' = H
  <2>1. FirstPage(j)' = G
    BY <1>9 DEF FirstPage
  <2>2. H' = H
    BY <1>9 DEF HashedPages
  <2> QED BY <2>1, <2>2
<1>20. ASSUME NEW i \in 0 .. L - 1, NEW s \in 1 .. PageSize, i * PageSize + s <= y
       PROVE  LET p == PageAt(j, i)
                  x == i * PageSize + s
              IN  s <= Len(table'[p].toks) /\ table'[p].toks[s] = ids[x] /\ kv'[p][s] = SubSeq(ids, 1, x)
  <2>0. i \in Nat /\ i * PageSize \in Nat /\ PageSize \in Nat
    BY <1>4, MultMono, PageTableAssumption
  <2>1. CASE i < F
    <3>1. i * PageSize + s <= job[j].kvp
      <4> DEFINE m == i * PageSize
                 e == F * PageSize
      <4>1. m + PageSize <= e /\ m \in Nat /\ e \in Nat
        BY <1>4, <1>5, <2>0, <2>1, MultMono
      <4>2. job[j].kvp = e
        BY <1>2
      <4> HIDE DEF m, e
      <4> QED BY <2>0, <4>1, <4>2 DEF m
    <3>2. Holds(j, i, s)
      BY <1>6, <3>1 DEF Sound, Filling
    <3>3. i \notin F .. G
      BY <1>4, <2>1
    <3> QED BY <1>11, <3>2, <3>3 DEF Holds
  <2>2. CASE i >= F
    <3>1. i \in F .. G
      <4>1. i * PageSize <= y
        <5> DEFINE m == i * PageSize
        <5>1. m \in Nat /\ m + s <= y
          BY <1>20, <2>0
        <5> HIDE DEF m, y
        <5>2. m <= y
          BY <1>4, <5>1
        <5> QED BY <5>2 DEF m
      <4> QED BY <1>4, <2>0, <2>2, <4>1, DivBounds
    <3> DEFINE m == i * PageSize
               b == B(i)
               p == PageAt(j, i)
    <3>2. /\ table'[p].toks = SubSeq(ids, m + 1, b) /\ kv'[p][s] = SubSeq(ids, 1, m + s)
      BY <1>3, <1>20, <3>1 DEF ChunkOf, B
    <3>3. m \in Nat /\ b \in Nat /\ m <= b /\ b <= Len(ids) /\ m + s <= b
      BY <1>13, <1>20, <3>1
    <3> HIDE DEF m, b, ids
    <3>4. Len(SubSeq(ids, m + 1, b)) = b - m /\ s \in 1 .. b - m /\ SubSeq(ids, m + 1, b)[s] = ids[m + s]
      <4>1. s \in 1 .. b - m
        BY <3>3
      <4> QED BY <1>4, <3>3, <4>1, SubSeqOk
    <3>5. s <= b - m
      BY <3>3
    <3> QED BY <3>2, <3>4, <3>5 DEF m
  <2> QED BY <1>4, <2>0, <2>1, <2>2
<1>21. Filling(j)'
  BY <1>9, <1>20 DEF Filling, Holds, PageAt
<1>22. \A i \in 1 .. L : (Own(j, i))' = table'[job[j].pages[i]] /\ (Own(j, i)').hash = Own(j, i).hash
  <2> SUFFICES ASSUME NEW i \in 1 .. L
               PROVE  (Own(j, i))' = table'[job[j].pages[i]] /\ (Own(j, i)').hash = Own(j, i).hash
    OBVIOUS
  <2>1. i - 1 \in 0 .. L - 1 /\ (i - 1) + 1 = i
    BY <1>4
  <2>2. table'[job[j].pages[i]].hash = table[job[j].pages[i]].hash
    BY <1>12, <2>1 DEF PageAt
  <2> QED BY <1>9, <2>2 DEF Own
<1>23. Spelled(j)'
  <2>1. Done(j)' = Larger(H, G)
    BY <1>19 DEF Done
  <2>2. \A i : (PageHash(j, i))' = PageHash(j, i)
    BY <1>9 DEF PageHash
  <2>3. Larger(H, G) \in Nat /\ Larger(H, G) < L
    BY <1>4, <1>7 DEF Larger
  <2>4. ASSUME NEW i \in 1 .. Larger(H, G), Rooted(Own(j, i).hash) PROVE Own(j, i).hash = PageHash(j, i)
    <3>1. i \in 1 .. L
      BY <1>4, <2>3
    <3>2. CASE i <= Done(j)
      <4>1. i \in 1 .. Done(j)
        BY <1>7, <3>2
      <4> QED BY <1>6, <2>4, <4>1 DEF Sound, Spelled
    <3>3. CASE ~(i <= Done(j))
      <4>1. i \in Done(j) + 1 .. L
        BY <1>7, <3>1, <3>3
      <4>2. Len(Own(j, i).hash) = 1
        BY <1>4, <4>1 DEF PagesOf
      <4>3. job[j].pages[i] \in Pages
        BY <1>4, <3>1, PageIn
      <4>4. HashShape(Own(j, i).hash) /\ Own(j, i).hash \in Seq(Int)
        BY <1>4, <4>3 DEF Own, TableOk, PageOk, CachePage
      <4> QED BY <2>4, <4>2, <4>4, RandomUnrooted
    <3> QED BY <3>2, <3>3
  <2>5. ASSUME NEW i \in 1 .. Larger(H, G), Rooted((Own(j, i)').hash)
        PROVE  (Own(j, i)').hash = PageHash(j, i)
    <3>1. i \in 1 .. L
      BY <1>4, <2>3
    <3> QED BY <1>22, <2>4, <2>5, <3>1
  <2> QED BY <2>1, <2>2, <2>5 DEF Spelled
<1>24. ASSUME NEW i \in G .. L - 1, i >= H
       PROVE  Len(table'[PageAt(j, i)].toks) = IF i = G THEN y % PageSize ELSE 0
  <2>1. CASE i = G
    <3> DEFINE m == i * PageSize
               b == B(i)
               p == PageAt(j, i)
    <3>1. i \in F .. G
      BY <1>4, <1>5, <2>1
    <3>2. table'[p].toks = SubSeq(ids, m + 1, b)
      BY <1>3, <3>1 DEF ChunkOf, B
    <3>3. m \in Nat /\ b \in Nat /\ m <= b /\ b <= Len(ids)
      BY <1>13, <3>1
    <3>4. y = m + (y % PageSize) /\ y % PageSize \in 0 .. PageSize - 1
      BY <1>4, <2>1, DivBounds
    <3>5. b = y
      <4> DEFINE r == y % PageSize
      <4>1. b = m + PageSize \/ b = y
        BY <1>13, <3>1
      <4>2. b <= y
        BY <1>13, <3>1
      <4>3. y = m + r /\ r \in 0 .. PageSize - 1 /\ m \in Nat /\ PageSize \in Nat
        BY <3>3, <3>4, PageTableAssumption
      <4> HIDE DEF b, m, r, y
      <4> QED BY <4>1, <4>2, <4>3
    <3> DEFINE r == y % PageSize
    <3>6. y = m + r /\ r \in Nat
      BY <3>4, PageTableAssumption
    <3> HIDE DEF m, b, ids, r
    <3>7. Len(SubSeq(ids, m + 1, b)) = b - m
      BY <1>4, <3>3, SubSeqOk
    <3>8. b - m = r
      BY <3>3, <3>5, <3>6
    <3> QED BY <2>1, <3>2, <3>7, <3>8 DEF r
  <2>2. CASE i # G
    <3>1. i \in 0 .. L - 1 /\ i \notin F .. G /\ i \in F .. L - 1 /\ i # F
      BY <1>4, <1>5, <2>2
    <3>2. Len(table[PageAt(j, i)].toks) = 0
      BY <1>6, <1>24, <3>1 DEF Sound, Empty
    <3> QED BY <1>11, <2>2, <3>1, <3>2
  <2> QED BY <2>1, <2>2
<1>25. Empty(j)'
  BY <1>9, <1>19, <1>24 DEF Empty, PageAt
<1>26. Linked(j)'
  <2>1. G \in F .. G /\ G \in 0 .. L - 1
    BY <1>4, <1>5
  <2>2. table'[PageAt(j, G)].prev = HashBefore(j, G)
    BY <1>3, <2>1 DEF ChunkOf
  <2>3. table'[job'[j].pages[G + 1]].prev =
          IF G = 0 THEN Root ELSE table'[job'[j].pages[(G - 1) + 1]].hash
    <3>1. G # 0 => G - 1 \in 0 .. L - 1
      BY <1>4
    <3> QED BY <1>9, <1>12, <2>2, <3>1 DEF HashBefore, PageAt
  <2> QED BY <1>9, <1>19, <2>3 DEF Linked, PageAt, HashBefore
<1>27. Sound(j)'
  BY <1>21, <1>23, <1>25, <1>26 DEF Sound
<1> QED BY <1>16, <1>17, <1>18, <1>27 DEF Contents

-----------------------------------------------------------------------------
(* A window.                                                               *)

\* A page whose first slot is that of position m + 1 holds the tokens of a row up
\* to position y.
LaidPage(x, row, m, y) ==
  /\ Len(x.toks) = IF y <= m THEN 0 ELSE Smaller(y - m, PageSize)
  /\ \A s \in 1 .. Len(x.toks) : x.toks[s] = row[m + s]
Laid(t, pages, f, row, y) ==
  \A i \in f .. Len(pages) - 1 : LaidPage(t[pages[i + 1]], row, i * PageSize, y)

\* The tokens of a page with offset m.
LEMMA LaidRange ==
  ASSUME NEW x, NEW row, NEW m \in Nat, NEW y \in Nat, LaidPage(x, row, m, y)
  PROVE  /\ Len(x.toks) \in Nat
         /\ m <= y /\ y <= m + PageSize => Len(x.toks) = y - m
         /\ m + PageSize <= y => Len(x.toks) = PageSize
         /\ y <= m => Len(x.toks) = 0
         /\ \A s \in 1 .. PageSize : m + s <= y => s <= Len(x.toks) /\ x.toks[s] = row[m + s]
<1>1. PageSize \in Nat
  BY PageTableAssumption
<1> DEFINE n == Len(x.toks)
<1>2. n = IF y <= m THEN 0 ELSE Smaller(y - m, PageSize)
  BY DEF LaidPage
<1>3. \A s \in 1 .. n : x.toks[s] = row[m + s]
  BY DEF LaidPage
<1> HIDE DEF n
<1>4. /\ n \in Nat /\ (m <= y /\ y <= m + PageSize => n = y - m)
      /\ (m + PageSize <= y => n = PageSize) /\ (y <= m => n = 0)
      /\ \A s \in 1 .. PageSize : m + s <= y => s <= n
  BY <1>1, <1>2 DEF Smaller
<1>5. \A s \in 1 .. PageSize : m + s <= y => s \in 1 .. n
  BY <1>4
<1> QED BY <1>3, <1>4, <1>5 DEF n

\* And one of them.
LEMMA LaidAt ==
  ASSUME NEW x, NEW row, NEW m \in Nat, NEW y \in Nat, LaidPage(x, row, m, y), NEW s \in 1 .. PageSize, m + s <= y
  PROVE  s <= Len(x.toks) /\ x.toks[s] = row[m + s]
<1> DEFINE n == Len(x.toks)
<1>1. n = IF y <= m THEN 0 ELSE Smaller(y - m, PageSize)
  BY DEF LaidPage
<1>2. \A a \in 1 .. n : x.toks[a] = row[m + a]
  BY DEF LaidPage
<1> HIDE DEF n
<1>3. s \in 1 .. n
  BY <1>1, PageTableAssumption DEF Smaller
<1> QED BY <1>2, <1>3 DEF n

\* Tokens put behind those of a page.
LEMMA LaidMore ==
  ASSUME NEW row \in Seq(Tokens), NEW m \in Nat, NEW y \in Nat, m <= y, NEW e \in Nat, y <= e,
         e <= m + PageSize, e <= Len(row), NEW x, x.toks \in Seq(Tokens), LaidPage(x, row, m, y),
         NEW z, z.toks = x.toks \o SubSeq(row, y + 1, e)
  PROVE  LaidPage(z, row, m, e)
<1> DEFINE a == x.toks
           b == SubSeq(row, y + 1, e)
<1>1. PageSize \in Nat
  BY PageTableAssumption
<1>2. Len(a) = y - m /\ \A s \in 1 .. Len(a) : a[s] = row[m + s]
  <2>1. y <= m + PageSize
    BY <1>1
  <2>2. Len(a) = y - m
    BY <2>1, LaidRange
  <2>3. \A s \in 1 .. Len(a) : a[s] = row[m + s]
    BY DEF LaidPage
  <2> QED BY <2>2, <2>3
<1>3. b \in Seq(Tokens) /\ Len(b) = e - y /\ \A s \in 1 .. e - y : b[s] = row[y + s]
  BY SubSeqOk
<1>4. a \in Seq(Tokens) /\ z.toks = a \o b
  OBVIOUS
<1> HIDE DEF a, b
<1>5. Len(a \o b) = Len(a) + Len(b)
  BY <1>3, <1>4, Concat
<1>6. \A s \in 1 .. Len(a) : (a \o b)[s] = a[s]
  BY <1>3, <1>4, Concat
<1>7. \A s \in 1 .. Len(b) : (a \o b)[Len(a) + s] = b[s]
  BY <1>3, <1>4, Concat
<1> DEFINE c == a \o b
<1> HIDE DEF c
<1>8. Len(c) = e - m
  BY <1>2, <1>3, <1>5 DEF c
<1>9. ASSUME NEW s \in 1 .. e - m PROVE c[s] = row[m + s]
  <2>1. CASE s <= y - m
    BY <1>2, <1>6, <2>1 DEF c
  <2>2. CASE ~(s <= y - m)
    <3> DEFINE r == s - (y - m)
    <3>1. r \in 1 .. e - y /\ (y - m) + r = s /\ y + r = m + s
      BY <2>2
    <3> HIDE DEF r
    <3>2. c[(y - m) + r] = b[r] /\ b[r] = row[y + r]
      BY <1>2, <1>3, <1>7, <3>1 DEF c
    <3> QED BY <3>1, <3>2
  <2> QED BY <2>1, <2>2
<1>10. e - m = IF e <= m THEN 0 ELSE Smaller(e - m, PageSize)
  BY <1>1 DEF Smaller
<1> QED BY <1>4, <1>8, <1>9, <1>10 DEF LaidPage, c

\* Tokens cut from a page.
LEMMA LaidLess ==
  ASSUME NEW row, NEW m \in Nat, NEW y \in Nat, m <= y, y <= m + PageSize, NEW e \in Nat, m <= e, e <= y,
         NEW x, x.toks \in Seq(Tokens), LaidPage(x, row, m, y), NEW z, z.toks = SubSeq(x.toks, 1, e - m)
  PROVE  LaidPage(z, row, m, e)
<1> DEFINE a == x.toks
           b == SubSeq(a, 1, e - m)
<1>1. PageSize \in Nat
  BY PageTableAssumption
<1>2. Len(a) = y - m /\ \A s \in 1 .. Len(a) : a[s] = row[m + s]
  <2>1. Len(a) = y - m
    BY LaidRange
  <2>2. \A s \in 1 .. Len(a) : a[s] = row[m + s]
    BY DEF LaidPage
  <2> QED BY <2>1, <2>2
<1>3. e - m \in Nat /\ e - m <= y - m
  OBVIOUS
<1>4. Len(b) = e - m /\ \A s \in 1 .. e - m : b[s] = a[s]
  BY <1>2, <1>3, PrefixOf
<1>5. z.toks = b
  OBVIOUS
<1> HIDE DEF a, b
<1>6. e - m = IF e <= m THEN 0 ELSE Smaller(e - m, PageSize)
  BY <1>1 DEF Smaller
<1>7. \A s \in 1 .. e - m : s \in 1 .. y - m
  BY <1>3
<1> QED BY <1>2, <1>4, <1>5, <1>6, <1>7 DEF LaidPage

\* A page that ends in front of both positions, or begins behind them.
LEMMA LaidBeside ==
  ASSUME NEW row, NEW m \in Nat, NEW y \in Nat, NEW e \in Nat,
         (y <= m /\ e <= m) \/ (m + PageSize <= y /\ m + PageSize <= e),
         NEW x, LaidPage(x, row, m, y), NEW z, z.toks = x.toks
  PROVE  LaidPage(z, row, m, e)
<1>1. PageSize \in Nat /\ PageSize > 0
  BY PageTableAssumption
<1> DEFINE n == Len(x.toks)
<1>2. n = IF y <= m THEN 0 ELSE Smaller(y - m, PageSize)
  BY DEF LaidPage
<1> HIDE DEF n
<1>3. n = IF e <= m THEN 0 ELSE Smaller(e - m, PageSize)
  BY <1>1, <1>2 DEF Smaller
<1> QED BY <1>3 DEF LaidPage, n

\* A window of the row from the job's position to its end.
WindowOf(j, row) ==
  /\ job[j].kvp \in Nat /\ row \in Seq(Tokens) /\ job[j].kvp < Len(row)
  /\ FirstPage(j) \in Nat /\ Len(job[j].pages) \in Nat
  /\ \A x \in job[j].kvp .. Len(row) - 1 : x \div PageSize \in FirstPage(j) .. Len(job[j].pages) - 1
  /\ \A i \in 0 .. Len(job[j].pages) - 1 : PageAt(j, i) \in Pages
  /\ \A a, b \in 0 .. Len(job[j].pages) - 1 : PageAt(j, a) = PageAt(j, b) => a = b

\* A page that was written can go back to nothing.
Unsaved(t, j, y) ==
  \A i \in FirstPage(j) .. Len(job[j].pages) - 1 :
    /\ t[PageAt(j, i)].saved \subseteq table[PageAt(j, i)].saved
    /\ job[j].kvp < y /\ i * PageSize < y => t[PageAt(j, i)].saved = {}

\* Between two writes of get_input_ids_list.
Writing(w, j, row) ==
  /\ w \in Windows /\ job[j].kvp <= w.at /\ w.at <= Len(row) /\ w.rest = SubSeq(row, w.at + 1, Len(row))
  /\ Laid(w.t, job[j].pages, FirstPage(j), row, w.at) /\ Unsaved(w.t, j, w.at)

\* One write puts tokens of the row behind those of its page.
LEMMA PutLaid ==
  ASSUME NEW j, NEW row, WindowOf(j, row), NEW w, Writing(w, j, row)
  PROVE  /\ Writing(Put(j, w), j, row)
         /\ Put(j, w).at > w.at \/ Put(j, w).at = Len(row)
<1>6. SUFFICES ASSUME NEW k, k = job[j].kvp, NEW e, e = Len(row), NEW F, F = FirstPage(j),
                      NEW L, L = Len(job[j].pages), NEW y, y = w.at
               PROVE  /\ Writing(Put(j, w), j, row)
                      /\ Put(j, w).at > y \/ Put(j, w).at = e
  OBVIOUS
<1>1. /\ k \in Nat /\ row \in Seq(Tokens) /\ k < e /\ e \in Nat /\ F \in Nat /\ L \in Nat
  BY <1>6 DEF WindowOf
<1>5. /\ \A x \in k .. e - 1 : x \div PageSize \in F .. L - 1
      /\ \A i \in 0 .. L - 1 : PageAt(j, i) \in Pages
      /\ \A a, b \in 0 .. L - 1 : PageAt(j, a) = PageAt(j, b) => a = b
  BY <1>6 DEF WindowOf
<1>7. e <= Len(row)
  BY <1>1, <1>6
<1>2. /\ w.t \in [Pages -> CachePage] /\ y \in Nat /\ k <= y /\ y <= e
      /\ w.rest = SubSeq(row, y + 1, e) /\ Len(w.rest) = e - y /\ w.rest \in Seq(Tokens)
  <2>1. w.t \in [Pages -> CachePage] /\ y \in Nat /\ k <= y /\ y <= e /\ w.rest = SubSeq(row, y + 1, e)
    BY <1>6 DEF Writing, Windows
  <2>2. Len(SubSeq(row, y + 1, e)) = e - y /\ SubSeq(row, y + 1, e) \in Seq(Tokens)
    BY <1>1, <1>7, <2>1, SubSeqOk
  <2> QED BY <2>1, <2>2
<1>3. CASE w.rest = <<>>
  <2>1. y = e
    BY <1>1, <1>2, <1>3
  <2> QED BY <1>3, <1>6, <2>1 DEF Put
<1>4. CASE w.rest # <<>>
  <2> DEFINE i == y \div PageSize
             p == PageAt(j, i)
             m == i * PageSize
             toks == w.t[p].toks
             n == Smaller(Len(w.rest), PageSize - Len(toks))
             v == [t |-> Extend(w.t, p, SubSeq(w.rest, 1, n)), at |-> y + n,
                   rest |-> SubSeq(w.rest, n + 1, Len(w.rest))]
  <2>1. Put(j, w) = v
    BY <1>4, <1>6 DEF Put
  <2>2. y < e
    <3>1. Len(w.rest) # 0
      BY <1>2, <1>4
    <3> QED BY <1>1, <1>2, <3>1
  <2>3. i \in F .. L - 1 /\ i \in 0 .. L - 1 /\ i \in Nat /\ p \in Pages
    <3>1. y \in k .. e - 1
      BY <1>1, <1>2, <2>2
    <3>2. i \in F .. L - 1
      BY <1>5, <3>1
    <3> HIDE DEF i
    <3> QED BY <1>1, <1>5, <3>2
  <2>4. m \in Nat /\ m <= y /\ y < m + PageSize /\ PageSize \in Nat
    <3> DEFINE r == y % PageSize
    <3>1. m \in Nat /\ y = m + r /\ r \in 0 .. PageSize - 1 /\ PageSize \in Nat
      BY <1>2, <2>3, DivBounds, MultMono, PageTableAssumption
    <3> HIDE DEF m, r
    <3> QED BY <3>1
  <2> HIDE DEF m
  <2>5. LaidPage(w.t[p], row, m, y)
    BY <1>6, <2>3 DEF Writing, Laid, PageAt, m
  <2>6. toks \in Seq(Tokens) /\ Len(toks) = y - m
    <3>1. toks \in Seq(Tokens)
      BY <1>2, <2>3 DEF CachePage
    <3>2. y <= m + PageSize
      BY <1>2, <2>4
    <3> DEFINE o == w.t[p]
    <3>3. LaidPage(o, row, m, y)
      BY <2>5
    <3> HIDE DEF o, m
    <3>4. Len(o.toks) = y - m
      BY <1>2, <2>4, <3>2, <3>3, LaidRange
    <3> QED BY <3>1, <3>4 DEF o
  <2>7. n \in Nat /\ n >= 1 /\ n <= e - y /\ y + n <= m + PageSize
    <3> DEFINE a == Len(w.rest)
               b == Len(toks)
    <3>1. a = e - y /\ b = y - m /\ n = Smaller(a, PageSize - b)
      BY <1>2, <2>6
    <3> HIDE DEF a, b, m, n, toks
    <3> QED BY <1>1, <1>2, <2>2, <2>4, <3>1 DEF Smaller
  <2> HIDE DEF n
  <2> DEFINE z == y + n
  <2>8. z \in Nat /\ y < z /\ z <= e /\ z <= m + PageSize /\ y <= z
    BY <1>1, <1>2, <2>7
  <2>9. SubSeq(w.rest, 1, n) = SubSeq(row, y + 1, z) /\ SubSeq(w.rest, n + 1, Len(w.rest)) = SubSeq(row, z + 1, e)
    <3> DEFINE rest == SubSeq(row, y + 1, e)
    <3>1. rest \in Seq(Tokens) /\ Len(rest) = e - y /\ \A s \in 1 .. e - y : rest[s] = row[y + s]
      BY <1>1, <1>2, <1>7, SubSeqOk
    <3>2. w.rest = rest
      BY <1>2
    <3> HIDE DEF rest, z
    <3>3. z = y + n
      BY DEF z
    <3> DEFINE a1 == SubSeq(rest, 1, n)
               a2 == SubSeq(row, y + 1, z)
               b1 == SubSeq(rest, n + 1, e - y)
               b2 == SubSeq(row, z + 1, e)
    <3>4. a1 \in Seq(Tokens) /\ Len(a1) = n - 0 /\ \A s \in 1 .. n - 0 : a1[s] = rest[0 + s]
      <4>1. 0 \in Nat /\ n \in Nat /\ 0 <= n /\ n <= Len(rest)
        BY <2>7, <3>1
      <4>2. a1 = SubSeq(rest, 0 + 1, n)
        OBVIOUS
      <4> HIDE DEF a1
      <4> QED BY <3>1, <4>1, <4>2, SubSeqOk
    <3>5. a2 \in Seq(Tokens) /\ Len(a2) = z - y /\ \A s \in 1 .. z - y : a2[s] = row[y + s]
      BY <1>1, <1>2, <1>7, <2>8, SubSeqOk
    <3>6. b1 \in Seq(Tokens) /\ Len(b1) = (e - y) - n /\ \A s \in 1 .. (e - y) - n : b1[s] = rest[n + s]
      <4>1. e - y \in Nat /\ e - y <= Len(rest)
        BY <1>1, <1>2, <3>1
      <4> QED BY <2>7, <3>1, <4>1, SubSeqOk
    <3>7. b2 \in Seq(Tokens) /\ Len(b2) = e - z /\ \A s \in 1 .. e - z : b2[s] = row[z + s]
      BY <1>1, <1>7, <2>8, SubSeqOk
    <3> HIDE DEF a1, a2, b1, b2
    <3>8. a1 = a2
      <4>1. Len(a1) = n /\ Len(a2) = n
        BY <1>2, <2>7, <3>3, <3>4, <3>5
      <4>2. \A s \in 1 .. n : a1[s] = a2[s]
        <5> SUFFICES ASSUME NEW s \in 1 .. n PROVE a1[s] = a2[s]
          OBVIOUS
        <5>1. s \in 1 .. n - 0 /\ 0 + s = s /\ s \in 1 .. z - y /\ s \in 1 .. e - y
          BY <1>1, <1>2, <2>7, <3>3
        <5> QED BY <3>1, <3>4, <3>5, <5>1
      <4> QED BY <3>4, <3>5, <4>1, <4>2, SeqEqual
    <3>9. b1 = b2
      <4>1. Len(b1) = e - z /\ Len(b2) = e - z
        BY <1>1, <1>2, <2>7, <3>3, <3>6, <3>7
      <4>2. \A s \in 1 .. e - z : b1[s] = b2[s]
        <5> SUFFICES ASSUME NEW s \in 1 .. e - z PROVE b1[s] = b2[s]
          OBVIOUS
        <5>1. s \in 1 .. (e - y) - n /\ n + s \in 1 .. e - y /\ y + (n + s) = z + s
          BY <1>1, <1>2, <2>7, <3>3
        <5>2. b1[s] = rest[n + s] /\ rest[n + s] = row[y + (n + s)] /\ b2[s] = row[z + s]
          BY <3>1, <3>6, <3>7, <5>1
        <5> QED BY <5>1, <5>2
      <4> QED BY <3>6, <3>7, <4>1, <4>2, SeqEqual
    <3>10. Len(w.rest) = e - y
      BY <1>2
    <3>11. SubSeq(w.rest, 1, n) = a1 /\ SubSeq(w.rest, n + 1, Len(w.rest)) = b1
      BY <3>2, <3>10 DEF a1, b1
    <3> QED BY <3>8, <3>9, <3>11 DEF a2, b2
  <2>10. v = [t |-> Extend(w.t, p, SubSeq(row, y + 1, z)), at |-> z, rest |-> SubSeq(row, z + 1, e)]
    BY <2>9
  <2> DEFINE new == SubSeq(row, y + 1, z)
             x == [w.t[p] EXCEPT !.toks = toks \o new, !.saved = {}]
             t == [w.t EXCEPT ![p] = x]
  <2>11. toks \o new \in Seq(Tokens)
    <3>1. new \in Seq(Tokens)
      BY <1>1, <1>2, <1>7, <2>8, SubSeqOk
    <3> HIDE DEF new, toks
    <3> QED BY <2>6, <3>1, Concat
  <2>12. Extend(w.t, p, new) = t
    BY <1>2, <2>3 DEF Extend
  <2>13. x \in CachePage /\ x.toks = toks \o new /\ x.saved = {}
    <3>1. {} \in SUBSET Save /\ w.t[p] \in CachePage
      BY <1>2, <2>3
    <3> DEFINE o == w.t[p]
               u == toks \o new
    <3>2. o \in CachePage /\ u \in Seq(Tokens) /\ x = [o EXCEPT !.toks = u, !.saved = {}]
      BY <2>11, <3>1
    <3> HIDE DEF o, u, x
    <3>3. x \in CachePage /\ x.toks = u /\ x.saved = {}
      BY <3>1, <3>2 DEF CachePage
    <3> QED BY <3>3 DEF u
  <2>14. LaidPage(x, row, m, z)
    <3> DEFINE o == w.t[p]
    <3>1. o.toks \in Seq(Tokens) /\ LaidPage(o, row, m, y) /\ x.toks = o.toks \o SubSeq(row, y + 1, z)
      BY <2>5, <2>6, <2>13
    <3> HIDE DEF o, x, m, z
    <3> QED BY <1>1, <1>2, <1>6, <2>4, <2>8, <3>1, LaidMore
  <2> HIDE DEF x, new
  <2>15. t \in [Pages -> CachePage] /\ t[p] = x /\ \A q \in Pages : q # p => t[q] = w.t[q]
    BY <1>2, <2>3, <2>13
  <2> HIDE DEF t
  <2>16. ASSUME NEW a \in F .. L - 1, a # i
         PROVE  /\ a \in Nat /\ a * PageSize \in Nat /\ t[PageAt(j, a)] = w.t[PageAt(j, a)]
                /\ (y <= a * PageSize /\ z <= a * PageSize)
                   \/ (a * PageSize + PageSize <= y /\ a * PageSize + PageSize <= z)
    <3>1. a \in Nat /\ a \in 0 .. L - 1
      BY <1>1
    <3>2. PageAt(j, a) \in Pages /\ PageAt(j, a) # p
      BY <1>5, <2>3, <2>16, <3>1
    <3>3. a * PageSize \in Nat /\ (a < i => a * PageSize + PageSize <= m) /\ (i < a => m + PageSize <= a * PageSize)
      BY <2>3, <3>1, MultMono DEF m
    <3> DEFINE c == a * PageSize
    <3>4. c \in Nat /\ (a < i => c + PageSize <= m) /\ (i < a => m + PageSize <= c)
      BY <3>3
    <3> HIDE DEF c, m, z, i
    <3>5. (y <= c /\ z <= c) \/ (c + PageSize <= y /\ c + PageSize <= z)
      BY <1>2, <2>3, <2>4, <2>8, <2>16, <3>1, <3>4
    <3> QED BY <2>15, <3>1, <3>2, <3>4, <3>5 DEF c
  <2>17. Laid(t, job[j].pages, F, row, z)
    <3> SUFFICES ASSUME NEW a \in F .. L - 1 PROVE LaidPage(t[PageAt(j, a)], row, a * PageSize, z)
      BY <1>6 DEF Laid, PageAt
    <3>1. CASE a = i
      BY <2>14, <2>15, <3>1 DEF m
    <3>2. CASE a # i
      <4> DEFINE c == a * PageSize
                 o == w.t[PageAt(j, a)]
                 q == t[PageAt(j, a)]
      <4>1. LaidPage(o, row, c, y)
        BY <1>6 DEF Writing, Laid, PageAt
      <4>2. c \in Nat /\ q = o /\ ((y <= c /\ z <= c) \/ (c + PageSize <= y /\ c + PageSize <= z))
        BY <2>16, <3>2
      <4> HIDE DEF c, o, q, z
      <4>3. LaidPage(q, row, c, z)
        BY <1>2, <2>8, <4>1, <4>2, LaidBeside
      <4> QED BY <4>3 DEF q, c
    <3> QED BY <3>1, <3>2
  <2>18. Unsaved(t, j, z)
    <3> SUFFICES ASSUME NEW a \in F .. L - 1
                 PROVE  /\ t[PageAt(j, a)].saved \subseteq table[PageAt(j, a)].saved
                        /\ k < z /\ a * PageSize < z => t[PageAt(j, a)].saved = {}
      BY <1>6 DEF Unsaved
    <3>1. CASE a = i
      BY <2>13, <2>15, <3>1
    <3>2. CASE a # i
      <4>1. t[PageAt(j, a)] = w.t[PageAt(j, a)]
        BY <2>16, <3>2
      <4>2. /\ w.t[PageAt(j, a)].saved \subseteq table[PageAt(j, a)].saved
            /\ k < y /\ a * PageSize < y => w.t[PageAt(j, a)].saved = {}
        BY <1>6 DEF Writing, Unsaved
      <4>3. a * PageSize < z => k < y /\ a * PageSize < y
        <5> DEFINE c == a * PageSize
        <5>1. c \in Nat /\ a \in Nat /\ ((y <= c /\ z <= c) \/ (c + PageSize <= y /\ c + PageSize <= z))
          BY <2>16, <3>2
        <5>2. F <= a /\ k < F * PageSize + PageSize /\ F * PageSize <= c /\ F * PageSize \in Nat
          <6>1. F <= a
            BY <1>1
          <6>2. F * PageSize \in Nat /\ F * PageSize <= c
            BY <1>1, <5>1, <6>1, MultMono
          <6>3. k < F * PageSize + PageSize
            <7> DEFINE g == F * PageSize
                       r == k % PageSize
            <7>1. k = g + r /\ r \in 0 .. PageSize - 1 /\ g \in Nat
              BY <1>1, <6>2, <1>6, DivBounds DEF FirstPage
            <7> HIDE DEF g, r
            <7>2. k < g + PageSize
              BY <2>4, <7>1
            <7> QED BY <7>2 DEF g
          <6> QED BY <6>1, <6>2, <6>3
        <5> DEFINE g == F * PageSize
        <5>3. g \in Nat /\ g <= c /\ k < g + PageSize
          BY <5>2
        <5> HIDE DEF c, g, z
        <5>4. c < z => k < y /\ c < y
          BY <1>1, <1>2, <2>4, <2>8, <5>1, <5>3
        <5> QED BY <5>4 DEF c
      <4> QED BY <4>1, <4>2, <4>3
    <3> QED BY <3>1, <3>2
  <2>19. SubSeq(row, z + 1, e) \in Seq(Tokens)
    BY <1>1, <1>7, <2>8, SubSeqOk
  <2> DEFINE rest == SubSeq(row, z + 1, e)
  <2>20. v = [t |-> t, at |-> z, rest |-> rest]
    BY <2>10, <2>12 DEF new
  <2> HIDE DEF v, rest, z
  <2>21. v \in Windows /\ v.t = t /\ v.at = z /\ v.rest = rest
    BY <2>8, <2>15, <2>19, <2>20 DEF Windows, rest
  <2>22. k <= z
    BY <1>1, <1>2, <2>8
  <2>23. Writing(v, j, row)
    BY <1>6, <2>8, <2>17, <2>18, <2>21, <2>22 DEF Writing, rest
  <2> QED BY <1>6, <2>1, <2>8, <2>21, <2>23
<1> QED BY <1>3, <1>4

\* What of the row is fed.
LEMMA RowRest ==
  ASSUME NEW j, job[j].ids \in Seq(Tokens), job[j].kvp \in Nat, Len(job[j].ids) = job[j].kvp + 1,
         NEW d \in Nat, NEW draft \in [1 .. d -> Tokens]
  PROVE  /\ SubSeq(Row(j, draft), job[j].kvp + 1, Len(Row(j, draft))) \in Seq(Tokens)
         /\ Len(SubSeq(Row(j, draft), job[j].kvp + 1, Len(Row(j, draft)))) = d + 1
<1> DEFINE k == job[j].kvp
           row == SubSeq(Row(j, draft), k + 1, Len(Row(j, draft)))
<1>1. row \in Seq(Tokens) /\ Len(row) = d + 1
  BY RowOk
<1> QED BY <1>1

\* The job's page, before a window is written to it.
LEMMA StartLaid ==
  ASSUME IInv, Contents, phase = "decode", todo # <<>>, NEW j, j = todo[1], PrefillDone(j), NEW d \in 0 .. Depth,
         WindowOk(j, d), NEW draft \in [1 .. d -> Tokens]
  PROVE  WindowOf(j, Row(j, draft)) /\ Laid(table, job[j].pages, FirstPage(j), Row(j, draft), job[j].kvp)
<1>1. SUFFICES ASSUME NEW k, NEW F, NEW L, NEW row, k = job[j].kvp, F = FirstPage(j), L = Len(job[j].pages),
                      row = Row(j, draft)
               PROVE  WindowOf(j, row) /\ Laid(table, job[j].pages, F, row, k)
  OBVIOUS
<1>2. /\ j \in Jobs /\ j \in Running /\ job[j].ids \in Seq(Tokens) /\ k \in Nat /\ Len(job[j].ids) = k + 1
      /\ d \in Nat /\ F \in Nat /\ L \in Nat /\ LastPage(j, d) \in Nat /\ LastPage(j, d) < L
      /\ HashedPages(j) \in Nat /\ HashedPages(j) <= F
      /\ F * PageSize \in Nat /\ F * PageSize <= k /\ k < F * PageSize + PageSize
  BY <1>1, DecodeStart
<1>3. /\ \A i \in 0 .. L - 1 : PageAt(j, i) \in Pages
      /\ \A i, x \in 0 .. L - 1 : PageAt(j, i) = PageAt(j, x) => i = x
  BY <1>1, DecodeStart
<1>4. row \in Seq(Tokens) /\ Len(row) = k + 1 + d /\ \A i \in 1 .. k + 1 : row[i] = job[j].ids[i]
  <2>1. job[j].kvp \in Nat /\ Len(job[j].ids) = job[j].kvp + 1 /\ job[j].ids \in Seq(Tokens) /\ d \in Nat
    BY <1>1, <1>2
  <2>2. Row(j, draft) \in Seq(Tokens) /\ Len(Row(j, draft)) = job[j].kvp + 1 + d
    BY <2>1, RowOk
  <2>3. \A i \in 1 .. Len(job[j].ids) : Row(j, draft)[i] = job[j].ids[i]
    BY <2>1, RowOk
  <2> QED BY <1>1, <1>2, <2>2, <2>3
<1>5. ASSUME NEW x \in k .. Len(row) - 1 PROVE x \div PageSize \in F .. L - 1
  <2>1. x \in Nat /\ k <= x /\ x <= k + d
    BY <1>2, <1>4
  <2>2. x \div PageSize \in F .. LastPage(j, d)
    BY <1>1, <1>2, <2>1, WindowPage
  <2> DEFINE q == x \div PageSize
             l == LastPage(j, d)
  <2>3. q \in F .. l /\ l \in Nat /\ l < L
    BY <1>2, <2>2
  <2> HIDE DEF q, l
  <2>4. q \in F .. L - 1
    BY <1>2, <2>3
  <2> QED BY <2>4 DEF q
<1>6. WindowOf(j, row)
  <2>1. k < Len(row)
    BY <1>2, <1>4
  <2> QED BY <1>1, <1>2, <1>3, <1>4, <1>5, <2>1 DEF WindowOf
<1>7. ASSUME NEW i \in F .. L - 1 PROVE LaidPage(table[PageAt(j, i)], row, i * PageSize, k)
  <2> DEFINE toks == table[PageAt(j, i)].toks
             m == i * PageSize
             g == F * PageSize
             r == k % PageSize
  <2>1. i \in Nat /\ i \in 0 .. L - 1 /\ i >= HashedPages(j) /\ (i # F => F < i)
    BY <1>2
  <2>2. m \in Nat /\ g \in Nat /\ g <= k /\ k < g + PageSize /\ (F < i => g + PageSize <= m) /\ PageSize \in Nat
    BY <1>2, <2>1, MultMono, PageTableAssumption
  <2>3. k = g + r /\ r \in Nat /\ r < PageSize
    <3>1. k = g + r /\ r \in 0 .. PageSize - 1
      BY <1>1, <1>2, DivBounds DEF FirstPage
    <3> HIDE DEF g, r
    <3> QED BY <2>2, <3>1
  <2>4. Sound(j)
    BY <1>2 DEF Contents
  <2>5. Len(toks) = IF i = F THEN r ELSE 0
    BY <1>1, <2>1, <2>4 DEF Sound, Empty
  <2>6. \A s \in 1 .. PageSize : m + s <= k => toks[s] = job[j].ids[m + s]
    BY <1>1, <1>2, <2>1, <2>4 DEF Sound, Filling, Holds
  <2>7. i = F => m = g
    OBVIOUS
  <2> HIDE DEF toks, m, g, r
  <2>8. Len(toks) = IF k <= m THEN 0 ELSE Smaller(k - m, PageSize)
    BY <1>2, <2>1, <2>2, <2>3, <2>5, <2>7 DEF Smaller
  <2>9. ASSUME NEW s \in 1 .. Len(toks) PROVE toks[s] = row[m + s]
    <3>1. s \in 1 .. PageSize /\ m + s <= k /\ m + s \in 1 .. k + 1
      BY <1>2, <2>1, <2>2, <2>3, <2>5, <2>7, <2>9
    <3> QED BY <1>4, <2>6, <3>1
  <2> QED BY <2>8, <2>9 DEF LaidPage, toks, m
<1>8. Laid(table, job[j].pages, F, row, k)
  BY <1>1, <1>7 DEF Laid, PageAt
<1> QED BY <1>6, <1>8

\* The window in the pages: the tokens of the row as far as it goes.
LEMMA WrittenLaid ==
  ASSUME IInv, Contents, phase = "decode", todo # <<>>, NEW j, j = todo[1], PrefillDone(j), NEW d \in 0 .. Depth,
         WindowOk(j, d), NEW draft \in [1 .. d -> Tokens]
  PROVE  /\ Laid(Written(j, draft), job[j].pages, FirstPage(j), Row(j, draft), job[j].kvp + d + 1)
         /\ Unsaved(Written(j, draft), j, job[j].kvp + d + 1)
<1>1. SUFFICES ASSUME NEW k, NEW e, NEW row, NEW rest, k = job[j].kvp, e = k + d + 1, row = Row(j, draft),
                      rest = SubSeq(row, k + 1, Len(row))
               PROVE  Laid(Written(j, draft), job[j].pages, FirstPage(j), row, e) /\ Unsaved(Written(j, draft), j, e)
  OBVIOUS
<1>2. job[j].ids \in Seq(Tokens) /\ k \in Nat /\ Len(job[j].ids) = k + 1 /\ d \in Nat /\ table \in [Pages -> CachePage]
  BY <1>1, DecodeStart DEF TableOk
<1>3. /\ row \in Seq(Tokens) /\ Len(row) = e /\ e \in Nat /\ e = k + d + 1
      /\ rest \in Seq(Tokens) /\ Len(rest) = d + 1 /\ Len(rest) \in Nat
  <2>1. job[j].kvp \in Nat /\ Len(job[j].ids) = job[j].kvp + 1 /\ job[j].ids \in Seq(Tokens) /\ d \in Nat
    BY <1>1, <1>2
  <2>2. Row(j, draft) \in Seq(Tokens) /\ Len(Row(j, draft)) = job[j].kvp + 1 + d
    BY <2>1, RowOk
  <2> DEFINE z == SubSeq(Row(j, draft), job[j].kvp + 1, Len(Row(j, draft)))
  <2>3. z \in Seq(Tokens) /\ Len(z) = d + 1
    BY <2>1, RowRest
  <2>4. rest = z
    BY <1>1
  <2> HIDE DEF z
  <2>5. rest \in Seq(Tokens) /\ Len(rest) = d + 1
    BY <2>3, <2>4
  <2> DEFINE r == Row(j, draft)
  <2>6. row = r /\ e = k + d + 1 /\ k = job[j].kvp
    BY <1>1
  <2> HIDE DEF r
  <2>7. row \in Seq(Tokens) /\ Len(row) = e /\ e \in Nat
    <3>1. r \in Seq(Tokens) /\ Len(r) = k + 1 + d
      BY <2>2, <2>6 DEF r
    <3> QED BY <1>2, <2>6, <3>1
  <2> QED BY <1>2, <2>5, <2>6, <2>7
<1>4. WindowOf(j, row) /\ Laid(table, job[j].pages, FirstPage(j), row, k)
  BY <1>1, StartLaid
<1>5. Written(j, draft) = Fed(j, rest)
  BY <1>1 DEF Written
<1> DEFINE Inv(w, n) == Writing(w, j, row) /\ (w.at >= k + n \/ w.at = e)
           I == [n \in Nat |-> {w \in Windows : Inv(w, n)}]
<1>6. [t |-> table, at |-> job[j].kvp, rest |-> rest] \in I[0]
  <2> DEFINE w == [t |-> table, at |-> job[j].kvp, rest |-> rest]
  <2>1. w \in Windows /\ w.t = table /\ w.at = k /\ w.rest = rest
    BY <1>1, <1>2, <1>3 DEF Windows
  <2> HIDE DEF w
  <2>2. Unsaved(table, j, k)
    BY <1>1, <1>2 DEF Unsaved
  <2>3. k <= k /\ k <= e /\ k >= k + 0
    BY <1>2, <1>3
  <2>4. rest = SubSeq(row, k + 1, Len(row)) /\ k <= Len(row)
    BY <1>1, <1>3, <2>3
  <2>5. Writing(w, j, row)
    BY <1>1, <1>4, <2>1, <2>2, <2>3, <2>4 DEF Writing
  <2>6. w \in {x \in Windows : Inv(x, 0)}
    BY <2>1, <2>3, <2>5
  <2> HIDE DEF Inv
  <2> QED BY <2>6 DEF w
<1>7. ASSUME NEW n \in Nat, NEW w \in I[n] PROVE Put(j, w) \in I[n + 1]
  <2>1. Writing(w, j, row) /\ (w.at >= k + n \/ w.at = e)
    BY <1>7
  <2> DEFINE v == Put(j, w)
  <2>2. Writing(v, j, row) /\ (v.at > w.at \/ v.at = e)
    <3>1. Writing(Put(j, w), j, row) /\ (Put(j, w).at > w.at \/ Put(j, w).at = Len(row))
      BY <1>4, <2>1, PutLaid
    <3> QED BY <1>3, <3>1
  <2> HIDE DEF v
  <2>3. v \in Windows /\ v.at \in Nat /\ v.at <= e /\ w.at \in Nat
    BY <1>3, <2>1, <2>2 DEF Writing, Windows
  <2>4. v.at >= k + (n + 1) \/ v.at = e
    <3> DEFINE a == v.at
               b == w.at
    <3>1. a \in Nat /\ b \in Nat /\ a <= e /\ (a > b \/ a = e) /\ (b >= k + n \/ b = e)
      BY <2>1, <2>2, <2>3
    <3> HIDE DEF a, b
    <3>2. a >= k + (n + 1) \/ a = e
      BY <1>2, <1>3, <3>1
    <3> QED BY <3>2 DEF a
  <2>5. v \in {x \in Windows : Inv(x, n + 1)}
    BY <2>2, <2>3, <2>4
  <2> HIDE DEF Inv
  <2>6. n + 1 \in Nat
    OBVIOUS
  <2> QED BY <2>5, <2>6 DEF v
<1>8. \E x \in I[Len(rest)] : Fed(j, rest) = x.t
  <2>1. \A n \in Nat : \A x \in I[n] : Put(j, x) \in I[n + 1]
    BY <1>7
  <2> HIDE DEF I
  <2> QED BY <1>3, <1>6, <2>1, FedLoop
<1>9. PICK x \in I[Len(rest)] : Fed(j, rest) = x.t
  BY <1>8
<1>10. x \in Windows /\ Writing(x, j, row) /\ (x.at >= k + (d + 1) \/ x.at = e)
  BY <1>3, <1>9
<1>11. x.at = e
  <2> DEFINE a == x.at
  <2>1. a \in Nat /\ a <= e /\ (a >= k + (d + 1) \/ a = e)
    BY <1>3, <1>10 DEF Writing, Windows
  <2> HIDE DEF a
  <2>2. a = e
    BY <1>2, <1>3, <2>1
  <2> QED BY <2>2 DEF a
<1> QED BY <1>5, <1>9, <1>10, <1>11 DEF Writing

\* Pages with index f and more, and r positions behind pos that are in them.
Remainder(pages, pos, r, f) ==
  /\ pages \in Seq(Pages) /\ pos \in Nat /\ r \in Nat /\ f \in Nat
  /\ \A x \in pos .. pos + r - 1 : x \div PageSize \in f .. Len(pages) - 1
  /\ \A a, b \in 0 .. Len(pages) - 1 : pages[a + 1] = pages[b + 1] => a = b

\* Between two turns of reject_remainder.
Cutting(w, pages, pos, r, f, row) ==
  w \in Cuts /\ w.r <= r /\ Laid(w.t, pages, f, row, pos + w.r)

\* One turn takes tokens from the end of the last page that has any.
LEMMA CutLaid ==
  ASSUME NEW pages, NEW pos, NEW r, NEW f, Remainder(pages, pos, r, f), NEW row, NEW w, Cutting(w, pages, pos, r, f, row)
  PROVE  /\ Cutting(Cut(pages, pos, w), pages, pos, r, f, row)
         /\ Cut(pages, pos, w).r < w.r \/ Cut(pages, pos, w).r = 0
<1>1. SUFFICES ASSUME NEW L, NEW c, NEW y, L = Len(pages), c = w.r, y = pos + c
               PROVE  /\ Cutting(Cut(pages, pos, w), pages, pos, r, f, row)
                      /\ Cut(pages, pos, w).r < c \/ Cut(pages, pos, w).r = 0
  OBVIOUS
<1>2. /\ L \in Nat /\ pos \in Nat /\ r \in Nat /\ f \in Nat /\ c \in Nat /\ c <= r /\ y = pos + c /\ y \in Nat
      /\ w.t \in [Pages -> CachePage]
  <2>1. L \in Nat /\ pos \in Nat /\ r \in Nat /\ f \in Nat
    BY <1>1 DEF Remainder
  <2>2. c \in Nat /\ c <= r /\ w.t \in [Pages -> CachePage]
    BY <1>1 DEF Cutting, Cuts
  <2> QED BY <1>1, <2>1, <2>2
<1>3. CASE c = 0
  <2>1. Cut(pages, pos, w) = w
    BY <1>1, <1>3 DEF Cut
  <2> QED BY <1>1, <1>3, <2>1
<1>4. CASE c # 0
  <2> DEFINE i == (pos + w.r - 1) \div PageSize
             p == pages[i + 1]
             m == i * PageSize
             o == w.t[p]
             toks == o.toks
             n == Smaller(Len(toks), w.r)
             s == SubSeq(toks, 1, Len(toks) - n)
             x == [o EXCEPT !.toks = s]
             t == [w.t EXCEPT ![p] = x]
             z == [t |-> t, r |-> w.r - n]
  <2>1. i \in f .. L - 1 /\ y - 1 \in Nat /\ i = (y - 1) \div PageSize
    <3>1. y - 1 \in pos .. pos + r - 1 /\ y - 1 \in Nat /\ y - 1 = pos + c - 1
      BY <1>2, <1>4
    <3>2. (y - 1) \div PageSize \in f .. L - 1
      BY <1>1, <3>1 DEF Remainder
    <3>3. i = (y - 1) \div PageSize
      BY <1>1, <3>1
    <3> QED BY <3>1, <3>2, <3>3
  <2>2. i \in Nat /\ i \in 0 .. L - 1 /\ i + 1 \in 1 .. L
    <3> HIDE DEF i
    <3> QED BY <1>2, <2>1
  <2>3. p \in Pages
    <3> HIDE DEF i
    <3> QED BY <1>1, <2>2 DEF Remainder
  <2>4. m \in Nat /\ m < y /\ y <= m + PageSize /\ PageSize \in Nat
    <3> DEFINE q == (y - 1) % PageSize
    <3>1. y - 1 = m + q /\ q \in 0 .. PageSize - 1
      BY <2>1, DivBounds
    <3>2. m \in Nat /\ PageSize \in Nat
      BY <2>2, MultMono, PageTableAssumption
    <3> HIDE DEF m, q, i
    <3> QED BY <1>2, <3>1, <3>2
  <2>5. LaidPage(o, row, m, y)
    <3> HIDE DEF i
    <3> QED BY <1>1, <2>1 DEF Cutting, Laid
  <2> HIDE DEF i, m
  <2>7. o \in CachePage /\ toks \in Seq(Tokens) /\ Len(toks) \in Nat
    <3>1. o \in CachePage
      BY <1>2, <2>3
    <3> HIDE DEF o
    <3>2. toks \in Seq(Tokens)
      BY <3>1 DEF CachePage
    <3> QED BY <3>1, <3>2
  <2> HIDE DEF p
  <2>8. Cut(pages, pos, w) = z
    BY <1>1, <1>2, <1>4, <2>3 DEF Cut, p, i
  <2> HIDE DEF o
  <2>9. Len(toks) = y - m
    <3>1. m <= y /\ y <= m + PageSize
      BY <1>2, <2>4
    <3> QED BY <1>2, <2>4, <2>5, <3>1, LaidRange
  <2>10. n \in Nat /\ n >= 1 /\ n <= c /\ n <= y - m
    <3> DEFINE b == Len(toks)
    <3>1. b = y - m /\ n = Smaller(b, c)
      BY <1>1, <2>9
    <3> HIDE DEF b, n, toks
    <3> QED BY <1>2, <1>4, <2>4, <3>1 DEF Smaller
  <2> HIDE DEF n
  <2> DEFINE e == y - n
  <2>11. e \in Nat /\ m <= e /\ e <= y /\ e < y /\ e = pos + (c - n) /\ c - n \in Nat /\ c - n <= r /\ c - n < c
         /\ Len(toks) - n = e - m /\ e - m \in Nat /\ e - m <= y - m
    BY <1>2, <2>4, <2>9, <2>10
  <2> HIDE DEF e
  <2>12. s \in Seq(Tokens) /\ s = SubSeq(toks, 1, e - m)
    <3>1. s = SubSeq(toks, 1, e - m)
      BY <2>11
    <3> HIDE DEF s, toks
    <3>2. e - m <= Len(toks)
      BY <2>9, <2>11
    <3>3. SubSeq(toks, 0 + 1, e - m) \in Seq(Tokens)
      <4>1. 0 \in Nat /\ 0 <= e - m
        BY <2>11
      <4> QED BY <2>7, <2>11, <3>2, <4>1, SubSeqOk
    <3> QED BY <3>1, <3>3
  <2>13. x \in CachePage /\ x.toks = SubSeq(toks, 1, e - m)
    <3> HIDE DEF s
    <3> QED BY <2>7, <2>12 DEF CachePage
  <2> HIDE DEF x, s
  <2>14. LaidPage(x, row, m, e)
    <3>1. x.toks = SubSeq(o.toks, 1, e - m) /\ o.toks \in Seq(Tokens) /\ m <= y
      BY <2>4, <2>7, <2>11, <2>13, <1>2
    <3> QED BY <1>2, <2>4, <2>5, <2>11, <3>1, LaidLess
  <2>15. t \in [Pages -> CachePage] /\ t[p] = x /\ \A q \in Pages : q # p => t[q] = w.t[q]
    BY <1>2, <2>3, <2>13
  <2> HIDE DEF t
  <2>16. z \in Cuts /\ z.t = t /\ z.r = c - n
    BY <1>1, <2>11, <2>15 DEF Cuts
  <2> HIDE DEF z
  <2>17. ASSUME NEW a \in f .. L - 1 PROVE LaidPage(t[pages[a + 1]], row, a * PageSize, e)
    <3>1. CASE a = i
      BY <2>14, <2>15, <3>1 DEF m, p
    <3>2. CASE a # i
      <4> DEFINE b == a * PageSize
                 v == w.t[pages[a + 1]]
      <4>1. a \in Nat /\ a \in 0 .. L - 1 /\ a + 1 \in 1 .. L
        BY <1>2
      <4>2. b \in Nat /\ (a < i => b + PageSize <= m) /\ (i < a => m + PageSize <= b)
        BY <2>2, <4>1, MultMono DEF m
      <4>3. pages[a + 1] \in Pages /\ pages[a + 1] # p
        <5>1. pages[a + 1] \in Pages
          BY <1>1, <4>1 DEF Remainder
        <5>2. pages[a + 1] # pages[i + 1]
          BY <1>1, <2>2, <3>2, <4>1 DEF Remainder
        <5> QED BY <5>1, <5>2 DEF p
      <4>4. t[pages[a + 1]] = v
        BY <2>15, <4>3
      <4>5. LaidPage(v, row, b, y)
        BY <1>1 DEF Cutting, Laid
      <4> HIDE DEF b, v
      <4>6. (y <= b /\ e <= b) \/ (b + PageSize <= y /\ b + PageSize <= e)
        BY <1>2, <2>2, <2>4, <2>11, <3>2, <4>1, <4>2
      <4>7. LaidPage(v, row, b, e)
        BY <1>2, <2>11, <4>2, <4>5, <4>6, LaidBeside
      <4> QED BY <4>4, <4>7 DEF b
    <3> QED BY <3>1, <3>2
  <2>18. Laid(t, pages, f, row, pos + (c - n))
    BY <1>1, <2>11, <2>17 DEF Laid
  <2>19. Cutting(z, pages, pos, r, f, row)
    BY <2>11, <2>16, <2>18 DEF Cutting
  <2> QED BY <2>8, <2>11, <2>16, <2>19
<1> QED BY <1>3, <1>4

\* What is rejected is no longer in the pages, and nothing else is lost.
LEMMA RejectedLaid ==
  ASSUME NEW u \in [Pages -> CachePage], NEW pages, NEW pos, NEW r, NEW f, Remainder(pages, pos, r, f), NEW row,
         Laid(u, pages, f, row, pos + r)
  PROVE  Laid(Rejected(u, pages, pos, r), pages, f, row, pos)
<1> DEFINE Inv(w, n) == Cutting(w, pages, pos, r, f, row) /\ (w.r <= r - n \/ w.r = 0)
           I == [n \in Nat |-> {w \in Cuts : Inv(w, n)}]
<1>0. r \in Nat /\ pos \in Nat
  BY DEF Remainder
<1>1. [t |-> u, r |-> r] \in I[0]
  <2> DEFINE w == [t |-> u, r |-> r]
  <2>1. w \in Cuts /\ w.r = r /\ w.t = u
    BY <1>0 DEF Cuts
  <2> HIDE DEF w
  <2>2. Cutting(w, pages, pos, r, f, row) /\ w.r <= r - 0
    BY <1>0, <2>1 DEF Cutting
  <2>3. w \in {x \in Cuts : Inv(x, 0)}
    BY <2>1, <2>2
  <2> HIDE DEF Inv
  <2> QED BY <2>3 DEF w
<1>2. ASSUME NEW n \in Nat, NEW w \in I[n] PROVE Cut(pages, pos, w) \in I[n + 1]
  <2>1. w \in Cuts /\ Cutting(w, pages, pos, r, f, row) /\ (w.r <= r - n \/ w.r = 0)
    BY <1>2
  <2> DEFINE z == Cut(pages, pos, w)
  <2>2. Cutting(z, pages, pos, r, f, row) /\ (z.r < w.r \/ z.r = 0)
    BY <2>1, CutLaid
  <2> HIDE DEF z
  <2>3. z \in Cuts
    BY <2>2 DEF Cutting
  <2>4. z.r <= r - (n + 1) \/ z.r = 0
    <3> DEFINE a == z.r
               b == w.r
    <3>1. a \in Nat /\ b \in Nat /\ (a < b \/ a = 0) /\ (b <= r - n \/ b = 0)
      BY <2>1, <2>2, <2>3 DEF Cuts
    <3> HIDE DEF a, b
    <3>2. a <= r - (n + 1) \/ a = 0
      BY <1>0, <3>1
    <3> QED BY <3>2 DEF a
  <2>5. z \in {x \in Cuts : Inv(x, n + 1)}
    BY <2>2, <2>3, <2>4
  <2> HIDE DEF Inv
  <2>6. n + 1 \in Nat
    OBVIOUS
  <2> QED BY <2>5, <2>6 DEF z
<1>3. \E x \in I[r] : Rejected(u, pages, pos, r) = x.t
  <2>1. \A n \in Nat : \A x \in I[n] : Cut(pages, pos, x) \in I[n + 1]
    BY <1>2
  <2> HIDE DEF I
  <2> QED BY <1>0, <1>1, <2>1, RejectedLoop
<1>4. PICK x \in I[r] : Rejected(u, pages, pos, r) = x.t
  BY <1>3
<1>5. x \in Cuts /\ Cutting(x, pages, pos, r, f, row) /\ (x.r <= r - r \/ x.r = 0)
  BY <1>0, <1>4
<1>6. x.r = 0
  <2> DEFINE a == x.r
  <2>1. a \in Nat /\ (a <= r - r \/ a = 0)
    BY <1>5 DEF Cuts
  <2> HIDE DEF a
  <2>2. a = 0
    BY <1>0, <2>1
  <2> QED BY <2>2 DEF a
<1>7. pos + x.r = pos
  BY <1>0, <1>6
<1> QED BY <1>4, <1>5, <1>7 DEF Cutting

\* What the completion of a page does to a page of the job, and to another.
OwnAfter(x, y, h, full, next) ==
  /\ y.toks = x.toks /\ y.refs = x.refs /\ y.saved \subseteq x.saved
  /\ y.hash = (IF full THEN h ELSE x.hash) /\ y.prev = (IF next THEN h ELSE x.prev)
Cleared(t, h) ==
  LET stale == Under(h, t, Unreferenced(t)) IN IF stale = {} THEN t ELSE Clear(t, CHOOSE q \in stale : TRUE)
OtherAfter(x, y) == y = x \/ (y.saved = {} /\ y.toks = <<>>)
Finished(c, t, j, full, h) ==
  /\ c.ok /\ c.pages = job[j].pages /\ c.table \in [Pages -> CachePage]
  /\ \A i \in 0 .. Len(job[j].pages) - 1 :
       OwnAfter(t[PageAt(j, i)], c.table[PageAt(j, i)], h, full /\ i = FirstPage(j), full /\ i = FirstPage(j) + 1)
  /\ \A p \in Pages : p \notin ToSet(job[j].pages) => OtherAfter(t[p], c.table[p])

HashedTo(t, u, own, h) ==
  /\ u \in [Pages -> CachePage] /\ OwnAfter(t[own], u[own], h, TRUE, FALSE)
  /\ \A p \in Pages : p # own => OtherAfter(t[p], u[p]) /\ (t[p].refs > 0 => u[p] = t[p])

\* Taking a hash from an unreferenced page that has it.
LEMMA HashedFields ==
  ASSUME NEW t, TableOk(t), NEW own \in Pages, t[own].refs = 1, NEW h \in Seq(Int), NEW c, c = Cleared(t, h)
  PROVE  HashedTo(t, UpdateHash(c, own, h), own, h)
<1> DEFINE stale == Under(h, t, Unreferenced(t))
           old == CHOOSE q \in stale : TRUE
           u == UpdateHash(c, own, h)
           y == [c[own] EXCEPT !.hash = h, !.saved = {}]
<1>1. c = IF stale = {} THEN t ELSE Clear(t, old)
  BY DEF Cleared
<1>2. t \in [Pages -> CachePage]
  BY DEF TableOk
<1>3. c \in [Pages -> CachePage] /\ \A p \in Pages : OtherAfter(t[p], c[p]) /\ (t[p].refs > 0 => c[p] = t[p])
  <2>1. CASE stale = {}
    BY <1>1, <1>2, <2>1 DEF OtherAfter
  <2>2. CASE stale # {}
    <3>1. old \in stale
      BY <2>2
    <3>2. old \in Pages /\ ~(t[old].refs > 0)
      BY <3>1 DEF Under, Unreferenced, Referenced
    <3> HIDE DEF old, stale
    <3> DEFINE r == RandomHash(t)
    <3>3. r \in Seq(Int)
      BY Fresh DEF TableOk, PageOk
    <3> HIDE DEF r
    <3>4. c = [t EXCEPT ![old] = Blank(r)]
      BY <1>1, <2>2 DEF Clear, r
    <3>5. Blank(r) \in CachePage /\ Blank(r).saved = {} /\ Blank(r).toks = <<>>
      BY <3>3, BlankFields
    <3>6. c \in [Pages -> CachePage] /\ c[old] = Blank(r) /\ \A p \in Pages : p # old => c[p] = t[p]
      BY <1>2, <3>2, <3>4, <3>5
    <3> QED BY <3>2, <3>5, <3>6 DEF OtherAfter
  <2> QED BY <2>1, <2>2
<1> HIDE DEF stale, old
<1>4. c[own] = t[own] /\ t[own] \in CachePage
  BY <1>2, <1>3
<1>5. y \in CachePage /\ y.hash = h /\ y.prev = t[own].prev /\ y.refs = t[own].refs /\ y.toks = t[own].toks /\ y.saved = {}
  <2>1. {} \in SUBSET Save
    OBVIOUS
  <2> QED BY <1>4, <2>1 DEF CachePage
<1>6. u = [c EXCEPT ![own] = y]
  BY <1>3 DEF UpdateHash
<1> HIDE DEF y, u
<1>7. u \in [Pages -> CachePage] /\ u[own] = y /\ \A p \in Pages : p # own => u[p] = c[p]
  BY <1>3, <1>5, <1>6
<1>8. OwnAfter(t[own], u[own], h, TRUE, FALSE)
  BY <1>5, <1>7 DEF OwnAfter
<1>9. \A p \in Pages : p # own => OtherAfter(t[p], u[p]) /\ (t[p].refs > 0 => u[p] = t[p])
  BY <1>3, <1>7
<1> QED BY <1>7, <1>8, <1>9 DEF u, HashedTo

\* A page linked to a hash, if there is one.
LEMMA LinkFields ==
  ASSUME NEW u \in [Pages -> CachePage], NEW p \in Pages, NEW h \in Seq(Int)
  PROVE  LET v == Link(u, p, h)
         IN  /\ v \in [Pages -> CachePage] /\ OwnAfter(u[p], v[p], h, FALSE, TRUE)
             /\ \A q \in Pages : q # p => v[q] = u[q]
<1> DEFINE y == [u[p] EXCEPT !.prev = h, !.saved = {}]
           v == Link(u, p, h)
<1>1. y \in CachePage /\ y.hash = u[p].hash /\ y.prev = h /\ y.refs = u[p].refs /\ y.toks = u[p].toks /\ y.saved = {}
  <2>1. {} \in SUBSET Save /\ u[p] \in CachePage
    OBVIOUS
  <2> QED BY <2>1 DEF CachePage
<1>2. v = [u EXCEPT ![p] = y]
  BY DEF Link
<1> HIDE DEF y, v
<1>3. v \in [Pages -> CachePage] /\ v[p] = y /\ \A q \in Pages : q # p => v[q] = u[q]
  BY <1>1, <1>2
<1>4. OwnAfter(u[p], v[p], h, FALSE, TRUE)
  BY <1>1, <1>3 DEF OwnAfter
<1> QED BY <1>3, <1>4 DEF v

\* A page that is full and has no twin.
LEMMA DoneAlone ==
  ASSUME NEW t, NEW j, NEW f, NEW h, Under(h, t, Referenced(t)) = {}
  PROVE  LET u == UpdateHash(Cleared(t, h), PageAt(j, f), h)
         IN  /\ PageDone(t, j, f, h).table = (IF f + 1 < Len(job[j].pages) THEN Link(u, PageAt(j, f + 1), h) ELSE u)
             /\ PageDone(t, j, f, h).pages = job[j].pages /\ PageDone(t, j, f, h).ok
<1> DEFINE own == PageAt(j, f)
           twins == Under(h, t, Referenced(t))
           stale == Under(h, t, Unreferenced(t))
           twin == CHOOSE q \in twins : TRUE
           cleared == IF stale = {} THEN t ELSE Clear(t, CHOOSE q \in stale : TRUE)
           hashed == IF twins # {} THEN Switch(t, own, twin) ELSE UpdateHash(cleared, own, h)
           linked == IF f + 1 < Len(job[j].pages) THEN Link(hashed, PageAt(j, f + 1), h) ELSE hashed
           pages == IF twins = {} THEN job[j].pages ELSE [job[j].pages EXCEPT ![f + 1] = twin]
           ok == twins = {} \/ Complete(t, twin)
<1>1. PageDone(t, j, f, h) = [table |-> linked, pages |-> pages, ok |-> ok]
  BY Zenon DEF PageDone
<1>2. hashed = UpdateHash(Cleared(t, h), own, h)
  BY DEF Cleared
<1>3. pages = job[j].pages /\ ok
  OBVIOUS
<1> HIDE DEF hashed, pages, ok
<1>4. linked = IF f + 1 < Len(job[j].pages) THEN Link(hashed, PageAt(j, f + 1), h) ELSE hashed
  OBVIOUS
<1> HIDE DEF linked
<1>5. /\ PageDone(t, j, f, h).table = linked /\ PageDone(t, j, f, h).pages = pages
      /\ PageDone(t, j, f, h).ok = ok
  BY <1>1
<1> QED BY <1>2, <1>3, <1>4, <1>5

\* With one job no other page has the hash of the completed one.
LEMMA CompletedAlone ==
  ASSUME IInv, MaxBatch = 1, phase = "decode", todo # <<>>, NEW j, j = todo[1], PrefillDone(j), NEW d \in 0 .. Depth,
         WindowOk(j, d), NEW draft, NEW n, NEW token, NEW eos, Choice(j, d, draft, n, token, eos)
  PROVE  Finished(Completed(j, draft, n, token), Written(j, draft), j,
                  NewPos(j, n) \div PageSize # FirstPage(j), NewHash(j, draft, n, token))
<1>1. SUFFICES ASSUME NEW f, NEW g, NEW t, NEW h, NEW own, NEW c, NEW L, f = FirstPage(j),
                      g = NewPos(j, n) \div PageSize, t = Written(j, draft), h = NewHash(j, draft, n, token),
                      own = PageAt(j, f), c = Completed(j, draft, n, token), L = Len(job[j].pages)
               PROVE  Finished(c, t, j, g # f, h)
  OBVIOUS
<1>2. draft \in [1 .. d -> Tokens] /\ n \in 1 .. d + 1 /\ token \in Tokens
  BY DEF Choice
<1>3. /\ j \in Jobs /\ j \in ToSet(active) /\ JobTypes /\ TableOk(table) /\ PagesOf(j) /\ f \in Nat /\ f < L /\ L \in Nat
      /\ table[own].refs = 1 /\ own \in Pages /\ own \in ToSet(job[j].pages) /\ f \in 0 .. L - 1
      /\ \A i \in 0 .. L - 1 : PageAt(j, i) \in Pages /\ PageAt(j, i) \in ToSet(job[j].pages)
      /\ \A i, x \in 0 .. L - 1 : PageAt(j, i) = PageAt(j, x) => i = x
      /\ \A i \in f .. L - 1 : Len(table[PageAt(j, i)].hash) = 1
  <2>1. /\ j \in Jobs /\ j \in Running /\ JobTypes /\ TableOk(table) /\ PagesOf(j) /\ f \in Nat /\ L \in Nat
        /\ f <= LastPage(j, d) /\ LastPage(j, d) < L /\ LastPage(j, d) \in Nat
        /\ \A i \in f .. LastPage(j, d) : table[PageAt(j, i)].refs = 1
        /\ \A i \in 0 .. L - 1 : PageAt(j, i) \in Pages /\ PageAt(j, i) \in ToSet(job[j].pages)
        /\ \A i, x \in 0 .. L - 1 : PageAt(j, i) = PageAt(j, x) => i = x
        /\ \A i \in f .. L - 1 : Len(table[PageAt(j, i)].hash) = 1
    BY <1>1, DecodeStart
  <2>2. f < L /\ f \in f .. LastPage(j, d) /\ f \in 0 .. L - 1
    BY <2>1
  <2>3. j \in ToSet(active)
    BY <2>1 DEF Running, Working
  <2> QED BY <1>1, <2>1, <2>2, <2>3
<1>4. /\ TableOk(t) /\ t \in [Pages -> CachePage]
      /\ \A p \in Pages : t[p].hash = table[p].hash /\ t[p].refs = table[p].refs
  BY <1>1, <1>2, WrittenTable DEF TableOk
<1>5. \A p \in Pages : t[p].refs \in {0, 1} /\ (t[p].refs > 0 <=> p \in ToSet(job[j].pages))
  <2>1. \A p \in Pages : table[p].refs \in {0, 1} /\ (table[p].refs > 0 <=> p \in ToSet(job[j].pages))
    BY <1>3, Alone
  <2> QED BY <1>4, <2>1
<1>6. CASE g = f
  <2>1. c.table = t /\ c.pages = job[j].pages /\ c.ok
    BY <1>1, <1>6 DEF Completed
  <2> QED BY <1>4, <1>6, <2>1 DEF Finished, OwnAfter, OtherAfter
<1>7. CASE g # f
  <2>1. c = PageDone(t, j, f, h)
    BY <1>1, <1>7 DEF Completed
  <2>2. h \in Seq(Int) /\ Len(h) >= PageSize /\ \A x \in 1 .. f : Grows(Own(j, x).hash, h)
    <3>1. NewPos(j, n) \div PageSize # FirstPage(j)
      BY <1>1, <1>7
    <3> QED BY <1>1, <3>1, NewHashOk
  <2>3. Under(h, t, Referenced(t)) = {}
    <3> SUFFICES ASSUME NEW q \in Pages, t[q].hash = h, t[q].refs > 0 PROVE FALSE
      BY DEF Under, Referenced
    <3>1. q \in ToSet(job[j].pages)
      BY <1>5
    <3>2. PICK x \in 1 .. L : q = job[j].pages[x]
      BY <1>1, <1>3, <3>1, PageIn DEF ToSet
    <3>3. CASE x <= f
      <4>1. x \in 1 .. f
        BY <1>3, <3>3
      <4>2. Grows(h, h)
        BY <1>4, <2>2, <3>2, <4>1 DEF Own
      <4>3. Len(h) \in Nat
        BY <2>2
      <4> QED BY <4>2, <4>3 DEF Grows
    <3>4. CASE ~(x <= f)
      <4>1. x - 1 \in f .. L - 1 /\ (x - 1) + 1 = x
        BY <1>3, <3>4
      <4>2. Len(table[q].hash) = 1
        BY <1>3, <3>2, <4>1 DEF PageAt
      <4>3. Len(h) = 1
        BY <1>4, <4>2
      <4> QED BY <2>2, <4>3, LongHash
    <3> QED BY <3>3, <3>4
  <2> DEFINE u == UpdateHash(Cleared(t, h), PageAt(j, f), h)
             v == IF f + 1 < Len(job[j].pages) THEN Link(u, PageAt(j, f + 1), h) ELSE u
  <2>4. c.table = v /\ c.pages = job[j].pages /\ c.ok
    BY <2>1, <2>3, DoneAlone
  <2>5. t[own].refs = 1
    BY <1>3, <1>4
  <2>6. /\ u \in [Pages -> CachePage] /\ OwnAfter(t[own], u[own], h, TRUE, FALSE)
        /\ \A p \in Pages : p # own => OtherAfter(t[p], u[p]) /\ (t[p].refs > 0 => u[p] = t[p])
    <3> DEFINE a == Cleared(t, h)
    <3>1. u = UpdateHash(a, own, h)
      BY <1>1
    <3> HIDE DEF u
    <3>2. HashedTo(t, UpdateHash(a, own, h), own, h)
      <4> HIDE DEF a
      <4>1. /\ TableOk(t) /\ own \in Pages /\ t[own].refs = 1 /\ h \in Seq(Int)
            /\ a = Cleared(t, h)
        BY <1>3, <1>4, <2>2, <2>5 DEF a
      <4> QED BY <4>1, HashedFields
    <3> QED BY <3>1, <3>2 DEF HashedTo
  <2> HIDE DEF u
  <2>7. \A i \in 0 .. L - 1 : (i # f => PageAt(j, i) # own)
                              /\ (f + 1 < L /\ i # f + 1 => PageAt(j, i) # PageAt(j, f + 1))
    <3>1. f + 1 < L => f + 1 \in 0 .. L - 1
      BY <1>3
    <3> QED BY <1>1, <1>3, <3>1
  <2>8. /\ v \in [Pages -> CachePage]
        /\ \A p \in Pages : (f + 1 < L /\ p = PageAt(j, f + 1)) \/ v[p] = u[p]
        /\ f + 1 < L => OwnAfter(u[PageAt(j, f + 1)], v[PageAt(j, f + 1)], h, FALSE, TRUE)
    <3>1. CASE f + 1 < L
      <4>1. f + 1 \in 0 .. L - 1
        BY <1>3, <3>1
      <4> DEFINE p == PageAt(j, f + 1)
      <4>2. p \in Pages
        BY <1>3, <4>1
      <4> HIDE DEF p
      <4>3. LET w == Link(u, p, h)
            IN  /\ w \in [Pages -> CachePage] /\ OwnAfter(u[p], w[p], h, FALSE, TRUE)
                /\ \A q \in Pages : q # p => w[q] = u[q]
        BY <2>2, <2>6, <4>2, LinkFields
      <4>4. v = Link(u, p, h)
        BY <1>1, <3>1 DEF p
      <4> HIDE DEF v
      <4> QED BY <3>1, <4>3, <4>4 DEF p
    <3>2. CASE ~(f + 1 < L)
      <4>1. v = u
        BY <1>1, <3>2
      <4> HIDE DEF v
      <4> QED BY <2>6, <3>2, <4>1
    <3> QED BY <3>1, <3>2
  <2> HIDE DEF v
  <2>9. ASSUME NEW i \in 0 .. L - 1
        PROVE  OwnAfter(t[PageAt(j, i)], v[PageAt(j, i)], h, i = f, i = f + 1)
    <3> DEFINE p == PageAt(j, i)
    <3>1. p \in Pages /\ t[p].refs > 0
      BY <1>3, <1>5
    <3>2. CASE i = f
      <4>1. p = own /\ i # f + 1
        BY <1>1, <1>3, <3>2
      <4>2. v[p] = u[p]
        BY <2>7, <2>8, <3>1, <4>1
      <4> QED BY <2>6, <3>2, <4>1, <4>2 DEF OwnAfter
    <3>3. CASE i = f + 1
      <4>1. i # f /\ p # own /\ f + 1 < L
        BY <1>3, <2>7, <3>3
      <4>2. u[p] = t[p]
        BY <2>6, <3>1, <4>1
      <4>3. OwnAfter(u[p], v[p], h, FALSE, TRUE)
        BY <2>8, <3>3, <4>1
      <4> QED BY <3>3, <4>1, <4>2, <4>3 DEF OwnAfter
    <3>4. CASE i # f /\ i # f + 1
      <4>1. v[p] = u[p] /\ u[p] = t[p]
        BY <2>6, <2>7, <2>8, <3>1, <3>4
      <4> QED BY <3>4, <4>1 DEF OwnAfter
    <3> QED BY <3>2, <3>3, <3>4
  <2>10. ASSUME NEW p \in Pages, p \notin ToSet(job[j].pages) PROVE OtherAfter(t[p], v[p])
    <3>1. p # own /\ (f + 1 < L => p # PageAt(j, f + 1))
      <4>1. f + 1 < L => f + 1 \in 0 .. L - 1
        BY <1>3
      <4> QED BY <1>3, <2>10, <4>1
    <3> QED BY <2>6, <2>8, <3>1
  <2>11. \A i \in 0 .. L - 1 : OwnAfter(t[PageAt(j, i)], v[PageAt(j, i)], h, g # f /\ i = f, g # f /\ i = f + 1)
    <3> SUFFICES ASSUME NEW i \in 0 .. L - 1
                 PROVE  OwnAfter(t[PageAt(j, i)], v[PageAt(j, i)], h, g # f /\ i = f, g # f /\ i = f + 1)
      OBVIOUS
    <3>1. (g # f /\ i = f) <=> i = f
      BY <1>7
    <3>2. (g # f /\ i = f + 1) <=> i = f + 1
      BY <1>7
    <3> QED BY <2>9, <3>1, <3>2 DEF OwnAfter
  <2> QED BY <1>1, <2>4, <2>8, <2>10, <2>11 DEF Finished
<1> QED BY <1>6, <1>7

\* What a window, as a whole, does to a page of the job from its position on,
\* and to every page.
OwnWindow(x, y, h, full, next, row, m, end, at) ==
  /\ y.hash = (IF full THEN h ELSE x.hash) /\ y.prev = (IF next THEN h ELSE x.prev)
  /\ y.saved \subseteq x.saved /\ (m < end => y.saved = {})
  /\ LaidPage(y, row, m, at)
SamePage(x, y) == y.hash = x.hash /\ y.prev = x.prev /\ y.toks = x.toks /\ y.saved \subseteq x.saved
Windowed(t, j, full, h, row, end, at) ==
  /\ \A i \in 0 .. Len(job[j].pages) - 1 : i < FirstPage(j) => SamePage(table[PageAt(j, i)], t[PageAt(j, i)])
  /\ \A i \in FirstPage(j) .. Len(job[j].pages) - 1 :
       OwnWindow(table[PageAt(j, i)], t[PageAt(j, i)], h, full /\ i = FirstPage(j), full /\ i = FirstPage(j) + 1,
                 row, i * PageSize, end, at)
  /\ \A p \in Pages : p \notin ToSet(job[j].pages) => OtherAfter(table[p], t[p])

\* Taking back what was not accepted only cuts pages of the window.
LEMMA RejectedCuts ==
  ASSUME NEW u \in [Pages -> CachePage], NEW pages, NEW pos, NEW r, NEW f, Remainder(pages, pos, r, f)
  PROVE  Shorter(u, Rejected(u, pages, pos, r), pages, f, Len(pages) - 1)
<1>1. pages \in Seq(Pages) /\ pos \in Nat /\ r \in Nat /\ f \in Nat
  BY DEF Remainder
<1>2. \A x \in pos .. pos + r - 1 : x \div PageSize \in f .. Len(pages) - 1
  BY DEF Remainder
<1>3. \A i \in f .. Len(pages) - 1 : i \in 0 .. Len(pages) - 1
  BY <1>1
<1>4. Behind(u, pages, pos, r, f, Len(pages) - 1)
  BY <1>1, <1>2, <1>3 DEF Behind
<1> QED BY <1>4, RejectedOk

\* What is taken back of a window is in pages from the job's position on.
LEMMA WindowRemainder ==
  ASSUME IInv, phase = "decode", todo # <<>>, NEW j, j = todo[1], PrefillDone(j), NEW d \in 0 .. Depth, WindowOk(j, d),
         NEW n \in 1 .. d + 1
  PROVE  /\ Remainder(job[j].pages, NewPos(j, n), d + 1 - n, FirstPage(j))
         /\ NewPos(j, n) + (d + 1 - n) = job[j].kvp + d + 1
<1>1. SUFFICES ASSUME NEW k, NEW L, NEW f, NEW l, NEW pos, k = job[j].kvp, L = Len(job[j].pages), f = FirstPage(j),
                      l = LastPage(j, d), pos = NewPos(j, n)
               PROVE  Remainder(job[j].pages, pos, d + 1 - n, f) /\ pos + (d + 1 - n) = k + d + 1
  OBVIOUS
<1>2. /\ k \in Nat /\ d \in Nat /\ f \in Nat /\ l \in Nat /\ l < L /\ L \in Nat /\ n \in Nat /\ 1 <= n /\ n <= d + 1
      /\ j \in Jobs /\ JobTypes
      /\ \A a, b \in 0 .. L - 1 : PageAt(j, a) = PageAt(j, b) => a = b
  BY <1>1, DecodeStart
<1>3. pos = k + n
  BY <1>1 DEF NewPos
<1>4. job[j].pages \in Seq(Pages)
  BY <1>2 DEF JobTypes, Job
<1>5. ASSUME NEW x \in pos .. pos + (d + 1 - n) - 1 PROVE x \div PageSize \in f .. L - 1
  <2>1. x \in Nat /\ k <= x /\ x <= k + d
    BY <1>2, <1>3
  <2>2. x \in Nat /\ job[j].kvp <= x /\ x <= job[j].kvp + d /\ job[j].kvp \in Nat /\ d \in Nat
    BY <1>1, <1>2, <2>1
  <2>3. x \div PageSize \in FirstPage(j) .. LastPage(j, d) /\ x \div PageSize \in Nat
    BY <2>2, WindowPage
  <2> DEFINE z == x \div PageSize
  <2>4. z \in f .. l /\ z \in Nat
    BY <1>1, <2>3
  <2> HIDE DEF z
  <2>5. z \in f .. L - 1
    BY <1>2, <2>4
  <2> QED BY <2>5 DEF z
<1>6. \A a, b \in 0 .. L - 1 : job[j].pages[a + 1] = job[j].pages[b + 1] => a = b
  BY <1>2 DEF PageAt
<1>7. pos \in Nat /\ d + 1 - n \in Nat /\ pos + (d + 1 - n) = k + d + 1
  BY <1>2, <1>3
<1>8. Remainder(job[j].pages, pos, d + 1 - n, f)
  BY <1>1, <1>2, <1>4, <1>5, <1>6, <1>7 DEF Remainder
<1> QED BY <1>7, <1>8

\* The window written, and its first page completed if it is full.
LEMMA WindowDone ==
  ASSUME IInv, Contents, MaxBatch = 1, phase = "decode", todo # <<>>, NEW j, j = todo[1], PrefillDone(j),
         NEW d \in 0 .. Depth, WindowOk(j, d), NEW draft, NEW n, NEW token, NEW eos, Choice(j, d, draft, n, token, eos)
  PROVE  Windowed(Completed(j, draft, n, token).table, j, NewPos(j, n) \div PageSize # FirstPage(j),
                  NewHash(j, draft, n, token), Row(j, draft), job[j].kvp + d + 1, job[j].kvp + d + 1)
<1>1. SUFFICES ASSUME NEW t, NEW u, NEW c, NEW h, NEW full, NEW row, NEW e, NEW f, NEW l, NEW L,
                      t = Written(j, draft), c = Completed(j, draft, n, token), u = c.table,
                      h = NewHash(j, draft, n, token), full = (NewPos(j, n) \div PageSize # FirstPage(j)),
                      row = Row(j, draft), e = job[j].kvp + d + 1, f = FirstPage(j), l = LastPage(j, d),
                      L = Len(job[j].pages)
               PROVE  Windowed(u, j, full, h, row, e, e)
  OBVIOUS
<1>2. draft \in [1 .. d -> Tokens]
  BY DEF Choice
<1>3. /\ f \in Nat /\ l \in Nat /\ l < L /\ L \in Nat /\ job[j].kvp \in Nat /\ d \in Nat
      /\ \A i \in 0 .. L - 1 : PageAt(j, i) \in Pages /\ PageAt(j, i) \in ToSet(job[j].pages)
      /\ \A a, b \in 0 .. L - 1 : PageAt(j, a) = PageAt(j, b) => a = b
  BY <1>1, DecodeStart
<1>4. Wrote(table, t, j, f, l) /\ \A p \in Pages : t[p] = table[p] \/ p \in ToSet(job[j].pages)
  BY <1>1, <1>2, WrittenTable
<1>5. \A p \in Pages : t[p].hash = table[p].hash /\ t[p].prev = table[p].prev
  BY <1>1, <1>2, WrittenTable
<1>6. Laid(t, job[j].pages, f, row, e) /\ Unsaved(t, j, e)
  BY <1>1, <1>2, WrittenLaid
<1>7. Finished(c, t, j, full, h)
  BY <1>1, CompletedAlone
<1>8. /\ \A i \in 0 .. L - 1 : OwnAfter(t[PageAt(j, i)], u[PageAt(j, i)], h, full /\ i = f, full /\ i = f + 1)
      /\ \A p \in Pages : p \notin ToSet(job[j].pages) => OtherAfter(t[p], u[p])
  BY <1>1, <1>7 DEF Finished
<1>9. ASSUME NEW i \in 0 .. L - 1, i < f PROVE SamePage(table[PageAt(j, i)], u[PageAt(j, i)])
  <2> DEFINE p == PageAt(j, i)
  <2>1. p \in Pages
    BY <1>3
  <2>2. \A b \in f .. l : b < Len(job[j].pages) => p # PageAt(j, b)
    <3> SUFFICES ASSUME NEW b \in f .. l, p = PageAt(j, b) PROVE FALSE
      OBVIOUS
    <3>1. b \in 0 .. L - 1 /\ b # i
      BY <1>3, <1>9
    <3> QED BY <1>3, <3>1
  <2>3. t[p] = table[p]
    BY <1>4, <2>1, <2>2 DEF Wrote
  <2>4. OwnAfter(t[p], u[p], h, full /\ i = f, full /\ i = f + 1)
    BY <1>8
  <2>5. ~(full /\ i = f) /\ ~(full /\ i = f + 1)
    BY <1>3, <1>9
  <2> HIDE DEF p
  <2>6. SamePage(table[p], u[p])
    BY <2>3, <2>4, <2>5 DEF OwnAfter, SamePage
  <2> QED BY <2>6 DEF p
<1>10. ASSUME NEW i \in f .. L - 1
       PROVE  OwnWindow(table[PageAt(j, i)], u[PageAt(j, i)], h, full /\ i = f, full /\ i = f + 1, row, i * PageSize, e, e)
  <2> DEFINE p == PageAt(j, i)
             m == i * PageSize
  <2>1. i \in 0 .. L - 1
    BY <1>3
  <2>2. p \in Pages
    BY <1>3, <2>1
  <2>3. OwnAfter(t[p], u[p], h, full /\ i = f, full /\ i = f + 1)
    BY <1>8, <2>1
  <2>4. LaidPage(t[p], row, m, e)
    BY <1>1, <1>6 DEF Laid, PageAt
  <2>5. t[p].saved \subseteq table[p].saved /\ (m < e => t[p].saved = {})
    <3>1. job[j].kvp < e
      BY <1>1, <1>3
    <3> QED BY <1>1, <1>6, <3>1 DEF Unsaved
  <2>6. t[p].hash = table[p].hash /\ t[p].prev = table[p].prev
    BY <1>5, <2>2
  <2> HIDE DEF p, m
  <2>7. u[p].toks = t[p].toks /\ u[p].saved \subseteq t[p].saved
    BY <2>3 DEF OwnAfter
  <2>8. LaidPage(u[p], row, m, e)
    BY <2>4, <2>7 DEF LaidPage
  <2>9. u[p].saved \subseteq table[p].saved /\ (m < e => u[p].saved = {})
    BY <2>5, <2>7
  <2>10. OwnWindow(table[p], u[p], h, full /\ i = f, full /\ i = f + 1, row, m, e, e)
    BY <2>3, <2>6, <2>8, <2>9 DEF OwnAfter, OwnWindow
  <2> QED BY <2>10 DEF p, m
<1>11. ASSUME NEW p \in Pages, p \notin ToSet(job[j].pages) PROVE OtherAfter(table[p], u[p])
  <2>1. t[p] = table[p]
    BY <1>4, <1>11
  <2> QED BY <1>8, <1>11, <2>1
<1> QED BY <1>1, <1>9, <1>10, <1>11 DEF Windowed

\* Cutting a page takes nothing but tokens from it.
LEMMA CutWindow ==
  ASSUME NEW x, NEW y, NEW z, z = y \/ Shortened(y, z), NEW h, NEW full, NEW next, NEW row, NEW m, NEW end, NEW at,
         OwnWindow(x, y, h, full, next, row, m, end, end), LaidPage(z, row, m, at)
  PROVE  OwnWindow(x, z, h, full, next, row, m, end, at)
<1>1. z.hash = y.hash /\ z.prev = y.prev /\ z.saved = y.saved
  BY DEF Shortened
<1> QED BY <1>1 DEF OwnWindow

\* The window as a whole.
LEMMA WindowTable ==
  ASSUME IInv, Contents, MaxBatch = 1, phase = "decode", todo # <<>>, NEW j, j = todo[1], PrefillDone(j),
         NEW d \in 0 .. Depth, WindowOk(j, d), NEW draft, NEW n, NEW token, NEW eos, Choice(j, d, draft, n, token, eos)
  PROVE  /\ Completed(j, draft, n, token).ok /\ Completed(j, draft, n, token).pages = job[j].pages
         /\ Windowed(After(j, draft, n, token, eos), j, NewPos(j, n) \div PageSize # FirstPage(j),
                     NewHash(j, draft, n, token), Row(j, draft), job[j].kvp + d + 1,
                     IF eos THEN job[j].kvp + d + 1 ELSE NewPos(j, n))
<1>1. SUFFICES ASSUME NEW v, NEW u, NEW c, NEW h, NEW full, NEW row, NEW e, NEW f, NEW L, NEW pos, NEW at, NEW pages,
                      v = After(j, draft, n, token, eos), c = Completed(j, draft, n, token), u = c.table,
                      h = NewHash(j, draft, n, token), full = (NewPos(j, n) \div PageSize # FirstPage(j)),
                      row = Row(j, draft), e = job[j].kvp + d + 1, f = FirstPage(j), pages = job[j].pages,
                      L = Len(pages), pos = NewPos(j, n),
                      at = IF eos THEN job[j].kvp + d + 1 ELSE NewPos(j, n)
               PROVE  c.ok /\ c.pages = pages /\ Windowed(v, j, full, h, row, e, at)
  OBVIOUS
<1>2. draft \in [1 .. d -> Tokens] /\ n \in 1 .. d + 1 /\ Len(draft) = d
  <2>1. draft \in [1 .. d -> Tokens] /\ n \in 1 .. d + 1 /\ d \in Nat
    BY DecodeStart DEF Choice
  <2> QED BY <2>1, SeqOfFunction
<1>3. /\ f \in Nat /\ L \in Nat /\ f < L
      /\ \A i \in 0 .. L - 1 : PageAt(j, i) \in Pages /\ PageAt(j, i) \in ToSet(pages)
      /\ \A a, b \in 0 .. L - 1 : PageAt(j, a) = PageAt(j, b) => a = b
  <2>1. /\ f \in Nat /\ L \in Nat /\ f <= LastPage(j, d) /\ LastPage(j, d) < L /\ LastPage(j, d) \in Nat
        /\ \A i \in 0 .. L - 1 : PageAt(j, i) \in Pages /\ PageAt(j, i) \in ToSet(pages)
        /\ \A a, b \in 0 .. L - 1 : PageAt(j, a) = PageAt(j, b) => a = b
    BY <1>1, DecodeStart
  <2>2. f < L
    BY <2>1
  <2> QED BY <2>1, <2>2
<1>4. c.ok /\ c.pages = pages /\ u \in [Pages -> CachePage]
  BY <1>1, CompletedAlone DEF Finished
<1>5. Windowed(u, j, full, h, row, e, e)
  BY <1>1, WindowDone
<1>6. CASE eos
  <2>1. v = u
    BY <1>1, <1>6 DEF After
  <2>2. at = e
    BY <1>1, <1>6
  <2> QED BY <1>4, <1>5, <2>1, <2>2
<1>7. CASE ~eos
  <2>1. v = Rejected(u, pages, pos, d + 1 - n)
    <3>1. v = Rejected(c.table, c.pages, NewPos(j, n), Len(draft) + 1 - n)
      BY <1>1, <1>7 DEF After
    <3> QED BY <1>1, <1>2, <1>4, <3>1
  <2>2. Remainder(pages, pos, d + 1 - n, f) /\ pos + (d + 1 - n) = e
    BY <1>1, <1>2, WindowRemainder
  <2>3. \A i \in f .. L - 1 : OwnWindow(table[PageAt(j, i)], u[PageAt(j, i)], h, full /\ i = f, full /\ i = f + 1,
                                        row, i * PageSize, e, e)
    BY <1>1, <1>5 DEF Windowed
  <2>4. Laid(u, pages, f, row, e)
    <3>1. \A i \in f .. L - 1 : LaidPage(u[PageAt(j, i)], row, i * PageSize, e)
      BY <2>3 DEF OwnWindow
    <3> QED BY <1>1, <3>1 DEF Laid, PageAt
  <2>5. Laid(v, pages, f, row, pos)
    <3>1. Laid(u, pages, f, row, pos + (d + 1 - n))
      BY <2>2, <2>4
    <3> DEFINE r == d + 1 - n
    <3>2. Remainder(pages, pos, r, f) /\ Laid(u, pages, f, row, pos + r) /\ v = Rejected(u, pages, pos, r)
      BY <2>1, <2>2, <3>1
    <3> HIDE DEF r
    <3> QED BY <1>4, <3>2, RejectedLaid
  <2>6. \A i \in f .. L - 1 : LaidPage(v[PageAt(j, i)], row, i * PageSize, pos)
    BY <1>1, <2>5 DEF Laid, PageAt
  <2>7. Shorter(u, v, pages, f, L - 1)
    <3> DEFINE r == d + 1 - n
    <3>1. Remainder(pages, pos, r, f) /\ v = Rejected(u, pages, pos, r)
      BY <2>1, <2>2
    <3> HIDE DEF r
    <3>2. Shorter(u, Rejected(u, pages, pos, r), pages, f, Len(pages) - 1)
      BY <1>4, <3>1, RejectedCuts
    <3> QED BY <1>1, <3>1, <3>2
  <2>8. \A p \in Pages : (\A i \in f .. L - 1 : p # PageAt(j, i)) => v[p] = u[p]
    BY <1>1, <2>7 DEF Shorter, PageAt
  <2>9. ASSUME NEW i \in 0 .. L - 1, i < f PROVE SamePage(table[PageAt(j, i)], v[PageAt(j, i)])
    <3>1. SamePage(table[PageAt(j, i)], u[PageAt(j, i)])
      BY <1>1, <1>5, <2>9 DEF Windowed
    <3>2. \A b \in f .. L - 1 : PageAt(j, i) # PageAt(j, b)
      <4> SUFFICES ASSUME NEW b \in f .. L - 1, PageAt(j, i) = PageAt(j, b) PROVE FALSE
        OBVIOUS
      <4>1. b \in 0 .. L - 1 /\ b # i
        BY <1>3, <2>9
      <4> QED BY <1>3, <4>1
    <3>3. v[PageAt(j, i)] = u[PageAt(j, i)]
      BY <1>3, <2>8, <3>2
    <3> QED BY <3>1, <3>3
  <2>10. ASSUME NEW i \in f .. L - 1
         PROVE  OwnWindow(table[PageAt(j, i)], v[PageAt(j, i)], h, full /\ i = f, full /\ i = f + 1, row,
                          i * PageSize, e, pos)
    <3> DEFINE p == PageAt(j, i)
               m == i * PageSize
               a == (full /\ i = f)
               b == (full /\ i = f + 1)
               x == table[p]
               y == u[p]
               z == v[p]
    <3>1. i \in 0 .. L - 1
      BY <1>3
    <3>2. p \in Pages
      BY <1>3, <3>1
    <3>3. z = y \/ Shortened(y, z)
      BY <2>7, <3>2 DEF Shorter
    <3>4. OwnWindow(x, y, h, a, b, row, m, e, e) /\ LaidPage(z, row, m, pos)
      BY <2>3, <2>6
    <3> HIDE DEF x, y, z, a, b, m
    <3>5. OwnWindow(x, z, h, a, b, row, m, e, pos)
      BY <3>3, <3>4, CutWindow
    <3> QED BY <3>5 DEF x, z, a, b, m
  <2>11. ASSUME NEW p \in Pages, p \notin ToSet(pages) PROVE OtherAfter(table[p], v[p])
    <3>1. \A i \in f .. L - 1 : p # PageAt(j, i)
      <4> SUFFICES ASSUME NEW i \in f .. L - 1, p = PageAt(j, i) PROVE FALSE
        OBVIOUS
      <4>1. i \in 0 .. L - 1
        BY <1>3
      <4> QED BY <1>3, <2>11, <4>1
    <3>2. v[p] = u[p]
      BY <2>8, <3>1
    <3>3. OtherAfter(table[p], u[p])
      BY <1>1, <1>5, <2>11 DEF Windowed
    <3> QED BY <3>2, <3>3
  <2>12. Windowed(v, j, full, h, row, e, pos)
    BY <1>1, <2>9, <2>10, <2>11 DEF Windowed
  <2>13. at = pos
    BY <1>1, <1>7
  <2> QED BY <1>4, <2>12, <2>13
<1> QED BY <1>6, <1>7

\* Sequences with the same first elements.
LEMMA SameFirst ==
  ASSUME NEW S, NEW s \in Seq(S), NEW t \in Seq(S), NEW m \in Nat, m <= Len(s), m <= Len(t),
         \A k \in 1 .. m : s[k] = t[k]
  PROVE  SubSeq(s, 1, m) = SubSeq(t, 1, m)
<1> DEFINE a == SubSeq(s, 1, m)
           b == SubSeq(t, 1, m)
<1>1. a \in Seq(S) /\ Len(a) = m /\ \A i \in 1 .. m : a[i] = s[i]
  BY PrefixOf
<1>2. b \in Seq(S) /\ Len(b) = m /\ \A i \in 1 .. m : b[i] = t[i]
  BY PrefixOf
<1> HIDE DEF a, b
<1>3. \A i \in 1 .. Len(a) : a[i] = b[i]
  BY <1>1, <1>2
<1>4. a = b
  BY <1>1, <1>2, <1>3, SeqEqual
<1> QED BY <1>4 DEF a, b

AsFed(seen, row, ids, n, d, S) ==
  /\ seen \in Seq(S) /\ Len(seen) = Len(ids) + n /\ row \in Seq(S) /\ Len(row) = Len(ids) + d
  /\ \A x \in 1 .. Len(ids) + n - 1 : seen[x] = row[x]
  /\ \A x \in 1 .. Len(ids) : seen[x] = ids[x]

\* Up to its new position a job has seen what it fed.
LEMMA SeenRow ==
  ASSUME NEW j, NEW S, job[j].ids \in Seq(S), NEW d \in Nat, NEW draft \in [1 .. d -> S], NEW n \in 1 .. d + 1,
         NEW token \in S
  PROVE  AsFed(Seen(j, draft, n, token), Row(j, draft), job[j].ids, n, d, S)
<1> DEFINE a == job[j].ids
           b == SubSeq(draft, 1, n - 1)
           c == <<token>>
           e == a \o b
           q == e \o c
           r == a \o draft
<1>1. a \in Seq(S) /\ Len(a) \in Nat
  OBVIOUS
<1>2. draft \in Seq(S) /\ Len(draft) = d
  BY SeqOfFunction
<1>3. b \in Seq(S) /\ Len(b) = n - 1 /\ \A i \in 1 .. n - 1 : b[i] = draft[i]
  <2>1. n - 1 \in Nat /\ n - 1 <= Len(draft)
    BY <1>2
  <2> QED BY <1>2, <2>1, PrefixOf
<1>4. c \in Seq(S) /\ Len(c) = 1
  OBVIOUS
<1>5. Seen(j, draft, n, token) = q /\ Row(j, draft) = r
  BY DEF Seen, Row
<1> HIDE DEF a, b, c, e, q, r
<1>6. e \in Seq(S) /\ Len(e) = Len(a) + (n - 1)
  <2>1. a \o b \in Seq(S) /\ Len(a \o b) = Len(a) + Len(b)
    BY <1>1, <1>3, Concat
  <2> QED BY <1>3, <2>1 DEF e
<1>7. \A i \in 1 .. Len(a) : e[i] = a[i]
  <2>1. \A i \in 1 .. Len(a) : (a \o b)[i] = a[i]
    BY <1>1, <1>3, Concat
  <2> QED BY <2>1 DEF e
<1>8. \A i \in 1 .. n - 1 : e[Len(a) + i] = draft[i]
  <2>1. \A i \in 1 .. Len(b) : (a \o b)[Len(a) + i] = b[i]
    BY <1>1, <1>3, Concat
  <2> QED BY <1>3, <2>1 DEF e
<1>9. q \in Seq(S) /\ Len(q) = Len(a) + n
  <2>1. e \o c \in Seq(S) /\ Len(e \o c) = Len(e) + Len(c)
    BY <1>4, <1>6, Concat
  <2>2. Len(e) + Len(c) = Len(a) + n
    BY <1>1, <1>4, <1>6
  <2> QED BY <2>1, <2>2 DEF q
<1>10. \A i \in 1 .. Len(a) + (n - 1) : q[i] = e[i]
  <2>1. \A i \in 1 .. Len(e) : (e \o c)[i] = e[i]
    BY <1>4, <1>6, Concat
  <2> QED BY <1>6, <2>1 DEF q
<1>11. r \in Seq(S) /\ Len(r) = Len(a) + d
  <2>1. a \o draft \in Seq(S) /\ Len(a \o draft) = Len(a) + Len(draft)
    BY <1>1, <1>2, Concat
  <2> QED BY <1>2, <2>1 DEF r
<1>12. \A i \in 1 .. Len(a) : r[i] = a[i]
  <2>1. \A i \in 1 .. Len(a) : (a \o draft)[i] = a[i]
    BY <1>1, <1>2, Concat
  <2> QED BY <2>1 DEF r
<1>13. \A i \in 1 .. d : r[Len(a) + i] = draft[i]
  <2>1. \A i \in 1 .. Len(draft) : (a \o draft)[Len(a) + i] = draft[i]
    BY <1>1, <1>2, Concat
  <2> QED BY <1>2, <2>1 DEF r
<1>14. \A x \in 1 .. Len(a) + n - 1 : q[x] = r[x]
  <2> SUFFICES ASSUME NEW x \in 1 .. Len(a) + n - 1 PROVE q[x] = r[x]
    OBVIOUS
  <2>1. q[x] = e[x]
    BY <1>1, <1>10
  <2>2. CASE x <= Len(a)
    BY <1>7, <1>12, <2>1, <2>2
  <2>3. CASE ~(x <= Len(a))
    <3> DEFINE i == x - Len(a)
    <3>1. i \in 1 .. n - 1 /\ i \in 1 .. d /\ Len(a) + i = x
      BY <1>1, <2>3
    <3> HIDE DEF i
    <3> QED BY <1>8, <1>13, <2>1, <3>1
  <2> QED BY <2>2, <2>3
<1>15. \A x \in 1 .. Len(a) : q[x] = a[x]
  BY <1>1, <1>7, <1>10
<1> QED BY <1>5, <1>9, <1>11, <1>14, <1>15 DEF a, AsFed

\* Tokens and K/V are those of the sequence, up to a position.
Follows(t, w, j, seen, pos) ==
  \A i \in 0 .. Len(job[j].pages) - 1 : \A s \in 1 .. PageSize : i * PageSize + s <= pos =>
    /\ s <= Len(t[PageAt(j, i)].toks) /\ t[PageAt(j, i)].toks[s] = seen[i * PageSize + s]
    /\ w[PageAt(j, i)][s] = SubSeq(seen, 1, i * PageSize + s)

\* The K/V of a window.
WindowKv(j, draft, d) == Forward(kv, j, Row(j, draft), job[j].kvp, job[j].kvp + d + 1)

\* The forward pass over the window writes its positions.
LEMMA WindowOverlaid ==
  ASSUME IInv, Contents, phase = "decode", todo # <<>>, NEW j, j = todo[1], PrefillDone(j), NEW d \in 0 .. Depth,
         WindowOk(j, d), NEW draft \in [1 .. d -> Tokens]
  PROVE  Overlaid(WindowKv(j, draft, d), kv, j, Row(j, draft), job[j].kvp, job[j].kvp + d + 1)
<1>1. SUFFICES ASSUME NEW k, NEW e, NEW row, NEW L, NEW f, k = job[j].kvp, e = job[j].kvp + d + 1, row = Row(j, draft),
                      L = Len(job[j].pages), f = FirstPage(j)
               PROVE  Overlaid(Forward(kv, j, row, k, e), kv, j, row, k, e)
  BY DEF WindowKv
<1>2. /\ k \in Nat /\ d \in Nat /\ kv \in Tensors /\ L \in Nat /\ f \in Nat
      /\ job[j].ids \in Seq(Tokens) /\ Len(job[j].ids) = k + 1
      /\ \A i \in 0 .. L - 1 : PageAt(j, i) \in Pages
      /\ \A a, b \in 0 .. L - 1 : PageAt(j, a) = PageAt(j, b) => a = b
  BY <1>1, DecodeStart
<1>3. Len(row) = e /\ e \in Nat
  <2>1. Len(Row(j, draft)) = Len(job[j].ids) + d
    <3>1. job[j].kvp \in Nat /\ Len(job[j].ids) = job[j].kvp + 1
      BY <1>1, <1>2
    <3>2. Len(Row(j, draft)) = job[j].kvp + 1 + d
      BY <1>2, <3>1, RowOk
    <3> QED BY <1>2, <3>1, <3>2
  <2> DEFINE r == Row(j, draft)
  <2>2. Len(r) = Len(job[j].ids) + d /\ row = r
    BY <1>1, <2>1
  <2> HIDE DEF r
  <2>3. e = k + d + 1
    BY <1>1
  <2> QED BY <1>2, <2>2, <2>3
<1>4. \A x \in k .. e - 1 : x \div PageSize \in 0 .. L - 1
  <2> SUFFICES ASSUME NEW x \in k .. e - 1 PROVE x \div PageSize \in 0 .. L - 1
    OBVIOUS
  <2>1. WindowOf(j, Row(j, draft))
    BY StartLaid
  <2>2. \A a \in job[j].kvp .. Len(row) - 1 : a \div PageSize \in FirstPage(j) .. Len(job[j].pages) - 1
    BY <1>1, <2>1 DEF WindowOf
  <2>3. \A a \in k .. e - 1 : a \div PageSize \in f .. L - 1
    BY <1>1, <1>3, <2>2
  <2> DEFINE z == x \div PageSize
  <2>4. z \in f .. L - 1
    BY <2>3
  <2> HIDE DEF z
  <2>5. z \in 0 .. L - 1
    BY <1>2, <2>4
  <2> QED BY <2>5 DEF z
<1>5. /\ Len(job[j].pages) \in Nat
      /\ \A i \in 0 .. Len(job[j].pages) - 1 : PageAt(j, i) \in Pages
      /\ \A a, b \in 0 .. Len(job[j].pages) - 1 : PageAt(j, a) = PageAt(j, b) => a = b
      /\ \A x \in k .. e - 1 : x \div PageSize \in 0 .. Len(job[j].pages) - 1
  BY <1>1, <1>2, <1>4
<1> QED BY <1>2, <1>3, <1>5, ForwardSlots

\* What was accepted of a window is in the job's pages.
LEMMA WindowFollows ==
  ASSUME IInv, Contents, MaxBatch = 1, phase = "decode", todo # <<>>, NEW j, j = todo[1], PrefillDone(j),
         NEW d \in 0 .. Depth, WindowOk(j, d), NEW draft, NEW n, NEW token, NEW eos, Choice(j, d, draft, n, token, eos)
  PROVE  Follows(After(j, draft, n, token, eos), WindowKv(j, draft, d), j, Seen(j, draft, n, token), NewPos(j, n))
<1>1. SUFFICES ASSUME NEW v, NEW w, NEW h, NEW full, NEW row, NEW e, NEW f, NEW L, NEW pos, NEW at, NEW ids, NEW seen,
                      NEW k, NEW F, v = After(j, draft, n, token, eos), w = WindowKv(j, draft, d),
                      h = NewHash(j, draft, n, token), full = (NewPos(j, n) \div PageSize # FirstPage(j)),
                      row = Row(j, draft), e = job[j].kvp + d + 1, f = FirstPage(j), L = Len(job[j].pages),
                      pos = NewPos(j, n), at = IF eos THEN job[j].kvp + d + 1 ELSE NewPos(j, n),
                      ids = job[j].ids, seen = Seen(j, draft, n, token), k = job[j].kvp, F = FirstPage(j) * PageSize
               PROVE  Follows(v, w, j, seen, pos)
  OBVIOUS
<1>2. draft \in [1 .. d -> Tokens] /\ n \in 1 .. d + 1 /\ token \in Tokens
  BY DEF Choice
<1>3. /\ k \in Nat /\ d \in Nat /\ L \in Nat /\ f \in Nat /\ ids \in Seq(Tokens) /\ Len(ids) = k + 1 /\ j \in Running
      /\ F \in Nat /\ F <= k
      /\ \A i \in 0 .. L - 1 : PageAt(j, i) \in Pages
  BY <1>1, DecodeStart
<1>4. e = k + d + 1 /\ pos = k + n /\ at = (IF eos THEN e ELSE pos) /\ F = f * PageSize
  BY <1>1 DEF NewPos
<1>5. pos \in Nat /\ at \in Nat /\ pos <= at /\ pos <= e /\ e \in Nat /\ k <= pos /\ n \in Nat
  BY <1>2, <1>3, <1>4
<1>6. /\ seen \in Seq(Tokens) /\ Len(seen) = k + 1 + n /\ row \in Seq(Tokens) /\ Len(row) = e
      /\ \A x \in 1 .. pos : seen[x] = row[x]
      /\ \A x \in 1 .. k + 1 : seen[x] = ids[x]
  <2>1. AsFed(Seen(j, draft, n, token), Row(j, draft), job[j].ids, n, d, Tokens)
    <3>1. job[j].ids \in Seq(Tokens)
      BY <1>1, <1>3
    <3> QED BY <1>2, <1>3, <3>1, SeenRow
  <2>2. /\ seen \in Seq(Tokens) /\ Len(seen) = Len(ids) + n /\ row \in Seq(Tokens) /\ Len(row) = Len(ids) + d
        /\ \A x \in 1 .. Len(ids) + n - 1 : seen[x] = row[x]
        /\ \A x \in 1 .. Len(ids) : seen[x] = ids[x]
    BY <1>1, <2>1 DEF AsFed
  <2>3. Len(ids) + n = k + 1 + n /\ Len(ids) + d = e /\ Len(ids) + n - 1 = pos
    BY <1>3, <1>4, <1>5
  <2> QED BY <1>3, <2>2, <2>3
<1>7. \A i \in 0 .. L - 1 : \A s \in 1 .. PageSize :
        w[PageAt(j, i)][s] = IF k < i * PageSize + s /\ i * PageSize + s <= e
                             THEN SubSeq(row, 1, i * PageSize + s) ELSE kv[PageAt(j, i)][s]
  <2>1. Overlaid(WindowKv(j, draft, d), kv, j, Row(j, draft), job[j].kvp, job[j].kvp + d + 1)
    BY <1>2, WindowOverlaid
  <2>2. Overlaid(w, kv, j, row, k, e)
    BY <1>1, <2>1
  <2> QED BY <1>1, <2>2 DEF Overlaid
<1>8. Windowed(v, j, full, h, row, e, at)
  BY <1>1, WindowTable
<1>9. /\ \A i \in 0 .. L - 1 : i < f => SamePage(table[PageAt(j, i)], v[PageAt(j, i)])
      /\ \A i \in f .. L - 1 : LaidPage(v[PageAt(j, i)], row, i * PageSize, at)
  BY <1>1, <1>8 DEF Windowed, OwnWindow
<1>10. Filling(j)
  BY <1>3 DEF Contents, Sound
<1> SUFFICES ASSUME NEW i \in 0 .. L - 1, NEW s \in 1 .. PageSize, i * PageSize + s <= pos
             PROVE  /\ s <= Len(v[PageAt(j, i)].toks) /\ v[PageAt(j, i)].toks[s] = seen[i * PageSize + s]
                    /\ w[PageAt(j, i)][s] = SubSeq(seen, 1, i * PageSize + s)
  BY <1>1 DEF Follows
<1> DEFINE m == i * PageSize
           p == PageAt(j, i)
<1>11. m \in Nat /\ PageSize \in Nat /\ (i < f => m + PageSize <= F) /\ i \in Nat
  <2>1. i \in Nat /\ PageSize \in Nat
    BY PageTableAssumption
  <2> QED BY <1>3, <1>4, <2>1, MultMono
<1>12. m + s <= k => s <= Len(table[p].toks) /\ table[p].toks[s] = ids[m + s] /\ kv[p][s] = SubSeq(ids, 1, m + s)
  BY <1>1, <1>10 DEF Filling, Holds
<1>13. w[p][s] = IF k < m + s /\ m + s <= e THEN SubSeq(row, 1, m + s) ELSE kv[p][s]
  BY <1>7
<1>14. i < f => v[p].toks = table[p].toks
  BY <1>9 DEF SamePage
<1>15. ~(i < f) => LaidPage(v[p], row, m, at)
  <2>1. ~(i < f) => i \in f .. L - 1
    BY <1>3
  <2> QED BY <1>9, <2>1
<1>16. m + s <= pos
  OBVIOUS
<1> HIDE DEF m, p
<1>17. m + s \in Nat /\ m + s \in 1 .. pos
  BY <1>5, <1>11, <1>16
<1>18. w[p][s] = SubSeq(seen, 1, m + s)
  <2>1. CASE m + s <= k
    <3>1. w[p][s] = SubSeq(ids, 1, m + s)
      BY <1>3, <1>12, <1>13, <1>17, <2>1
    <3>2. SubSeq(seen, 1, m + s) = SubSeq(ids, 1, m + s)
      <4>1. m + s <= Len(ids) /\ m + s <= Len(seen) /\ \A a \in 1 .. m + s : seen[a] = ids[a]
        BY <1>3, <1>5, <1>6, <1>17, <2>1
      <4> QED BY <1>3, <1>6, <1>17, <4>1, SameFirst
    <3> QED BY <3>1, <3>2
  <2>2. CASE ~(m + s <= k)
    <3>1. w[p][s] = SubSeq(row, 1, m + s)
      BY <1>3, <1>5, <1>13, <1>17, <2>2
    <3>2. SubSeq(seen, 1, m + s) = SubSeq(row, 1, m + s)
      <4>1. m + s <= Len(row) /\ m + s <= Len(seen) /\ \A a \in 1 .. m + s : seen[a] = row[a]
        BY <1>3, <1>4, <1>5, <1>6, <1>17
      <4> QED BY <1>6, <1>17, <4>1, SameFirst
    <3> QED BY <3>1, <3>2
  <2> QED BY <2>1, <2>2
<1>19. s <= Len(v[p].toks) /\ v[p].toks[s] = seen[m + s]
  <2>1. CASE i < f
    <3>1. m + s <= k
      BY <1>3, <1>11, <2>1
    <3>2. seen[m + s] = ids[m + s]
      BY <1>3, <1>6, <1>17, <3>1
    <3> QED BY <1>12, <1>14, <2>1, <3>1, <3>2
  <2>2. CASE ~(i < f)
    <3>1. m + s <= at
      BY <1>5, <1>16, <1>17
    <3>2. s <= Len(v[p].toks) /\ v[p].toks[s] = row[m + s]
      <4>1. LaidPage(v[p], row, m, at)
        BY <1>15, <2>2
      <4> DEFINE y == v[p]
      <4> HIDE DEF y
      <4>2. LaidPage(y, row, m, at)
        BY <4>1 DEF y
      <4>3. m \in Nat /\ at \in Nat /\ s \in 1 .. PageSize /\ m + s <= at
        BY <1>5, <1>11, <3>1
      <4>4. s <= Len(y.toks) /\ y.toks[s] = row[m + s]
        BY ONLY <4>2, <4>3, LaidAt
      <4> QED BY <4>4 DEF y
    <3> QED BY <1>6, <1>17, <3>2
  <2> QED BY <2>1, <2>2
<1> QED BY <1>18, <1>19 DEF m, p

Closed(x, h, before) == Len(x.toks) = PageSize /\ h = before \o x.toks
Spells(h, seen, f) == h = SubSeq(seen, 1, (f + 1) * PageSize)

\* A page completed by sampling holds the slice of the sequence its hash ends with.
LEMMA CompletedToks ==
  ASSUME IInv, Contents, MaxBatch = 1, phase = "decode", todo # <<>>, NEW j, j = todo[1], PrefillDone(j),
         NEW d \in 0 .. Depth, WindowOk(j, d), NEW draft, NEW n, NEW token, NEW eos, Choice(j, d, draft, n, token, eos),
         NewPos(j, n) \div PageSize # FirstPage(j)
  PROVE  Closed(After(j, draft, n, token, eos)[PageAt(j, FirstPage(j))], NewHash(j, draft, n, token),
                HashBefore(j, FirstPage(j)))
<1>1. SUFFICES ASSUME NEW v, NEW h, NEW row, NEW e, NEW f, NEW L, NEW pos, NEW at, NEW seen, NEW k, NEW m, NEW x, NEW y, NEW full,
                      v = After(j, draft, n, token, eos), h = NewHash(j, draft, n, token), row = Row(j, draft),
                      e = job[j].kvp + d + 1, f = FirstPage(j), L = Len(job[j].pages), pos = NewPos(j, n),
                      at = IF eos THEN job[j].kvp + d + 1 ELSE NewPos(j, n), seen = Seen(j, draft, n, token),
                      k = job[j].kvp, m = FirstPage(j) * PageSize,
                      x = After(j, draft, n, token, eos)[PageAt(j, FirstPage(j))],
                      y = HashBefore(j, FirstPage(j)), full = (NewPos(j, n) \div PageSize # FirstPage(j))
               PROVE  Closed(x, h, y)
  OBVIOUS
<1>2. draft \in [1 .. d -> Tokens] /\ n \in 1 .. d + 1 /\ token \in Tokens
  BY DEF Choice
<1>3. /\ k \in Nat /\ d \in Nat /\ d < PageSize /\ L \in Nat /\ f \in Nat /\ f < L /\ j \in Jobs /\ JobTypes
      /\ m \in Nat /\ f \in 0 .. L - 1 /\ f \in f .. L - 1 /\ Len(job[j].ids) = k + 1 /\ PageAt(j, f) \in Pages
  <2>1. /\ k \in Nat /\ d \in Nat /\ d < PageSize /\ L \in Nat /\ f \in Nat /\ f <= LastPage(j, d) /\ LastPage(j, d) \in Nat
        /\ LastPage(j, d) < L /\ j \in Jobs /\ JobTypes /\ m \in Nat /\ Len(job[j].ids) = k + 1
        /\ \A i \in 0 .. L - 1 : PageAt(j, i) \in Pages
    BY <1>1, DecodeStart
  <2>2. f < L /\ f \in 0 .. L - 1 /\ f \in f .. L - 1
    BY <2>1
  <2> QED BY <2>1, <2>2
<1>4. /\ pos = k + n /\ pos \in Nat /\ at \in Nat /\ pos <= at /\ n \in Nat
      /\ e = k + d + 1 /\ at = (IF eos THEN e ELSE pos)
  <2>1. pos = k + n /\ e = k + d + 1 /\ at = (IF eos THEN e ELSE pos)
    BY <1>1 DEF NewPos
  <2> QED BY <1>2, <1>3, <2>1
<1>5. PageSize \in Nat /\ m + PageSize <= pos /\ (f + 1) * PageSize = m + PageSize
  <2>1. (FirstPage(j) + 1) * PageSize <= NewPos(j, n)
    <3>1. job[j].kvp \in Nat
      BY <1>1, <1>3
    <3> QED BY <1>2, <1>3, <3>1, NewPage
  <2>2. (f + 1) * PageSize <= pos
    BY <1>1, <2>1
  <2>3. (f + 1) * PageSize = f * PageSize + PageSize
    BY <1>3, MultMono
  <2> DEFINE z == (f + 1) * PageSize
  <2>4. z <= pos /\ z = m + PageSize
    BY <1>1, <2>2, <2>3
  <2> HIDE DEF z
  <2>5. m + PageSize <= pos
    BY <2>4
  <2> QED BY <2>4, <2>5, PageTableAssumption DEF z
<1>6. seen \in Seq(Tokens) /\ Len(seen) = k + 1 + n
  <2>1. Seen(j, draft, n, token) \in Seq(Tokens) /\ Len(Seen(j, draft, n, token)) = Len(job[j].ids) + n
    BY <1>2, <1>3, SeenOk
  <2> QED BY <1>1, <1>3, <2>1
<1>7. x.toks \in Seq(Tokens)
  <2>1. Turned(v, Completed(j, draft, n, token).pages, j, pos \div PageSize, h)
    BY <1>1, AfterOk
  <2>2. v \in [Pages -> CachePage]
    BY <2>1 DEF Turned, TableOk
  <2> QED BY <1>1, <1>3, <2>2 DEF CachePage
<1>8. Len(x.toks) = PageSize
  <2>1. Windowed(v, j, full, h, row, e, at)
    BY <1>1, WindowTable
  <2>2. LaidPage(x, row, m, at)
    BY <1>1, <1>3, <2>1 DEF Windowed, OwnWindow
  <2>3. m \in Nat /\ at \in Nat /\ m + PageSize <= at
    BY <1>3, <1>4, <1>5
  <2>4. m + PageSize <= at => Len(x.toks) = PageSize
    BY ONLY <2>2, <2>3, LaidRange
  <2> QED BY <2>3, <2>4
<1>9. \A s \in 1 .. PageSize : x.toks[s] = seen[m + s]
  <2>1. Follows(v, WindowKv(j, draft, d), j, seen, pos)
    BY <1>1, WindowFollows
  <2>2. \A s \in 1 .. PageSize : m + s <= pos => x.toks[s] = seen[m + s]
    BY <1>1, <1>3, <2>1 DEF Follows
  <2>3. \A s \in 1 .. PageSize : m + s <= pos
    BY <1>3, <1>4, <1>5
  <2> QED BY <2>2, <2>3
<1>10. SubSeq(seen, m + 1, m + PageSize) = x.toks
  <2> DEFINE a == SubSeq(seen, m + 1, m + PageSize)
             b == x.toks
  <2>1. m + PageSize \in Nat /\ m <= m + PageSize /\ m + PageSize <= Len(seen) /\ (m + PageSize) - m = PageSize
    BY <1>3, <1>4, <1>5, <1>6
  <2>2. a \in Seq(Tokens) /\ Len(a) = (m + PageSize) - m
    BY <1>3, <1>6, <2>1, SubSeqOk
  <2>3. \A i \in 1 .. (m + PageSize) - m : a[i] = seen[m + i]
    BY <1>3, <1>6, <2>1, SubSeqOk
  <2>4. b \in Seq(Tokens) /\ Len(b) = PageSize /\ \A i \in 1 .. PageSize : b[i] = seen[m + i]
    BY <1>7, <1>8, <1>9
  <2> HIDE DEF a, b
  <2>5. \A i \in 1 .. Len(a) : a[i] = b[i]
    BY <2>1, <2>2, <2>3, <2>4
  <2>6. a = b
    BY <2>1, <2>2, <2>4, <2>5, SeqEqual
  <2> QED BY <2>6 DEF a, b
<1>11. h = y \o SubSeq(seen, m + 1, (f + 1) * PageSize)
  BY <1>1 DEF NewHash
<1> QED BY <1>5, <1>8, <1>10, <1>11 DEF Closed

\* And its hash, if rooted, spells the sequence.
LEMMA CompletedSpells ==
  ASSUME IInv, Contents, MaxBatch = 1, phase = "decode", todo # <<>>, NEW j, j = todo[1], PrefillDone(j),
         NEW d \in 0 .. Depth, WindowOk(j, d), NEW draft, NEW n, NEW token, NEW eos, Choice(j, d, draft, n, token, eos),
         NewPos(j, n) \div PageSize # FirstPage(j), Rooted(NewHash(j, draft, n, token))
  PROVE  Spells(NewHash(j, draft, n, token), Seen(j, draft, n, token), FirstPage(j))
<1>1. SUFFICES ASSUME NEW h, NEW f, NEW L, NEW pos, NEW ids, NEW seen, NEW k, NEW m, NEW e, NEW hb, NEW own,
                      h = NewHash(j, draft, n, token), f = FirstPage(j), L = Len(job[j].pages), pos = NewPos(j, n),
                      ids = job[j].ids, seen = Seen(j, draft, n, token), k = job[j].kvp, m = FirstPage(j) * PageSize,
                      e = (FirstPage(j) + 1) * PageSize, hb = HashBefore(j, FirstPage(j)),
                      own = SubSeq(Seen(j, draft, n, token), FirstPage(j) * PageSize + 1, (FirstPage(j) + 1) * PageSize)
               PROVE  Spells(h, seen, f)
  OBVIOUS
<1>2. draft \in [1 .. d -> Tokens] /\ n \in 1 .. d + 1 /\ token \in Tokens
  BY DEF Choice
<1>3. /\ k \in Nat /\ d \in Nat /\ d < PageSize /\ L \in Nat /\ f \in Nat /\ f < L /\ j \in Jobs /\ JobTypes
      /\ m \in Nat /\ m <= k /\ ids \in Seq(Tokens) /\ Len(ids) = k + 1 /\ TableOk(table) /\ j \in Running /\ Done(j) = f
      /\ \A i \in 0 .. L - 1 : PageAt(j, i) \in Pages
  <2>1. /\ k \in Nat /\ d \in Nat /\ d < PageSize /\ L \in Nat /\ f \in Nat /\ f <= LastPage(j, d) /\ LastPage(j, d) \in Nat
        /\ LastPage(j, d) < L /\ j \in Jobs /\ JobTypes /\ m \in Nat /\ m <= k /\ ids \in Seq(Tokens) /\ Len(ids) = k + 1
        /\ TableOk(table) /\ j \in Running /\ Done(j) = f
        /\ \A i \in 0 .. L - 1 : PageAt(j, i) \in Pages
    BY <1>1, DecodeStart
  <2>2. f < L
    BY <2>1
  <2> QED BY <2>1, <2>2
<1>4. PageSize \in Nat /\ e <= pos /\ e = m + PageSize /\ e \in Nat /\ pos = k + n /\ n \in Nat
  <2>1. (FirstPage(j) + 1) * PageSize <= NewPos(j, n)
    <3>1. job[j].kvp \in Nat
      BY <1>1, <1>3
    <3> QED BY <1>2, <1>3, <3>1, NewPage
  <2>2. (f + 1) * PageSize = f * PageSize + PageSize
    BY <1>3, MultMono
  <2>3. e <= pos /\ e = m + PageSize /\ pos = k + n
    BY <1>1, <2>1, <2>2 DEF NewPos
  <2> QED BY <1>2, <1>3, <2>3, PageTableAssumption
<1>5. seen \in Seq(Tokens) /\ Len(seen) = k + 1 + n /\ \A i \in 1 .. Len(ids) : seen[i] = ids[i]
  <2>1. Seen(j, draft, n, token) \in Seq(Tokens) /\ Len(Seen(j, draft, n, token)) = Len(job[j].ids) + n
    BY <1>2, <1>3, SeenOk
  <2>2. \A i \in 1 .. Len(job[j].ids) : Seen(j, draft, n, token)[i] = job[j].ids[i]
    BY <1>2, <1>3, SeenOk
  <2> QED BY <1>1, <1>3, <2>1, <2>2
<1>6. h = hb \o own
  BY <1>1 DEF NewHash
<1>7. SubSeq(seen, 1, m) \o own = SubSeq(seen, 1, e)
  <2>1. m <= e /\ e <= Len(seen)
    BY <1>3, <1>4, <1>5
  <2>2. SubSeq(seen, 1, m) \o SubSeq(seen, m + 1, e) = SubSeq(seen, 1, e)
    BY <1>3, <1>4, <1>5, <2>1, SplitPrefix
  <2> QED BY <1>1, <2>2
<1>8. SUFFICES hb = SubSeq(seen, 1, m)
  <2>1. hb = SubSeq(seen, 1, m) => h = SubSeq(seen, 1, e)
    BY <1>6, <1>7
  <2> QED BY <1>1, <2>1 DEF Spells
<1>9. CASE f = 0
  <2>1. m = 0
    BY <1>1, <1>9, PageTableAssumption
  <2>2. hb = <<>>
    BY <1>1, <1>9 DEF HashBefore, Root
  <2>3. SubSeq(seen, 1, 0) = <<>>
    BY <1>5
  <2> QED BY <2>1, <2>2, <2>3
<1>10. CASE f # 0
  <2>1. f \in 1 .. Done(j) /\ f - 1 \in 0 .. L - 1 /\ (f - 1) + 1 = f
    BY <1>3, <1>10
  <2>2. hb = Own(j, f).hash
    BY <1>1, <1>10, <2>1 DEF HashBefore, Own, PageAt
  <2>3. hb \in Seq(Int) /\ Len(hb) \in Nat /\ Len(hb) >= 1
    <3> DEFINE p == PageAt(j, f - 1)
    <3>1. p \in Pages /\ hb = table[p].hash
      BY <1>1, <1>3, <1>10, <2>1 DEF HashBefore
    <3> HIDE DEF p
    <3>2. hb \in Seq(Int) /\ HashShape(hb)
      BY <1>3, <3>1 DEF TableOk, PageOk, CachePage
    <3>3. Len(hb) \in Nat
      BY <3>2
    <3> QED BY <3>2, <3>3, PageTableAssumption DEF HashShape
  <2>4. own \in Seq(Int)
    <3>1. m <= e /\ e <= Len(seen)
      BY <1>3, <1>4, <1>5
    <3>2. SubSeq(seen, m + 1, e) \in Seq(Tokens)
      BY <1>3, <1>4, <1>5, <3>1, SubSeqOk
    <3> QED BY <1>1, <3>2, TokenSeq
  <2>5. h[1] = hb[1]
    <3>1. \A i \in 1 .. Len(hb) : (hb \o own)[i] = hb[i]
      BY <2>3, <2>4, Concat
    <3>2. 1 \in 1 .. Len(hb)
      BY <2>3
    <3> QED BY <1>6, <3>1, <3>2
  <2>6. Rooted(hb)
    <3>1. h # <<>>
      <4>1. Len(hb \o own) = Len(hb) + Len(own) /\ hb \o own \in Seq(Int)
        BY <2>3, <2>4, Concat
      <4>2. Len(own) \in Nat
        BY <2>4
      <4>3. Len(h) # 0
        BY <1>6, <2>3, <4>1, <4>2
      <4> QED BY <1>6, <4>1, <4>3
    <3>2. h[1] >= 0
      BY <1>1, <3>1 DEF Rooted, Root
    <3> QED BY <2>5, <3>2 DEF Rooted
  <2>7. Spelled(j)
    BY <1>3 DEF Contents, Sound
  <2>8. hb = PageHash(j, f)
    BY <2>1, <2>2, <2>6, <2>7 DEF Spelled
  <2>9. hb = SubSeq(ids, 1, m)
    BY <1>1, <2>8 DEF PageHash
  <2>10. SubSeq(seen, 1, m) = SubSeq(ids, 1, m)
    <3>1. m <= Len(ids) /\ Len(ids) <= Len(seen)
      BY <1>3, <1>4, <1>5
    <3> QED BY <1>3, <1>5, <3>1, SamePrefix
  <2> QED BY <2>9, <2>10
<1> QED BY <1>9, <1>10

\* The K/V of a page that ends in front of the window, or begins behind it, or is
\* not the job's, stays.
LEMMA WindowKvSame ==
  ASSUME IInv, Contents, phase = "decode", todo # <<>>, NEW j, j = todo[1], PrefillDone(j), NEW d \in 0 .. Depth,
         WindowOk(j, d), NEW draft \in [1 .. d -> Tokens], NEW p \in Pages,
         \A i \in 0 .. Len(job[j].pages) - 1 :
           p = PageAt(j, i) => i * PageSize + PageSize <= job[j].kvp \/ job[j].kvp + d + 1 <= i * PageSize
  PROVE  WindowKv(j, draft, d)[p] = kv[p]
<1>1. Overlaid(WindowKv(j, draft, d), kv, j, Row(j, draft), job[j].kvp, job[j].kvp + d + 1)
  BY WindowOverlaid
<1>2. job[j].kvp \in Nat /\ d \in Nat /\ PageSize \in Nat
  BY DecodeStart, PageTableAssumption
<1>3. \A i \in 0 .. Len(job[j].pages) - 1 :
        job[j].kvp < i * PageSize + PageSize /\ i * PageSize < job[j].kvp + d + 1 => p # PageAt(j, i)
  <2> SUFFICES ASSUME NEW i \in 0 .. Len(job[j].pages) - 1, NEW m, m = i * PageSize, job[j].kvp < m + PageSize,
                      m < job[j].kvp + d + 1, p = PageAt(j, i)
               PROVE  FALSE
    OBVIOUS
  <2>1. m + PageSize <= job[j].kvp \/ job[j].kvp + d + 1 <= m
    OBVIOUS
  <2>2. Len(job[j].pages) \in Nat
    BY DecodeStart
  <2>3. i \in Nat
    BY <2>2
  <2>4. m \in Nat
    BY <2>3, DivOfMult
  <2> QED BY ONLY <1>2, <2>1, <2>4, job[j].kvp < m + PageSize, m < job[j].kvp + d + 1
<1> QED BY <1>1, <1>3 DEF Overlaid

\* The page completed by sampling keeps the promise of its hash.
LEMMA ClosedPromise ==
  ASSUME NEW x \in CachePage, NEW h, NEW before, x.hash = h, x.prev = before, x.saved = {}, Closed(x, h, before),
         NEW seen \in Seq(Tokens), NEW f \in Nat, (f + 1) * PageSize <= Len(seen), Rooted(h) => Spells(h, seen, f),
         NEW k, \A s \in 1 .. PageSize : k[s] = SubSeq(seen, 1, f * PageSize + s)
  PROVE  PageSound(x, k)
<1>1. h = x.prev \o x.toks
  BY DEF Closed
<1>2. ASSUME Rooted(h) PROVE \A s \in 1 .. PageSize : k[s] = SubSeq(h, 1, Len(h) - PageSize + s)
  <2>1. SUFFICES ASSUME NEW m, NEW e, m = f * PageSize, e = (f + 1) * PageSize, NEW s \in 1 .. PageSize
                 PROVE  k[s] = SubSeq(h, 1, Len(h) - PageSize + s)
    OBVIOUS
  <2>2. m \in Nat /\ e = m + PageSize /\ PageSize \in Nat /\ e <= Len(seen) /\ Len(seen) \in Nat
    BY <2>1, MultMono, PageTableAssumption
  <2>3. h = SubSeq(seen, 1, e)
    BY <1>2, <2>1 DEF Spells
  <2>4. k[s] = SubSeq(seen, 1, m + s)
    BY <2>1
  <2>5. e \in Nat /\ m + s \in Nat /\ m + s <= e
    BY <2>2
  <2>6. Len(SubSeq(seen, 1, e)) = e /\ SubSeq(SubSeq(seen, 1, e), 1, m + s) = SubSeq(seen, 1, m + s)
    BY <2>2, <2>5, PrefixOf
  <2>7. Len(h) - PageSize + s = m + s
    BY <2>2, <2>3, <2>5, <2>6
  <2> QED BY <2>3, <2>4, <2>6, <2>7
<1>3. Promise(x, k)
  BY <1>1, <1>2 DEF Promise
<1> QED BY <1>3 DEF PageSound

\* A page of a window that is not completed has a random hash, and promises
\* nothing but what it may go back to.
LEMMA RandomSound ==
  ASSUME NEW x, NEW y, NEW k, PageSound(x, k), y.saved \subseteq x.saved, Len(y.hash) = 1
  PROVE  PageSound(y, k)
<1>1. ~(1 >= PageSize)
  BY PageTableAssumption
<1>2. Promise(y, k)
  BY <1>1 DEF Promise, IsContent
<1> QED BY <1>2 DEF PageSound

\* Every page keeps its promises over a window.
LEMMA WindowPromises ==
  ASSUME IInv, Contents, MaxBatch = 1, phase = "decode", todo # <<>>, NEW j, j = todo[1], PrefillDone(j),
         NEW d \in 0 .. Depth, WindowOk(j, d), NEW draft, NEW n, NEW token, NEW eos, Choice(j, d, draft, n, token, eos),
         NEW p \in Pages
  PROVE  PageSound(After(j, draft, n, token, eos)[p], WindowKv(j, draft, d)[p])
<1>1. SUFFICES ASSUME NEW v, NEW w, NEW h, NEW row, NEW e, NEW f, NEW L, NEW at, NEW k, NEW full,
                      v = After(j, draft, n, token, eos), w = WindowKv(j, draft, d), h = NewHash(j, draft, n, token),
                      row = Row(j, draft), e = job[j].kvp + d + 1, f = FirstPage(j), L = Len(job[j].pages),
                      at = IF eos THEN job[j].kvp + d + 1 ELSE NewPos(j, n), k = job[j].kvp,
                      full = (NewPos(j, n) \div PageSize # FirstPage(j))
               PROVE  PageSound(v[p], w[p])
  OBVIOUS
<1>2. draft \in [1 .. d -> Tokens] /\ n \in 1 .. d + 1 /\ token \in Tokens
  BY DEF Choice
<1>3. /\ k \in Nat /\ d \in Nat /\ d < PageSize /\ L \in Nat /\ f \in Nat /\ j \in Jobs /\ JobTypes /\ j \in Running
      /\ f * PageSize \in Nat /\ f * PageSize <= k /\ Len(job[j].ids) = k + 1
      /\ \A i \in 0 .. L - 1 : PageAt(j, i) \in Pages /\ PageAt(j, i) \in ToSet(job[j].pages)
      /\ \A a, b \in 0 .. L - 1 : PageAt(j, a) = PageAt(j, b) => a = b
      /\ \A i \in f .. L - 1 : Len(table[PageAt(j, i)].hash) = 1
  BY <1>1, DecodeStart
<1>4. Windowed(v, j, full, h, row, e, at)
  BY <1>1, WindowTable
<1>5. v \in [Pages -> CachePage]
  <2>1. Turned(v, Completed(j, draft, n, token).pages, j, NewPos(j, n) \div PageSize, h)
    BY <1>1, AfterOk
  <2> QED BY <2>1 DEF Turned, TableOk
<1>6. PageSound(table[p], kv[p])
  BY DEF Contents, Promises
<1>7. CASE p \notin ToSet(job[j].pages)
  <2>1. \A i \in 0 .. L - 1 : p # PageAt(j, i)
    BY <1>3, <1>7
  <2>2. w[p] = kv[p]
    BY <1>1, <1>2, <2>1, WindowKvSame
  <2>3. OtherAfter(table[p], v[p])
    BY <1>4, <1>7 DEF Windowed
  <2>4. CASE v[p] = table[p]
    BY <1>6, <2>2, <2>4
  <2>5. CASE v[p].saved = {} /\ v[p].toks = <<>>
    <3>1. Len(v[p].toks) # PageSize
      BY <2>5, PageTableAssumption
    <3> QED BY <2>5, <3>1, Unpromised
  <2> QED BY <2>3, <2>4, <2>5 DEF OtherAfter
<1>8. CASE p \in ToSet(job[j].pages)
  <2>1. PICK i \in 0 .. L - 1 : p = PageAt(j, i)
    <3>1. DOMAIN job[j].pages = 1 .. L
      BY <1>1, <1>3, PageIn
    <3>2. PICK x \in 1 .. L : p = job[j].pages[x]
      BY <1>8, <3>1 DEF ToSet
    <3>3. x - 1 \in 0 .. L - 1 /\ (x - 1) + 1 = x
      BY <1>3
    <3> QED BY <3>2, <3>3 DEF PageAt
  <2>2. SUFFICES ASSUME NEW m, m = i * PageSize PROVE PageSound(v[p], w[p])
    OBVIOUS
  <2>3. i \in Nat /\ m \in Nat
    <3>1. i \in Nat
      BY <1>3
    <3> QED BY <2>2, <3>1, DivOfMult
  <2>4. \A a \in 0 .. L - 1 : p = PageAt(j, a) => a = i
    BY <1>3, <2>1
  <2>5. m + PageSize <= k \/ e <= m => w[p] = kv[p]
    <3> SUFFICES ASSUME m + PageSize <= k \/ e <= m PROVE w[p] = kv[p]
      OBVIOUS
    <3>1. \A a \in 0 .. Len(job[j].pages) - 1 :
            p = PageAt(j, a) => a * PageSize + PageSize <= job[j].kvp \/ job[j].kvp + d + 1 <= a * PageSize
      BY <1>1, <2>2, <2>4
    <3> QED BY <1>1, <1>2, <3>1, WindowKvSame
  <2>6. CASE i < f
    <3>1. SamePage(table[p], v[p])
      BY <1>1, <1>4, <2>1, <2>6 DEF Windowed
    <3>2. m + PageSize <= k
      <4>1. i * PageSize + PageSize <= f * PageSize
        BY <1>3, <2>3, <2>6, MultMono
      <4> DEFINE z == f * PageSize
      <4>2. m + PageSize <= z /\ z \in Nat /\ z <= k
        BY <1>3, <2>2, <4>1
      <4> HIDE DEF z
      <4> QED BY <1>3, <2>3, <4>2, PageTableAssumption
    <3>3. PageSound(v[p], kv[p])
      BY <1>6, <3>1, SoundSame DEF SamePage
    <3> QED BY <2>5, <3>2, <3>3
  <2>7. CASE ~(i < f)
    <3>1. i \in f .. L - 1
      BY <1>3, <2>7
    <3>2. OwnWindow(table[p], v[p], h, full /\ i = f, full /\ i = f + 1, row, m, e, at)
      BY <1>1, <1>4, <2>1, <2>2, <3>1 DEF Windowed
    <3>3. Len(table[p].hash) = 1
      BY <1>3, <2>1, <3>1
    <3>4. CASE ~(full /\ i = f)
      <4>1. /\ Len(v[p].hash) = 1 /\ v[p].saved \subseteq table[p].saved /\ (m < e => v[p].saved = {})
        BY <3>2, <3>3, <3>4 DEF OwnWindow
      <4>2. CASE m < e
        <5>1. v[p].saved = {}
          BY <4>1, <4>2
        <5> QED BY <4>1, <5>1, Unpromised
      <4>3. CASE ~(m < e)
        <5>1. e <= m
          BY <1>1, <1>3, <2>3, <4>3
        <5>2. w[p] = kv[p]
          BY <2>5, <5>1
        <5>3. PageSound(v[p], kv[p])
          BY <1>6, <4>1, RandomSound
        <5> QED BY <5>2, <5>3
      <4> QED BY <4>2, <4>3
    <3>5. CASE full /\ i = f
      <4>1. ~(full /\ i = f + 1)
        BY <1>3, <3>5
      <4>2. v[p].hash = h /\ v[p].prev = table[p].prev /\ (m < e => v[p].saved = {})
        BY <3>2, <3>5, <4>1 DEF OwnWindow
      <4>3. v[p].saved = {}
        <5>1. m <= k
          BY <1>3, <2>2, <3>5
        <5>2. m < e
          BY <1>1, <1>3, <2>3, <5>1
        <5> QED BY <4>2, <5>2
      <4>4. v[p].prev = HashBefore(j, f)
        <5>1. Linked(j)
          BY <1>3 DEF Contents, Sound
        <5> QED BY <1>1, <2>1, <3>5, <4>2, <5>1 DEF Linked
      <4>5. NewPos(j, n) \div PageSize # FirstPage(j)
        BY <1>1, <3>5
      <4>6. Closed(v[p], h, HashBefore(j, f))
        <5>1. Closed(After(j, draft, n, token, eos)[PageAt(j, FirstPage(j))], NewHash(j, draft, n, token),
                     HashBefore(j, FirstPage(j)))
          BY <4>5, CompletedToks
        <5> QED BY <1>1, <2>1, <3>5, <5>1
      <4> DEFINE seen == Seen(j, draft, n, token)
      <4>7. Rooted(h) => Spells(h, seen, f)
        <5>1. Rooted(NewHash(j, draft, n, token)) => Spells(NewHash(j, draft, n, token), Seen(j, draft, n, token), FirstPage(j))
          BY <4>5, CompletedSpells
        <5> QED BY <1>1, <5>1
      <4>8. (f + 1) * PageSize <= NewPos(j, n) /\ (f + 1) * PageSize = f * PageSize + PageSize
        <5>1. job[j].kvp \in Nat
          BY <1>1, <1>3
        <5>2. (FirstPage(j) + 1) * PageSize <= NewPos(j, n)
          BY <1>2, <1>3, <4>5, <5>1, NewPage
        <5> QED BY <1>1, <1>3, <5>2, MultMono
      <4>9. seen \in Seq(Tokens) /\ (f + 1) * PageSize <= Len(seen)
        <5>1. Seen(j, draft, n, token) \in Seq(Tokens) /\ Len(Seen(j, draft, n, token)) = Len(job[j].ids) + n
          <6>1. JobTypes /\ j \in Jobs /\ d \in Nat /\ Choice(j, d, draft, n, token, eos)
            BY <1>3
          <6> QED BY ONLY <6>1, SeenOk
        <5> HIDE DEF seen
        <5> DEFINE z == (f + 1) * PageSize
                   y == f * PageSize
        <5>2. z <= k + n /\ z = y + PageSize /\ y \in Nat /\ Len(seen) = k + 1 + n /\ n \in Nat
          BY <1>1, <1>2, <1>3, <4>8, <5>1 DEF NewPos, seen
        <5> HIDE DEF z, y
        <5>3. z <= Len(seen)
          BY <1>3, <5>2, PageTableAssumption
        <5> QED BY <5>1, <5>3 DEF z, seen
      <4>10. \A s \in 1 .. PageSize : w[p][s] = SubSeq(seen, 1, f * PageSize + s)
        <5>1. Follows(v, w, j, seen, NewPos(j, n))
          BY <1>1, WindowFollows
        <5> DEFINE pos == NewPos(j, n)
                   y == f * PageSize
        <5>2. f \in 0 .. Len(job[j].pages) - 1 /\ p = PageAt(j, f)
          BY <1>1, <2>1, <3>5
        <5>3. \A s \in 1 .. PageSize : y + s <= pos => w[p][s] = SubSeq(seen, 1, y + s)
          BY <5>1, <5>2 DEF Follows
        <5>4. \A s \in 1 .. PageSize : y + s <= pos
          <6>1. y + PageSize <= pos /\ y \in Nat /\ pos \in Nat /\ PageSize \in Nat
            <7>1. pos = k + n /\ n \in Nat
              BY <1>1, <1>2, <1>3 DEF NewPos
            <7>2. y + PageSize <= pos /\ y \in Nat
              BY <1>3, <4>8
            <7> HIDE DEF y, pos
            <7> QED BY <1>3, <7>1, <7>2, PageTableAssumption
          <6> HIDE DEF y, pos
          <6> QED BY <6>1
        <5> QED BY <5>3, <5>4
      <4> HIDE DEF seen
      <4> DEFINE x == v[p]
                 u == w[p]
                 hb == HashBefore(j, f)
      <4>11. x \in CachePage /\ x.hash = h /\ x.prev = hb /\ x.saved = {} /\ Closed(x, h, hb) /\ f \in Nat
        BY <1>3, <1>5, <4>2, <4>3, <4>4, <4>6
      <4>12. \A s \in 1 .. PageSize : u[s] = SubSeq(seen, 1, f * PageSize + s)
        BY <4>10
      <4> HIDE DEF x, u, hb
      <4>13. PageSound(x, u)
        BY ONLY <4>7, <4>9, <4>11, <4>12, ClosedPromise
      <4> QED BY <4>13 DEF x, u
    <3> QED BY <3>4, <3>5
  <2> QED BY <2>6, <2>7
<1> QED BY <1>7, <1>8

\* A window that does not end its job.
Sampling(j, d, draft, n, token) ==
  /\ phase = "decode" /\ todo # <<>> /\ j = todo[1] /\ PrefillDone(j) /\ d \in 0 .. Depth /\ WindowOk(j, d)
  /\ Choice(j, d, draft, n, token, FALSE) /\ table' = After(j, draft, n, token, FALSE)
  /\ NowAt(j, Seen(j, draft, n, token), job[j].pages, NewPos(j, n))

\* A running job has a page for its position.
LEMMA FirstBelow ==
  IInv => \A j \in Running : /\ FirstPage(j) \in Nat /\ FirstPage(j) < Len(job[j].pages)
                             /\ PrefillDone(j) => Done(j) = FirstPage(j)
<1> SUFFICES ASSUME IInv, NEW j \in Running
             PROVE  /\ FirstPage(j) \in Nat /\ FirstPage(j) < Len(job[j].pages)
                    /\ PrefillDone(j) => Done(j) = FirstPage(j)
  OBVIOUS
<1>1. j \in Jobs /\ Started(j) /\ JobShape(j) /\ PagesOf(j) /\ JobTypes
  BY RunningOk DEF IInv, Memory, JobsOk, Queues
<1> QED BY <1>1, DoneBounds DEF PagesOf

\* The same after a step.
LEMMA FirstBelowNext ==
  IInv' => \A j \in Running' : /\ FirstPage(j)' \in Nat /\ FirstPage(j)' < Len(job'[j].pages)
                               /\ PrefillDone(j)' => Done(j)' = FirstPage(j)'
<1>1. (IInv => \A j \in Running : /\ FirstPage(j) \in Nat /\ FirstPage(j) < Len(job[j].pages)
                                  /\ PrefillDone(j) => Done(j) = FirstPage(j))'
  BY FirstBelow, PTL
<1> QED BY <1>1

\* Where the window leaves the job.
LEMMA SampledShape ==
  ASSUME IInv, IInv', NEW j, NEW d, NEW draft, NEW n, NEW token, Sampling(j, d, draft, n, token), j \in Running'
  PROVE  /\ FirstPage(j)' = NewPos(j, n) \div PageSize /\ HashedPages(j)' = HashedPages(j) /\ PrefillDone(j)'
         /\ Done(j)' = FirstPage(j)' /\ FirstPage(j)' \in Nat /\ FirstPage(j)' < Len(job[j].pages)
         /\ job'[j].ids = Seen(j, draft, n, token) /\ job'[j].kvp = NewPos(j, n) /\ job'[j].pages = job[j].pages
         /\ \A i : PageAt(j, i)' = PageAt(j, i)
<1>1. /\ job'[j].ids = Seen(j, draft, n, token) /\ job'[j].pages = job[j].pages /\ job'[j].kvp = NewPos(j, n)
      /\ job'[j].prompt = job[j].prompt
  BY DEF Sampling, NowAt
<1>2. FirstPage(j)' = NewPos(j, n) \div PageSize /\ HashedPages(j)' = HashedPages(j)
  BY <1>1 DEF FirstPage, HashedPages
<1>3. \A i : PageAt(j, i)' = PageAt(j, i)
  BY <1>1 DEF PageAt
<1>4. PrefillDone(j)'
  <2>1. /\ phase = "decode" /\ todo # <<>> /\ j = todo[1] /\ PrefillDone(j) /\ d \in 0 .. Depth /\ WindowOk(j, d)
        /\ Choice(j, d, draft, n, token, FALSE)
    BY DEF Sampling
  <2>2. JobTypes /\ j \in Jobs /\ d \in Nat /\ job[j].kvp \in Nat /\ Len(job[j].ids) = job[j].kvp + 1
    BY <2>1, DecodeStart
  <2> DEFINE seen == Seen(j, draft, n, token)
  <2>4. n \in 1 .. d + 1 /\ n \in Nat /\ token \in Tokens /\ draft \in [1 .. d -> Tokens]
    BY <2>1, <2>2 DEF Choice
  <2>3. Len(seen) = Len(job[j].ids) + n
    <3>1. JobTypes /\ j \in Jobs /\ d \in Nat
      BY <2>2
    <3>2. n \in 1 .. d + 1 /\ token \in Tokens /\ draft \in [1 .. d -> Tokens]
      BY <2>4
    <3>3. Len(Seen(j, draft, n, token)) = Len(job[j].ids) + n
      BY ONLY <3>1, <3>2, SeenType
    <3> QED BY <3>3
  <2> HIDE DEF seen
  <2>5. job'[j].kvp = job[j].kvp + n /\ job'[j].ids = seen
    BY <1>1 DEF NewPos, seen
  <2>6. job'[j].kvp = Len(seen) - 1
    BY <2>2, <2>3, <2>4, <2>5
  <2> QED BY <2>5, <2>6 DEF PrefillDone
<1>5. Done(j)' = FirstPage(j)' /\ FirstPage(j)' \in Nat /\ FirstPage(j)' < Len(job[j].pages)
  BY <1>1, <1>4, FirstBelowNext
<1> QED BY <1>1, <1>2, <1>3, <1>4, <1>5

\* The pages hold what the job has seen.
LEMMA SampledFilling ==
  ASSUME IInv, IInv', Contents, MaxBatch = 1, NEW j, NEW d, NEW draft, NEW n, NEW token, Sampling(j, d, draft, n, token),
         j \in Running', \A i \in 0 .. Len(job[j].pages) - 1 : kv'[PageAt(j, i)] = WindowKv(j, draft, d)[PageAt(j, i)]
  PROVE  Filling(j)'
<1> DEFINE seen == Seen(j, draft, n, token)
           w == WindowKv(j, draft, d)
           pos == NewPos(j, n)
<1>1. /\ job'[j].ids = seen /\ job'[j].kvp = pos /\ job'[j].pages = job[j].pages
      /\ \A i : PageAt(j, i)' = PageAt(j, i)
  BY SampledShape
<1>2. Follows(table', w, j, seen, pos)
  BY WindowFollows DEF Sampling
<1> HIDE DEF seen, w, pos
<1>3. ASSUME NEW i \in 0 .. Len(job'[j].pages) - 1, NEW s \in 1 .. PageSize, i * PageSize + s <= job'[j].kvp
      PROVE  Holds(j, i, s)'
  <2>1. i \in 0 .. Len(job[j].pages) - 1 /\ i * PageSize + s <= pos
    BY <1>1, <1>3
  <2>2. /\ s <= Len(table'[PageAt(j, i)].toks) /\ table'[PageAt(j, i)].toks[s] = seen[i * PageSize + s]
        /\ w[PageAt(j, i)][s] = SubSeq(seen, 1, i * PageSize + s)
    BY <1>2, <2>1 DEF Follows
  <2>3. kv'[PageAt(j, i)] = w[PageAt(j, i)]
    BY <2>1 DEF w
  <2>4. PageAt(j, i)' = PageAt(j, i)
    BY <1>1
  <2> QED BY <1>1, <2>2, <2>3, <2>4 DEF Holds
<1> QED BY <1>3 DEF Filling

\* The page of the new position is linked to the one before it.
LEMMA SampledLinked ==
  ASSUME IInv, IInv', Contents, MaxBatch = 1, NEW j, NEW d, NEW draft, NEW n, NEW token, Sampling(j, d, draft, n, token),
         j \in Running'
  PROVE  Linked(j)'
<1>1. SUFFICES ASSUME NEW f, NEW g, NEW h, NEW row, NEW e, NEW full, NEW L, NEW pos,
                      f = FirstPage(j), g = NewPos(j, n) \div PageSize, h = NewHash(j, draft, n, token),
                      row = Row(j, draft), e = job[j].kvp + d + 1, full = (NewPos(j, n) \div PageSize # FirstPage(j)),
                      L = Len(job[j].pages), pos = NewPos(j, n)
               PROVE  Linked(j)'
  OBVIOUS
<1>2. /\ phase = "decode" /\ todo # <<>> /\ j = todo[1] /\ PrefillDone(j) /\ d \in 0 .. Depth /\ WindowOk(j, d)
      /\ Choice(j, d, draft, n, token, FALSE) /\ table' = After(j, draft, n, token, FALSE)
  BY DEF Sampling
<1>3. FirstPage(j)' = g /\ g \in Nat /\ g < L /\ \A i : PageAt(j, i)' = PageAt(j, i)
  BY <1>1, SampledShape
<1>4. /\ f \in Nat /\ L \in Nat /\ job[j].kvp \in Nat /\ d \in Nat /\ d < PageSize /\ j \in Running
  BY <1>1, <1>2, DecodeStart
<1>5. g = f \/ g = f + 1
  <2>1. n \in 1 .. d + 1
    BY <1>2 DEF Choice
  <2>2. NewPos(j, n) \div PageSize \in {FirstPage(j), FirstPage(j) + 1}
    BY <1>4, <2>1, NewPage
  <2> QED BY <1>1, <2>2
<1>6. Windowed(table', j, full, h, row, e, pos)
  <2>1. Windowed(After(j, draft, n, token, FALSE), j, NewPos(j, n) \div PageSize # FirstPage(j), NewHash(j, draft, n, token),
                 Row(j, draft), job[j].kvp + d + 1, IF FALSE THEN job[j].kvp + d + 1 ELSE NewPos(j, n))
    BY <1>2, WindowTable
  <2>2. (IF FALSE THEN job[j].kvp + d + 1 ELSE NewPos(j, n)) = NewPos(j, n)
    OBVIOUS
  <2>3. Windowed(After(j, draft, n, token, FALSE), j, NewPos(j, n) \div PageSize # FirstPage(j), NewHash(j, draft, n, token),
                 Row(j, draft), job[j].kvp + d + 1, NewPos(j, n))
    BY <2>1, <2>2
  <2> QED BY <1>1, <1>2, <2>3
<1>7. /\ \A i \in 0 .. L - 1 : i < f => table'[PageAt(j, i)].hash = table[PageAt(j, i)].hash
      /\ \A i \in f .. L - 1 :
           /\ table'[PageAt(j, i)].hash = (IF full /\ i = f THEN h ELSE table[PageAt(j, i)].hash)
           /\ table'[PageAt(j, i)].prev = (IF full /\ i = f + 1 THEN h ELSE table[PageAt(j, i)].prev)
  BY <1>1, <1>6 DEF Windowed, OwnWindow, SamePage
<1>8. CASE g = f
  <2>1. ~full /\ f \in f .. L - 1
    <3>1. NewPos(j, n) \div PageSize = FirstPage(j)
      BY <1>1, <1>8
    <3>2. ~(NewPos(j, n) \div PageSize # FirstPage(j))
      BY <3>1
    <3>3. ~full
      BY <1>1, <3>2, Zenon
    <3>4. f \in f .. L - 1
      BY ONLY <1>3, <1>4, <1>8
    <3> QED BY <3>3, <3>4
  <2>2. table'[PageAt(j, f)].prev = table[PageAt(j, f)].prev
    BY <1>7, <2>1
  <2>3. Linked(j)
    BY <1>4 DEF Contents, Sound
  <2>4. table[PageAt(j, f)].prev = HashBefore(j, f)
    BY <1>1, <1>2, <2>3 DEF Linked
  <2>5. HashBefore(j, f)' = HashBefore(j, f)
    <3>1. CASE f = 0
      BY <3>1 DEF HashBefore
    <3>2. CASE f # 0
      <4>1. f - 1 \in 0 .. L - 1 /\ f - 1 < f
        BY <1>3, <1>4, <1>8, <3>2
      <4>2. table'[PageAt(j, f - 1)].hash = table[PageAt(j, f - 1)].hash
        BY <1>7, <4>1
      <4>3. PageAt(j, f - 1)' = PageAt(j, f - 1)
        BY <1>3
      <4> QED BY <3>2, <4>2, <4>3 DEF HashBefore
    <3> QED BY <3>1, <3>2
  <2>6. FirstPage(j)' = f /\ PageAt(j, f)' = PageAt(j, f)
    BY <1>3, <1>8
  <2>7. table'[PageAt(j, FirstPage(j))'].prev = HashBefore(j, FirstPage(j))'
    <3>1. table'[PageAt(j, f)'].prev = HashBefore(j, f)'
      BY <2>2, <2>4, <2>5, <2>6
    <3>2. PageAt(j, FirstPage(j))' = PageAt(j, f)' /\ HashBefore(j, FirstPage(j))' = HashBefore(j, f)'
      BY <2>6 DEF PageAt, HashBefore
    <3> QED BY <3>1, <3>2
  <2> QED BY <2>7 DEF Linked
<1>9. CASE g = f + 1
  <2>1. full /\ f \in f .. L - 1 /\ g \in f .. L - 1 /\ g # 0 /\ g - 1 = f /\ g # f
    <3>1. f \in f .. L - 1 /\ g \in f .. L - 1 /\ g # 0 /\ g - 1 = f /\ g # f
      BY ONLY <1>3, <1>4, <1>9
    <3>2. NewPos(j, n) \div PageSize # FirstPage(j)
      BY <1>1, <3>1
    <3>3. full
      BY <1>1, <3>2, Zenon
    <3> QED BY <3>1, <3>3
  <2>2. table'[PageAt(j, g)].prev = h /\ table'[PageAt(j, f)].hash = h
    BY <1>7, <1>9, <2>1
  <2>3. FirstPage(j)' = g /\ PageAt(j, g)' = PageAt(j, g) /\ PageAt(j, f)' = PageAt(j, f)
    BY <1>3
  <2>4. HashBefore(j, g)' = h
    BY <2>1, <2>2, <2>3 DEF HashBefore
  <2>5. PageAt(j, FirstPage(j))' = PageAt(j, g)' /\ HashBefore(j, FirstPage(j))' = HashBefore(j, g)'
    BY <2>3 DEF PageAt, HashBefore
  <2>6. table'[PageAt(j, FirstPage(j))'].prev = HashBefore(j, FirstPage(j))'
    BY <2>2, <2>3, <2>4, <2>5
  <2> QED BY <2>6 DEF Linked
<1> QED BY <1>5, <1>8, <1>9

\* What is written up to a position leaves the tokens of its page there.
LEMMA LaidLength ==
  ASSUME NEW pos \in Nat, NEW i \in Nat, pos \div PageSize <= i
  PROVE  (IF pos <= i * PageSize THEN 0 ELSE Smaller(pos - i * PageSize, PageSize))
           = (IF i = pos \div PageSize THEN pos % PageSize ELSE 0)
<1> DEFINE g == pos \div PageSize
           r == pos % PageSize
           m == i * PageSize
<1>1. PageSize \in Nat \ {0}
  BY PageTableAssumption
<1>2. g \in Nat /\ r \in 0 .. PageSize - 1 /\ pos = g * PageSize + r /\ (pos < m <=> g < i)
  BY DivBounds
<1>3. m \in Nat
  BY <1>1
<1>4. g = i => pos = m + r
  BY <1>2
<1>5. g <= i
  OBVIOUS
<1> HIDE DEF g, r, m
<1>6. (IF pos <= m THEN 0 ELSE Smaller(pos - m, PageSize)) = (IF i = g THEN r ELSE 0)
  <2>1. CASE i = g
    <3>1. pos = m + r /\ r < PageSize /\ r \in Nat
      BY <1>1, <1>2, <1>4, <2>1
    <3>2. CASE pos <= m
      BY <1>3, <2>1, <3>1, <3>2
    <3>3. CASE ~(pos <= m)
      <4>1. pos - m = r /\ Smaller(r, PageSize) = r
        BY <1>1, <1>3, <3>1 DEF Smaller
      <4> QED BY <2>1, <3>3, <4>1
    <3> QED BY <3>2, <3>3
  <2>2. CASE i # g
    <3>1. g < i
      BY <1>2, <1>5, <2>2
    <3>2. pos < m
      BY <1>2, <3>1
    <3>3. pos <= m
      BY <1>3, <3>2
    <3> QED BY <2>2, <3>3
  <2> QED BY <2>1, <2>2
<1> QED BY <1>6 DEF g, r, m

\* The table after a window that does not end its job.
LEMMA SampledWindow ==
  ASSUME IInv, IInv', Contents, MaxBatch = 1, NEW j, NEW d, NEW draft, NEW n, NEW token, Sampling(j, d, draft, n, token),
         j \in Running'
  PROVE  /\ NewPos(j, n) \div PageSize \in {FirstPage(j), FirstPage(j) + 1} /\ NewPos(j, n) \in Nat
         /\ Windowed(table', j, NewPos(j, n) \div PageSize # FirstPage(j), NewHash(j, draft, n, token),
                     Row(j, draft), job[j].kvp + d + 1, NewPos(j, n))
<1>2. /\ phase = "decode" /\ todo # <<>> /\ j = todo[1] /\ PrefillDone(j) /\ d \in 0 .. Depth /\ WindowOk(j, d)
      /\ Choice(j, d, draft, n, token, FALSE) /\ table' = After(j, draft, n, token, FALSE)
  BY DEF Sampling
<1>4. /\ FirstPage(j) \in Nat /\ job[j].kvp \in Nat /\ d \in Nat /\ d < PageSize /\ j \in Running
  BY <1>2, DecodeStart
<1>5. NewPos(j, n) \div PageSize \in {FirstPage(j), FirstPage(j) + 1} /\ NewPos(j, n) \in Nat
  <2>1. n \in 1 .. d + 1
    BY <1>2 DEF Choice
  <2> QED BY <1>4, <2>1, NewPage
<1>6. Windowed(table', j, NewPos(j, n) \div PageSize # FirstPage(j), NewHash(j, draft, n, token),
               Row(j, draft), job[j].kvp + d + 1, NewPos(j, n))
  <2>1. Windowed(After(j, draft, n, token, FALSE), j, NewPos(j, n) \div PageSize # FirstPage(j), NewHash(j, draft, n, token),
                 Row(j, draft), job[j].kvp + d + 1, IF FALSE THEN job[j].kvp + d + 1 ELSE NewPos(j, n))
    BY <1>2, WindowTable
  <2>2. (IF FALSE THEN job[j].kvp + d + 1 ELSE NewPos(j, n)) = NewPos(j, n)
    OBVIOUS
  <2>3. Windowed(After(j, draft, n, token, FALSE), j, NewPos(j, n) \div PageSize # FirstPage(j), NewHash(j, draft, n, token),
                 Row(j, draft), job[j].kvp + d + 1, NewPos(j, n))
    BY <2>1, <2>2
  <2> QED BY <1>2, <2>3
<1> QED BY <1>5, <1>6

\* Behind the new position the pages of the job are empty.
LEMMA SampledEmpty ==
  ASSUME IInv, IInv', Contents, MaxBatch = 1, NEW j, NEW d, NEW draft, NEW n, NEW token, Sampling(j, d, draft, n, token),
         j \in Running'
  PROVE  Empty(j)'
<1>1. SUFFICES ASSUME NEW f, NEW g, NEW h, NEW row, NEW e, NEW full, NEW L, NEW pos,
                      f = FirstPage(j), g = NewPos(j, n) \div PageSize, h = NewHash(j, draft, n, token),
                      row = Row(j, draft), e = job[j].kvp + d + 1, full = (NewPos(j, n) \div PageSize # FirstPage(j)),
                      L = Len(job[j].pages), pos = NewPos(j, n)
               PROVE  Empty(j)'
  OBVIOUS
<1>2. /\ FirstPage(j)' = g /\ job'[j].pages = job[j].pages /\ job'[j].kvp = pos
      /\ \A i : PageAt(j, i)' = PageAt(j, i)
  BY <1>1, SampledShape
<1>3. g \in {f, f + 1} /\ pos \in Nat /\ g = pos \div PageSize
  <2>1. NewPos(j, n) \div PageSize \in {FirstPage(j), FirstPage(j) + 1} /\ NewPos(j, n) \in Nat
    BY SampledWindow
  <2> QED BY <1>1, <2>1
<1>4. f \in Nat /\ L \in Nat
  <2>1. /\ phase = "decode" /\ todo # <<>> /\ j = todo[1] /\ PrefillDone(j) /\ d \in 0 .. Depth /\ WindowOk(j, d)
    BY DEF Sampling
  <2> QED BY <1>1, <2>1, DecodeStart
<1>5. Windowed(table', j, full, h, row, e, pos)
  <2>1. Windowed(table', j, NewPos(j, n) \div PageSize # FirstPage(j), NewHash(j, draft, n, token),
                 Row(j, draft), job[j].kvp + d + 1, NewPos(j, n))
    BY SampledWindow
  <2> QED BY <1>1, <2>1
<1>6. \A i \in f .. L - 1 : LaidPage(table'[PageAt(j, i)], row, i * PageSize, pos)
  BY <1>1, <1>5 DEF Windowed, OwnWindow
<1>7. ASSUME NEW i \in g .. L - 1
      PROVE  Len(table'[PageAt(j, i)'].toks) = (IF i = g THEN pos % PageSize ELSE 0)
  <2>1. i \in f .. L - 1 /\ i \in Nat /\ g <= i
    BY ONLY <1>3, <1>4, <1>7
  <2>2. Len(table'[PageAt(j, i)].toks) = (IF pos <= i * PageSize THEN 0 ELSE Smaller(pos - i * PageSize, PageSize))
    BY <1>6, <2>1 DEF LaidPage
  <2>3. (IF pos <= i * PageSize THEN 0 ELSE Smaller(pos - i * PageSize, PageSize))
          = (IF i = pos \div PageSize THEN pos % PageSize ELSE 0)
    BY ONLY <1>3, <2>1, LaidLength
  <2>4. PageAt(j, i)' = PageAt(j, i)
    BY <1>2
  <2> QED BY <1>3, <2>2, <2>3, <2>4
<1>8. Len(job'[j].pages) = L
  BY <1>1, <1>2
<1> QED BY <1>2, <1>7, <1>8 DEF Empty

\* A rooted hash of the job still spells its sequence.
LEMMA SampledSpelled ==
  ASSUME IInv, IInv', Contents, MaxBatch = 1, NEW j, NEW d, NEW draft, NEW n, NEW token, Sampling(j, d, draft, n, token),
         j \in Running'
  PROVE  Spelled(j)'
<1>1. SUFFICES ASSUME NEW f, NEW g, NEW h, NEW row, NEW e, NEW full, NEW L, NEW pos, NEW seen,
                      f = FirstPage(j), g = NewPos(j, n) \div PageSize, h = NewHash(j, draft, n, token),
                      row = Row(j, draft), e = job[j].kvp + d + 1, full = (NewPos(j, n) \div PageSize # FirstPage(j)),
                      L = Len(job[j].pages), pos = NewPos(j, n), seen = Seen(j, draft, n, token)
               PROVE  Spelled(j)'
  OBVIOUS
<1>2. /\ phase = "decode" /\ todo # <<>> /\ j = todo[1] /\ PrefillDone(j) /\ d \in 0 .. Depth /\ WindowOk(j, d)
      /\ Choice(j, d, draft, n, token, FALSE) /\ table' = After(j, draft, n, token, FALSE)
  BY DEF Sampling
<1>3. /\ Done(j)' = g /\ g \in Nat /\ g < L /\ job'[j].ids = seen /\ job'[j].pages = job[j].pages
  BY <1>1, SampledShape
<1>4. /\ f \in Nat /\ L \in Nat /\ j \in Running /\ Done(j) = f /\ JobTypes /\ j \in Jobs /\ d \in Nat
      /\ job[j].ids \in Seq(Tokens) /\ f * PageSize <= job[j].kvp /\ job[j].kvp \in Nat /\ Len(job[j].ids) = job[j].kvp + 1
  BY <1>1, <1>2, DecodeStart
<1>5. g \in {f, f + 1}
  <2>1. NewPos(j, n) \div PageSize \in {FirstPage(j), FirstPage(j) + 1}
    BY SampledWindow
  <2> QED BY <1>1, <2>1
<1>6. Windowed(table', j, full, h, row, e, pos)
  <2>1. Windowed(table', j, NewPos(j, n) \div PageSize # FirstPage(j), NewHash(j, draft, n, token),
                 Row(j, draft), job[j].kvp + d + 1, NewPos(j, n))
    BY SampledWindow
  <2> QED BY <1>1, <2>1
<1>7. /\ \A i \in 0 .. L - 1 : i < f => table'[PageAt(j, i)].hash = table[PageAt(j, i)].hash
      /\ \A i \in f .. L - 1 : table'[PageAt(j, i)].hash = (IF full /\ i = f THEN h ELSE table[PageAt(j, i)].hash)
  BY <1>1, <1>6 DEF Windowed, OwnWindow, SamePage
<1>8. seen \in Seq(Tokens) /\ Len(seen) >= Len(job[j].ids) /\ \A i \in 1 .. Len(job[j].ids) : seen[i] = job[j].ids[i]
  <2>1. n \in 1 .. d + 1 /\ n \in Nat /\ token \in Tokens /\ draft \in [1 .. d -> Tokens]
    BY <1>2, <1>4 DEF Choice
  <2>2. JobTypes /\ j \in Jobs /\ d \in Nat
    BY <1>4
  <2>3. /\ Seen(j, draft, n, token) \in Seq(Tokens) /\ Len(Seen(j, draft, n, token)) = Len(job[j].ids) + n
        /\ \A i \in 1 .. Len(job[j].ids) : Seen(j, draft, n, token)[i] = job[j].ids[i]
    <3>1. Len(Seen(j, draft, n, token)) = Len(job[j].ids) + n
      BY ONLY <2>1, <2>2, SeenType
    <3>2. Seen(j, draft, n, token) \in Seq(Tokens)
      BY ONLY <2>1, <2>2, SeenType
    <3>3. \A i \in 1 .. Len(job[j].ids) : Seen(j, draft, n, token)[i] = job[j].ids[i]
      BY ONLY <2>1, <2>2, SeenType
    <3> QED BY <3>1, <3>2, <3>3
  <2>4. Len(seen) = Len(job[j].ids) + n /\ Len(job[j].ids) \in Nat
    BY <1>1, <1>4, <2>3
  <2>5. Len(seen) >= Len(job[j].ids)
    BY ONLY <2>1, <2>4
  <2> QED BY <1>1, <2>3, <2>5
<1>9. ASSUME NEW i \in 1 .. g, Rooted(Own(j, i)'.hash) PROVE Own(j, i)'.hash = PageHash(j, i)'
  <2>1. Own(j, i)' = table'[PageAt(j, i - 1)]
    <3>1. (i - 1) + 1 = i
      BY <1>3
    <3> QED BY <1>3, <3>1 DEF Own, PageAt
  <2>2. PageHash(j, i)' = SubSeq(seen, 1, i * PageSize)
    BY <1>3 DEF PageHash
  <2>3. CASE i <= f
    <3>1. i - 1 \in 0 .. L - 1 /\ i - 1 < f /\ i \in 1 .. f /\ i \in Nat
      BY ONLY <1>3, <1>4, <1>9, <2>3
    <3>2. Own(j, i)'.hash = Own(j, i).hash
      <4>1. (i - 1) + 1 = i
        BY <1>3
      <4>2. Own(j, i) = table[PageAt(j, i - 1)]
        BY <4>1 DEF Own, PageAt
      <4> QED BY <1>7, <2>1, <3>1, <4>2
    <3>3. Spelled(j)
      BY <1>4 DEF Contents, Sound
    <3>4. Own(j, i).hash = SubSeq(job[j].ids, 1, i * PageSize)
      BY <1>4, <1>9, <3>1, <3>2, <3>3 DEF Spelled, PageHash
    <3>5. i * PageSize \in Nat /\ i * PageSize <= f * PageSize /\ f * PageSize \in Nat
      BY <1>4, <2>3, <3>1, MultMono
    <3> DEFINE m == i * PageSize
               b == f * PageSize
               ids == job[j].ids
    <3>6. m \in Nat /\ m <= b /\ b \in Nat /\ b <= job[j].kvp
      BY <1>4, <3>5
    <3> HIDE DEF m, b
    <3>7. m <= Len(ids)
      BY <1>4, <3>6
    <3>8. SubSeq(seen, 1, m) = SubSeq(ids, 1, m)
      <4>1. ids \in Seq(Tokens) /\ Len(ids) <= Len(seen) /\ \A k \in 1 .. Len(ids) : seen[k] = ids[k]
        BY <1>4, <1>8
      <4> HIDE DEF ids
      <4> QED BY ONLY <1>8, <3>6, <3>7, <4>1, SamePrefix
    <3> QED BY <2>2, <3>2, <3>4, <3>8 DEF m
  <2>4. CASE i = f + 1 /\ g = f + 1
    <3>1. i - 1 = f /\ f \in f .. L - 1 /\ g # f
      BY ONLY <1>3, <1>4, <2>4
    <3>2. NewPos(j, n) \div PageSize # FirstPage(j)
      BY <1>1, <3>1
    <3>3. full
      BY <1>1, <3>2, Zenon
    <3>4. table'[PageAt(j, f)].hash = h
      BY <1>7, <3>1, <3>3
    <3>5. Own(j, i)'.hash = h
      BY <2>1, <3>1, <3>4
    <3>6. Rooted(NewHash(j, draft, n, token))
      BY <1>1, <1>9, <3>5
    <3>7. Spells(NewHash(j, draft, n, token), Seen(j, draft, n, token), FirstPage(j))
      BY <1>2, <3>2, <3>6, CompletedSpells
    <3>8. Spells(h, seen, f)
      BY <1>1, <3>7
    <3>9. h = SubSeq(seen, 1, i * PageSize)
      BY <2>4, <3>8 DEF Spells
    <3> QED BY <2>2, <3>5, <3>9
  <2>5. i <= f \/ (i = f + 1 /\ g = f + 1)
    BY ONLY <1>3, <1>4, <1>5, <1>9
  <2> QED BY <2>3, <2>4, <2>5
<1> QED BY <1>3, <1>9 DEF Spelled

-----------------------------------------------------------------------------
(* A window that is sampled.                                               *)

\* What a sample from a window assigns, when the page it may complete is the job's own.
LEMMA SampledFields ==
  ASSUME IInv, Contents, MaxBatch = 1, phase = "decode", todo # <<>>, NEW j, j = todo[1], PrefillDone(j),
         NEW d \in 0 .. Depth, WindowOk(j, d), NEW draft, NEW n, NEW token, NEW eos, Choice(j, d, draft, n, token, eos),
         Sampled(j, draft, n, token, eos)
  PROVE  /\ table' = After(j, draft, n, token, eos) /\ kv' = Kept(WindowKv(j, draft, d), table')
         /\ WindowKv(j, draft, d) \in Tensors
         /\ NowAt(j, Seen(j, draft, n, token), job[j].pages, NewPos(j, n))
         /\ finished' = (IF eos THEN Append(finished, j) ELSE finished) /\ failed' = failed
<1> DEFINE c == Completed(j, draft, n, token)
<1>1. c.ok /\ c.pages = job[j].pages
  BY WindowTable
<1>2. /\ table' = After(j, draft, n, token, eos)
      /\ kv' = Kept(Forward(kv, j, Row(j, draft), job[j].kvp, job[j].kvp + Len(draft) + 1), After(j, draft, n, token, eos))
      /\ job' = [job EXCEPT ![j].ids = Seen(j, draft, n, token), ![j].pages = c.pages, ![j].kvp = NewPos(j, n), ![j].new = @ + n]
      /\ finished' = (IF eos THEN Append(finished, j) ELSE finished) /\ failed' = failed
  BY <1>1 DEF Sampled
<1> HIDE DEF c
<1>3. /\ j \in Jobs /\ JobTypes /\ kv \in Tensors /\ job[j].ids \in Seq(Tokens) /\ job[j].kvp \in Nat
      /\ Len(job[j].ids) = job[j].kvp + 1 /\ d \in Nat
  BY DecodeStart
<1>4. draft \in [1 .. d -> Tokens]
  BY DEF Choice
<1>5. Len(draft) = d /\ Row(j, draft) \in Seq(Tokens) /\ Len(Row(j, draft)) = job[j].kvp + 1 + d
  BY <1>3, <1>4, RowOk
<1>6. kv' = Kept(WindowKv(j, draft, d), table')
  BY <1>2, <1>5 DEF WindowKv
<1>7. WindowKv(j, draft, d) \in Tensors
  <2> DEFINE row == Row(j, draft)
             y == job[j].kvp + d + 1
  <2>1. row \in Seq(Tokens) /\ y \in Nat /\ y <= Len(row)
    BY <1>3, <1>5
  <2> HIDE DEF row, y
  <2>2. Forward(kv, j, row, job[j].kvp, y) \in Tensors
    BY <1>3, <2>1, ForwardOk
  <2> QED BY <2>2 DEF WindowKv, row, y
<1>8. NowAt(j, Seen(j, draft, n, token), job[j].pages, NewPos(j, n))
  <2> DEFINE a == Seen(j, draft, n, token)
             x == NewPos(j, n)
             pages == c.pages
  <2>1. job' = [job EXCEPT ![j].ids = a, ![j].pages = pages, ![j].kvp = x, ![j].new = @ + n]
    BY <1>2
  <2>2. job \in [Jobs -> Job]
    BY <1>3 DEF JobTypes
  <2>3. pages = job[j].pages
    BY <1>1
  <2> HIDE DEF a, x, pages
  <2>4. job'[j].ids = a /\ job'[j].pages = pages /\ job'[j].kvp = x /\ job'[j].prompt = job[j].prompt
    BY <1>3, <2>1, <2>2 DEF Job
  <2> QED BY <2>3, <2>4 DEF NowAt, a, x
<1> QED BY <1>2, <1>6, <1>7, <1>8

\* Alone is about the next state as well.
LEMMA AloneNext ==
  IInv' /\ MaxBatch = 1 => \A j \in ToSet(active') : /\ \A k \in ToSet(active') : k = j
                                                      /\ \A p \in Pages : table'[p].refs > 0 <=> p \in ToSet(job'[j].pages)
<1>1. (IInv /\ MaxBatch = 1 => \A j \in ToSet(active) : /\ \A k \in ToSet(active) : k = j
                                                         /\ \A p \in Pages : table[p].refs > 0 <=> p \in ToSet(job[j].pages))'
  <2>1. IInv /\ MaxBatch = 1 => \A j \in ToSet(active) : /\ \A k \in ToSet(active) : k = j
                                                          /\ \A p \in Pages : table[p].refs > 0 <=> p \in ToSet(job[j].pages)
    BY Alone
  <2> QED BY <2>1, PTL
<1> QED BY <1>1

\* A sample keeps the contents sound.
LEMMA SampledContent ==
  ASSUME IInv, IInv', Contents, MaxBatch = 1, phase = "decode", todo # <<>>, NEW j, j = todo[1], PrefillDone(j),
         NEW d \in 0 .. Depth, WindowOk(j, d), NEW draft, NEW n, NEW token, NEW eos, Choice(j, d, draft, n, token, eos),
         Sampled(j, draft, n, token, eos), active' = active, phase' = phase
  PROVE  Contents' /\ failed' = failed
<1>1. /\ table' = After(j, draft, n, token, eos) /\ kv' = Kept(WindowKv(j, draft, d), table')
      /\ WindowKv(j, draft, d) \in Tensors
      /\ NowAt(j, Seen(j, draft, n, token), job[j].pages, NewPos(j, n))
      /\ finished' = (IF eos THEN Append(finished, j) ELSE finished) /\ failed' = failed
  BY SampledFields
<1>2. TableOk(table')
  BY DEF IInv, Memory
<1>3. Promises'
  <2> SUFFICES ASSUME NEW p \in Pages PROVE PageSound(table'[p], kv'[p])
    BY DEF Promises
  <2>1. PageSound(table'[p], WindowKv(j, draft, d)[p])
    BY <1>1, WindowPromises
  <2>2. PageSound(table'[p], Kept(WindowKv(j, draft, d), table')[p])
    <3> DEFINE w == WindowKv(j, draft, d)
    <3>1. w \in Tensors /\ PageSound(table'[p], w[p])
      BY <1>1, <2>1
    <3> HIDE DEF w
    <3>2. PageSound(table'[p], Kept(w, table')[p])
      BY <1>2, <3>1, KeptSound
    <3> QED BY <3>2 DEF w
  <2> QED BY <1>1, <2>2
<1>4. Linking'
  BY DEF Linking
<1>5. j \in Jobs /\ j \in Running /\ j \in ToSet(active) /\ Queues /\ QueueTypes
  <2>1. j \in Jobs /\ j \in Running /\ Queues
    BY DecodeStart
  <2> QED BY <2>1 DEF Running, Working, Queues
<1>6. \A k \in Running' : k = j /\ j \in ToSet(active')
  <2>1. \A k \in Running' : k \in ToSet(active)
    BY DEF Running, Working
  <2> QED BY <1>5, <2>1, Alone
<1>7. CASE eos
  <2>1. finished' = Append(finished, j) /\ finished \in Seq(Jobs)
    BY <1>1, <1>5, <1>7 DEF QueueTypes
  <2>2. finished' # <<>>
    BY <1>5, <2>1
  <2>3. Running' = {}
    BY <2>2, NoneRunsNext
  <2> QED BY <1>1, <1>3, <1>4, <2>3 DEF Contents
<1>8. CASE ~eos
  <2>1. eos = FALSE
    BY <1>8 DEF Choice
  <2>2. Sampling(j, d, draft, n, token)
    BY <1>1, <2>1 DEF Sampling
  <2>3. ASSUME j \in Running' PROVE Sound(j)'
    <3>1. \A i \in 0 .. Len(job[j].pages) - 1 : kv'[PageAt(j, i)] = WindowKv(j, draft, d)[PageAt(j, i)]
      <4> SUFFICES ASSUME NEW i \in 0 .. Len(job[j].pages) - 1
                   PROVE  kv'[PageAt(j, i)] = WindowKv(j, draft, d)[PageAt(j, i)]
        OBVIOUS
      <4>1. PageAt(j, i) \in Pages /\ PageAt(j, i) \in ToSet(job[j].pages)
        BY DecodeStart
      <4>2. job'[j].pages = job[j].pages
        BY <1>1 DEF NowAt
      <4>3. j \in ToSet(active')
        BY <1>6, <2>3
      <4>4. table'[PageAt(j, i)].refs > 0
        BY <4>1, <4>2, <4>3, AloneNext
      <4> QED BY <1>1, <4>1, <4>4 DEF Kept
    <3>2. Filling(j)'
      BY <2>2, <2>3, <3>1, SampledFilling
    <3>3. Spelled(j)' /\ Empty(j)' /\ Linked(j)'
      BY <2>2, <2>3, SampledSpelled, SampledEmpty, SampledLinked
    <3> QED BY <3>2, <3>3 DEF Sound
  <2>4. \A k \in Running' : Sound(k)'
    BY <1>6, <2>3
  <2> QED BY <1>1, <1>3, <1>4, <2>4 DEF Contents
<1> QED BY <1>7, <1>8

\* Decoding keeps the contents sound, and the assertion holds.
LEMMA DecodeContent ==
  ASSUME IInv, IInv', Contents, MaxBatch = 1, Decode
  PROVE  Contents' /\ failed' = failed
<1> SUFFICES ASSUME NEW j, j = todo[1] PROVE Contents' /\ failed' = failed
  OBVIOUS
<1>1. phase = "decode" /\ todo # <<>> /\ PrefillDone(j) /\ active' = active /\ phase' = phase
  BY DEF Decode, At, Turn
<1>2. PICK d \in 0 .. Depth :
        /\ WindowOk(j, d)
        /\ \E draft \in [1 .. d -> Tokens], n \in 1 .. d + 1, token \in Tokens, eos \in BOOLEAN :
             /\ job[j].new + n <= MaxTokens
             /\ job[j].new + n = MaxTokens => eos
             /\ (n <= d /\ ~eos) => token # draft[n] \/ Checkpoint(j, n)
             /\ Sampled(j, draft, n, token, eos)
  BY DEF Decode, Turn
<1>3. PICK draft \in [1 .. d -> Tokens], n \in 1 .. d + 1, token \in Tokens, eos \in BOOLEAN :
        /\ job[j].new + n <= MaxTokens
        /\ job[j].new + n = MaxTokens => eos
        /\ Sampled(j, draft, n, token, eos)
  BY <1>2
<1>4. Choice(j, d, draft, n, token, eos)
  BY <1>3 DEF Choice
<1> QED BY <1>1, <1>2, <1>3, <1>4, SampledContent

-----------------------------------------------------------------------------
(* Giving pages back.                                                      *)

\* A page that is given back, and reverted, promises what it did before.
LEMMA SubRefSound ==
  ASSUME NEW t, TableOk(t), NEW p \in Pages, t[p].refs >= 1, NEW k, PageSound(t[p], k)
  PROVE  PageSound(SubRef(t, p)[p], k)
<1>1. t[p] \in CachePage /\ PageOk(t[p]) /\ t \in [Pages -> CachePage]
  BY DEF TableOk
<1>2. CASE t[p].refs > 1
  <2> DEFINE x == [t[p] EXCEPT !.refs = t[p].refs - 1]
  <2>1. t[p].refs - 1 \in Nat
    BY <1>1, <1>2 DEF CachePage
  <2>2. x.hash = t[p].hash /\ x.prev = t[p].prev /\ x.toks = t[p].toks /\ x.saved = t[p].saved
    BY <1>1, <2>1, WithRefs
  <2>3. SubRef(t, p) = [t EXCEPT ![p] = x]
    BY <1>1, <1>2, LessRef DEF SubRef
  <2>4. SubRef(t, p)[p] = x
    BY <1>1, <2>3
  <2> HIDE DEF x
  <2>5. PageSound(x, k)
    BY <2>2, SoundSame
  <2> QED BY <2>4, <2>5
<1>3. CASE ~(t[p].refs > 1)
  <2> DEFINE back == [Reverted(t[p]) EXCEPT !.refs = 0]
             clash == \E q \in Pages \ {p} : t[q].hash = back.hash
             r == RandomHash(t)
             x == IF clash THEN Rehashed(back, r, Root) ELSE back
  <2>1. back \in CachePage /\ back.saved = {} /\ PageSound(back, k)
    <3>1. CASE t[p].saved = {}
      <4>1. back = [t[p] EXCEPT !.refs = 0]
        BY <3>1 DEF Reverted
      <4> HIDE DEF back
      <4>2. back \in CachePage /\ back.hash = t[p].hash /\ back.prev = t[p].prev /\ back.toks = t[p].toks /\ back.saved = t[p].saved
        BY <1>1, <4>1 DEF CachePage
      <4>3. PageSound(back, k)
        BY <4>2, SoundSame
      <4> QED BY <3>1, <4>2, <4>3
    <3>2. CASE t[p].saved # {}
      <4> DEFINE s == CHOOSE y \in t[p].saved : TRUE
      <4>1. s \in t[p].saved
        BY <3>2
      <4>2. s \in Save
        BY <1>1, <4>1 DEF CachePage
      <4>3. back = [[t[p] EXCEPT !.hash = s.hash, !.prev = s.prev, !.toks = s.toks, !.saved = {}] EXCEPT !.refs = 0]
        BY <3>2 DEF Reverted
      <4> HIDE DEF s, back
      <4>4. back \in CachePage /\ back.hash = s.hash /\ back.prev = s.prev /\ back.toks = s.toks /\ back.saved = {}
        BY <1>1, <4>2, <4>3 DEF CachePage, Save
      <4>5. Promise(s, k)
        BY <4>1 DEF PageSound
      <4>6. Promise(back, k)
        BY <4>4, <4>5, PromiseSame
      <4> QED BY <4>4, <4>6 DEF PageSound
    <3> QED BY <3>1, <3>2
  <2>2. r \in Seq(Int) /\ Len(r) = 1
    BY Fresh DEF TableOk, PageOk
  <2>3. SubRef(t, p) = [t EXCEPT ![p] = x]
    BY <1>3 DEF SubRef, Rehashed
  <2>4. SubRef(t, p)[p] = x
    BY <1>1, <2>3
  <2> HIDE DEF back, r
  <2>5. CASE clash
    <3> DEFINE z == Rehashed(back, r, Root)
    <3>1. Root \in Seq(Int)
      BY DEF Root
    <3>2. z.hash = r /\ z.saved = back.saved
      BY <2>1, <2>2, <3>1, RehashedFields
    <3>3. x = z
      BY <2>5
    <3> HIDE DEF z, x
    <3>4. PageSound(z, k)
      BY <2>1, <2>2, <3>2, RandomSound
    <3> QED BY <2>4, <3>3, <3>4
  <2>6. CASE ~clash
    <3>1. x = back
      BY <2>6
    <3> HIDE DEF x
    <3> QED BY <2>1, <2>4, <3>1
  <2> QED BY <2>5, <2>6
<1> QED BY <1>2, <1>3

\* Giving a page back keeps the contents sound.
LEMMA ReleaseContent ==
  ASSUME IInv, IInv', Contents, MaxBatch = 1, ReleasePage
  PROVE  Contents'
<1> SUFFICES ASSUME NEW j, j = finished[1], NEW p, p = job[j].pages[1] PROVE Contents'
  OBVIOUS
<1>1. QueueTypes /\ JobTypes /\ TableOk(table) /\ RefCounts /\ kv \in Tensors
  BY DEF IInv, Queues, JobsOk, Memory, KvOk, Tensors
<1>2. /\ phase' = "release" /\ finished' # <<>> /\ finished # <<>>
      /\ job[j].pages # <<>> /\ table' = SubRef(table, p) /\ kv' = Kept(kv, table')
  BY DEF ReleasePage, Leaving, At
<1>3. j \in Jobs
  BY <1>1, <1>2, SeqTail DEF QueueTypes
<1>4. job[j].pages \in Seq(Pages)
  BY <1>1, <1>3, PageIn
<1>5. p \in ToSet(job[j].pages) /\ p \in Pages
  BY <1>2, <1>4, SeqTail
<1>6. table[p].refs >= 1
  BY <1>1, <1>3, <1>5, Held
<1>7. TableOk(table') /\ \A q \in Pages : q # p => table'[q] = table[q]
  BY <1>1, <1>2, <1>5, <1>6, SubRefOk
<1>8. ASSUME NEW q \in Pages PROVE PageSound(table'[q], kv'[q])
  <2>1. PageSound(table[q], kv[q])
    BY DEF Contents, Promises
  <2>2. PageSound(table'[q], kv[q])
    <3>1. CASE q = p
      BY <1>1, <1>2, <1>5, <1>6, <2>1, <3>1, SubRefSound
    <3>2. CASE q # p
      BY <1>7, <2>1, <3>2
    <3> QED BY <3>1, <3>2
  <2> QED BY <1>1, <1>2, <1>7, <2>2, KeptSound
<1>9. Promises'
  BY <1>8 DEF Promises
<1>10. Running' = {}
  BY <1>2, NoneRunsNext
<1>11. Linking'
  BY <1>2 DEF Linking
<1> QED BY <1>9, <1>10, <1>11 DEF Contents

-----------------------------------------------------------------------------
(* The contents are an invariant.                                          *)

\* Nothing changes.
LEMMA ContentSame ==
  ASSUME Contents, vars' = vars
  PROVE  Contents'
<1>1. /\ table' = table /\ kv' = kv /\ job' = job /\ active' = active /\ finished' = finished /\ phase' = phase
  BY DEF vars
<1>2. Promises'
  BY <1>1 DEF Contents, Promises
<1>3. Linking'
  BY <1>1 DEF Contents, Linking, LinkingOf, LinkedFrom, HashedPages, Starting
<1>4. ASSUME NEW j \in Running' PROVE Sound(j)'
  <2>1. j \in Running
    BY <1>1, <1>4 DEF Running, Working, Starting
  <2>2. Sound(j)
    BY <2>1 DEF Contents
  <2> QED BY <1>1, <2>2 DEF Sound, Filling, Holds, PageAt, Spelled, Done, HashedPages, FirstPage, Own,
       PageHash, Empty, Linked, PrefillDone, HashBefore
<1> QED BY <1>2, <1>3, <1>4 DEF Contents

\* Only a sample could fail.
LEMMA FailedKept ==
  ASSUME Next, ~Decode
  PROVE  failed' = failed
BY DEF Next, Enqueue, CancelPending, CancelActive, ClearQueue, Iterate, PassOver, StartJob, StartOver, Claim, ClaimHit,
  ClaimMiss, ClaimUnique, ClaimOver, NothingToPrefill, Prefill, PrefillOver, NotReady, DecodeOver, ReleasePage, Leave,
  ReleaseOver, Rest, vars

\* With a recurrent model and a batch of one every step keeps the contents
\* sound and the assertion of receive_sample true.
LEMMA ContentStep ==
  ASSUME Hybrid, MaxBatch = 1
  PROVE  IInv /\ ContentInv /\ [Next]_vars => ContentInv'
<1> SUFFICES ASSUME IInv, ContentInv, [Next]_vars PROVE ContentInv'
  OBVIOUS
<1>1. IInv'
  BY InvariantStep
<1>2. Contents /\ ~failed
  BY DEF ContentInv
<1>3. ASSUME \/ \E j \in Jobs : Enqueue(j) \/ CancelPending(j) \/ CancelActive(j)
             \/ ClearQueue \/ Iterate \/ PassOver \/ StartOver \/ PrefillOver
             \/ NotReady \/ DecodeOver \/ ReleaseOver \/ Leave
      PROVE  Contents'
  <2>1. Quiet
    BY <1>3, QuietActions
  <2> QED BY <1>2, <2>1, QuietContent
<1>4. ASSUME StartJob PROVE Contents'
  BY <1>1, <1>2, <1>4, StartContent
<1>5. ASSUME Claim PROVE Contents'
  BY <1>1, <1>2, <1>5, ClaimHitContent, ClaimMissContent, ClaimUniqueContent, ClaimOverContent DEF Claim
<1>6. ASSUME NothingToPrefill PROVE Contents'
  BY <1>2, <1>6, NothingContent
<1>7. ASSUME Prefill PROVE Contents'
  BY <1>1, <1>2, <1>7, PrefillContent
<1>8. ASSUME Decode PROVE Contents'
  BY <1>1, <1>2, <1>8, DecodeContent
<1>9. ASSUME ReleasePage PROVE Contents'
  BY <1>1, <1>2, <1>9, ReleaseContent
<1>10. ASSUME Rest \/ vars' = vars PROVE Contents'
  <2>1. vars' = vars
    BY <1>10 DEF Rest
  <2> QED BY <1>2, <2>1, ContentSame
<1>11. Contents'
  BY <1>3, <1>4, <1>5, <1>6, <1>7, <1>8, <1>9, <1>10 DEF Next
<1>12. failed' = failed
  <2>1. CASE Decode
    BY <1>1, <1>2, <2>1, DecodeContent
  <2>2. CASE Next /\ ~Decode
    BY <2>2, FailedKept
  <2>3. CASE vars' = vars
    BY <2>3 DEF vars
  <2> QED BY <2>1, <2>2, <2>3
<1> QED BY <1>2, <1>11, <1>12 DEF ContentInv

\* So the contents are sound in every behaviour of the server's settings.
THEOREM GeneratorContents ==
  ASSUME Hybrid, MaxBatch = 1
  PROVE  Spec => []ContentInv
<1>1. IInv /\ ContentInv /\ [Next]_vars => ContentInv'
  BY ContentStep
<1> QED BY <1>1, InitContent, GeneratorInvariant, PTL DEF Spec

-----------------------------------------------------------------------------
(* What follows from it.                                                   *)

\* Where a position lies.
LEMMA PositionPage ==
  ASSUME IInv, phase # "claim", NEW j \in Working, NEW x \in 0 .. job[j].kvp - 1
  PROVE  /\ j \in Running /\ x \div PageSize \in 0 .. Len(job[j].pages) - 1 /\ (x % PageSize) + 1 \in 1 .. PageSize
         /\ (x \div PageSize) * PageSize + ((x % PageSize) + 1) = x + 1 /\ x + 1 <= job[j].kvp
         /\ table[PageAt(j, x \div PageSize)].toks \in Seq(Tokens)
<1>1. j \in Running
  BY DEF Running
<1>2. j \in Jobs /\ JobTypes /\ Started(j) /\ JobShape(j) /\ PagesOf(j) /\ TableOk(table)
  BY <1>1, RunningOk DEF IInv, Memory
<1>3. job[j].kvp \in Nat
  BY <1>2 DEF JobTypes, Job
<1>4. FirstPage(j) \in Nat /\ FirstPage(j) < Len(job[j].pages) /\ Len(job[j].pages) \in Nat
  BY <1>2, DoneBounds DEF PagesOf
<1> DEFINE i == x \div PageSize
           r == x % PageSize
           m == i * PageSize
<1>5. x \in Nat /\ x < job[j].kvp
  BY <1>3
<1>6. i \in Nat /\ r \in 0 .. PageSize - 1 /\ x = m + r
  BY <1>5, DivBounds
<1>7. i <= FirstPage(j)
  <2>1. m \in Nat /\ m <= job[j].kvp
    <3> HIDE DEF i, r
    <3>1. m \in Nat
      BY <1>6, PageTableAssumption
    <3> HIDE DEF m
    <3> QED BY <1>3, <1>5, <1>6, <3>1, PageTableAssumption
  <2>2. i * PageSize <= job[j].kvp
    BY <2>1
  <2> HIDE DEF i
  <2> QED BY <1>3, <1>6, <2>2, DivBounds DEF FirstPage
<1>8. m \in Nat
  <2> HIDE DEF i, r
  <2> QED BY <1>6, PageTableAssumption
<1> HIDE DEF i, r, m
<1>9. i \in 0 .. Len(job[j].pages) - 1 /\ r + 1 \in 1 .. PageSize /\ m + (r + 1) = x + 1 /\ x + 1 <= job[j].kvp
  BY <1>3, <1>4, <1>5, <1>6, <1>7, <1>8, PageTableAssumption
<1>10. PageAt(j, i) \in Pages
  <2>1. i + 1 \in 1 .. Len(job[j].pages)
    BY <1>4, <1>9
  <2> QED BY <1>2, <2>1, PageIn DEF PageAt
<1>11. table[PageAt(j, i)].toks \in Seq(Tokens)
  BY <1>2, <1>10 DEF TableOk, CachePage
<1> QED BY <1>1, <1>9, <1>11 DEF i, r, m

\* The pages of a running job hold its sequence, tokens and K/V.
LEMMA PositionHeld ==
  ASSUME IInv, Contents, phase # "claim", NEW j \in Working, NEW x \in 0 .. job[j].kvp - 1
  PROVE  /\ (x % PageSize) + 1 \in DOMAIN table[PageAt(j, x \div PageSize)].toks
         /\ table[PageAt(j, x \div PageSize)].toks[(x % PageSize) + 1] = job[j].ids[x + 1]
         /\ kv[PageAt(j, x \div PageSize)][(x % PageSize) + 1] = SubSeq(job[j].ids, 1, x + 1)
<1> DEFINE i == x \div PageSize
           s == (x % PageSize) + 1
           p == PageAt(j, i)
<1>1. /\ j \in Running /\ i \in 0 .. Len(job[j].pages) - 1 /\ s \in 1 .. PageSize
      /\ i * PageSize + s = x + 1 /\ x + 1 <= job[j].kvp /\ table[p].toks \in Seq(Tokens)
  BY PositionPage
<1> HIDE DEF i, s
<1>2. Filling(j)
  BY <1>1 DEF Contents, Sound
<1>3. i * PageSize + s <= job[j].kvp
  BY <1>1
<1>4. Holds(j, i, s)
  BY ONLY <1>1, <1>2, <1>3 DEF Filling
<1>5. s <= Len(table[p].toks) /\ table[p].toks[s] = job[j].ids[x + 1] /\ kv[p][s] = SubSeq(job[j].ids, 1, x + 1)
  BY <1>1, <1>4 DEF Holds
<1> HIDE DEF p
<1>6. s \in DOMAIN table[p].toks
  <2>1. DOMAIN table[p].toks = 1 .. Len(table[p].toks) /\ Len(table[p].toks) \in Nat
    BY <1>1
  <2> QED BY <1>1, <1>5, <2>1, PageTableAssumption
<1> QED BY <1>5, <1>6 DEF i, s, p

\* The hash of a complete page with a content hash is that of its tokens after
\* the hash it is linked to, the check of validate_pagetable.
THEOREM GeneratorHashChain ==
  ASSUME Hybrid, MaxBatch = 1
  PROVE  Spec => []HashChain
<1>1. ContentInv => HashChain
  BY DEF ContentInv, Contents, Promises, PageSound, Promise, HashChain, Complete
<1> QED BY <1>1, GeneratorContents, PTL

\* The K/V of a complete page under a hash were computed from the tokens the
\* hash was taken of, prefix included.
THEOREM GeneratorHashPromise ==
  ASSUME Hybrid, MaxBatch = 1
  PROVE  Spec => []HashPromise
<1>1. ContentInv => HashPromise
  BY DEF ContentInv, Contents, Promises, PageSound, Promise, HashPromise, Complete
<1> QED BY <1>1, GeneratorContents, PTL

\* The token buffers spell the sequence of the job up to its cache position, the
\* last check of validate_pagetable.
THEOREM GeneratorSequencesMatch ==
  ASSUME Hybrid, MaxBatch = 1
  PROVE  Spec => []SequencesMatch
<1>1. IInv /\ ContentInv => SequencesMatch
  BY PositionHeld DEF ContentInv, SequencesMatch
<1> QED BY <1>1, GeneratorInvariant, GeneratorContents, PTL

\* A running job attends to K/V that were computed from its own sequence: reuse
\* of pages is invisible.
THEOREM GeneratorContextRight ==
  ASSUME Hybrid, MaxBatch = 1
  PROVE  Spec => []ContextRight
<1>1. IInv /\ ContentInv => ContextRight
  BY PositionHeld DEF ContentInv, ContextRight
<1> QED BY <1>1, GeneratorInvariant, GeneratorContents, PTL

\* The valid length of a generating job's pages ends at its cache position, where
\* get_input_ids_list goes on writing.
THEOREM GeneratorFrontier ==
  ASSUME Hybrid, MaxBatch = 1
  PROVE  Spec => []Frontier
<1>1. IInv /\ ContentInv => Frontier
  <2> SUFFICES ASSUME IInv, Contents, phase \in {"idle", "decode"}, NEW j \in Working, PrefillDone(j),
                      NEW i \in FirstPage(j) .. Len(job[j].pages) - 1
               PROVE  Len(table[PageAt(j, i)].toks) = IF i = FirstPage(j) THEN job[j].kvp % PageSize ELSE 0
    BY DEF ContentInv, Frontier
  <2>1. j \in Running
    BY DEF Running
  <2>2. Empty(j)
    BY <2>1 DEF Contents, Sound
  <2>3. j \in Jobs /\ JobTypes /\ Started(j) /\ JobShape(j) /\ PagesOf(j)
    BY <2>1, RunningOk DEF IInv, Memory
  <2>4. HashedPages(j) \in Nat /\ FirstPage(j) \in Nat /\ HashedPages(j) <= FirstPage(j) /\ Len(job[j].pages) \in Nat
    BY <2>3, DoneBounds DEF PagesOf
  <2>5. i >= HashedPages(j)
    BY ONLY <2>4, i \in FirstPage(j) .. Len(job[j].pages) - 1
  <2> QED BY <2>2, <2>5 DEF Empty
<1> QED BY <1>1, GeneratorInvariant, GeneratorContents, PTL
=============================================================================
