----------------------------- MODULE Generator -----------------------------
(***************************************************************************)
(* The generator of the vendored library (generator/generator.py and       *)
(* generator/job.py) over the page table: queueing, start of jobs, prefill *)
(* in chunks, decoding with draft windows, page completion, end of stream, *)
(* cancellation.                                                           *)
(*                                                                         *)
(* iterate() is one synchronous call, so its steps run to the end with     *)
(* nothing in between; phase and todo say how far it has come.  enqueue()  *)
(* and cancel() are called between two iterations.  Which tokens the model *)
(* samples and the drafter proposes is a nondeterministic choice.          *)
(*                                                                         *)
(* Modelled are jobs of one sequence without banned strings, token healing *)
(* or requeueing, as scripts/serve_exl3.py creates them, on a cache        *)
(* without CPU tier and without defragmentation.                           *)
(***************************************************************************)
EXTENDS PageTable, SequencesExt

CONSTANTS
  Jobs,        \* the jobs; each is used once
  Prompts,     \* the prompts a job may be created with
  Hybrid,      \* the model has recurrent layers: recurrent_cache is not None
  MTP,         \* drafts come from the model's own draft head (mtp_draft)
  Depth,       \* num_draft_tokens
  Chunk,       \* max_chunk_size
  MaxBatch,    \* max_batch_size
  MaxTokens,   \* tokens a job may generate before its stream ends
  MaxSkips     \* max_skips

ASSUME GeneratorAssumption ==
  /\ IsFiniteSet(Jobs)
  /\ Prompts \subseteq Seq(Tokens) \ {<<>>}
  /\ Hybrid \in BOOLEAN /\ MTP \in BOOLEAN
  /\ Depth \in 0 .. PageSize - 1
  /\ Chunk \in Nat /\ Chunk >= PageSize
  /\ MaxBatch \in Nat \ {0} /\ MaxTokens \in Nat \ {0} /\ MaxSkips \in Nat

VARIABLES
  job,       \* the Job objects
  pending,   \* Generator.pending_jobs
  active,    \* Generator.active_jobs
  phase,     \* what iterate() or cancel() does next
  todo,      \* the jobs that phase has still to look at
  skipped,   \* iterate_start_jobs: skipped_jobs
  finished,  \* jobs whose pages are to be given back
  failed     \* receive_sample failed its assertion

jobVars == <<job, pending, active, phase, todo, skipped, finished, failed>>
vars == <<table, kv, job, pending, active, phase, todo, skipped, finished, failed>>

Phases == {"idle", "start", "claim", "prefill", "decode", "release"}

States == {"new", "queued", "active", "over"}

Job == [ids : Seq(Tokens), prompt : Nat, pages : Seq(Pages), kvp : Nat, new : Nat,
        skips : Nat, state : States]

NewJob == [ids |-> <<>>, prompt |-> 0, pages |-> <<>>, kvp |-> 0, new |-> 0,
           skips |-> 0, state |-> "new"]
OverJob == [NewJob EXCEPT !.state = "over"]

At(ph) == phase = ph /\ ~failed

Smaller(a, b) == IF a < b THEN a ELSE b
Larger(a, b) == IF a > b THEN a ELSE b
PagesFor(n) == (n + PageSize - 1) \div PageSize

\* list.remove
Without(s, x) == RemoveAt(s, CHOOSE i \in DOMAIN s : s[i] = x)

-----------------------------------------------------------------------------
(* What a job needs.                                                       *)

\* Mutant: the page of the last token is taken from the cache as well.
HashedPagesAll(j) == job[j].prompt \div PageSize

\* Full pages of the prompt; for MTP the last token of a prompt must be
\* computed, so a page that would cover it is not taken from the cache.
HashedPages(j) ==
  LET n == job[j].prompt
  IN  IF MTP THEN Larger(0, n - 2) \div PageSize ELSE (n - 1) \div PageSize

PageHash(j, i) == SubSeq(job[j].ids, 1, i * PageSize)
PageHashes(j) == {PageHash(j, i) : i \in 1 .. HashedPages(j)}

\* One token more than max_new_tokens, which already allows for the draft.
TotalPages(n) == PagesFor(n + MaxTokens + Depth + 1)

NewPagesRequired(j) ==
  Cardinality({h \in PageHashes(j) : Under(h, table, Referenced(table)) = {}})
    + TotalPages(job[j].prompt) - HashedPages(j)

PrefillDone(j) == job[j].kvp = Len(job[j].ids) - 1

-----------------------------------------------------------------------------
(* Between two iterations.                                                 *)

\* Generator.enqueue; prepare_for_queue refuses what can never fit.
Enqueue(j) ==
  /\ At("idle") /\ job[j].state = "new"
  /\ \E ids \in Prompts :
       /\ TotalPages(Len(ids)) <= Cardinality(Pages)
       /\ job' = [job EXCEPT ![j].ids = ids, ![j].prompt = Len(ids), ![j].state = "queued"]
  /\ pending' = Append(pending, j)
  /\ UNCHANGED <<pageVars, active, phase, todo, skipped, finished, failed>>

\* Generator.cancel.  A pending job holds no pages.
CancelPending(j) ==
  /\ At("idle") /\ j \in ToSet(pending)
  /\ pending' = Without(pending, j)
  /\ job' = [job EXCEPT ![j] = OverJob]
  /\ UNCHANGED <<pageVars, active, phase, todo, skipped, finished, failed>>

CancelActive(j) ==
  /\ At("idle") /\ j \in ToSet(active)
  /\ finished' = <<j>> /\ phase' = "release"
  /\ UNCHANGED <<pageVars, job, pending, active, todo, skipped, failed>>

\* Generator.clear_queue.
ClearQueue ==
  /\ At("idle") /\ active \o pending # <<>>
  /\ job' = [j \in Jobs |-> IF j \in ToSet(pending) THEN OverJob ELSE job[j]]
  /\ pending' = <<>>
  /\ finished' = active /\ phase' = "release"
  /\ UNCHANGED <<pageVars, active, todo, skipped, failed>>

-----------------------------------------------------------------------------
(* iterate(): start jobs.                                                  *)

Prefilling == phase' = "prefill" /\ todo' = active /\ skipped' = {}

Iterate ==
  /\ At("idle") /\ active \o pending # <<>>
  /\ IF Unreferenced(table) # {} /\ pending # <<>> /\ Len(active) < MaxBatch
     THEN phase' = "start" /\ todo' = pending /\ skipped' = {}
     ELSE Prefilling
  /\ UNCHANGED <<pageVars, job, pending, active, finished, failed>>

Turn == todo[1]

\* Mutant: the pages are not counted.
FitsAnyPages(j) == Len(active) < MaxBatch

Fits(j) ==
  /\ Len(active) < MaxBatch
  /\ NewPagesRequired(j) <= Cardinality(Unreferenced(table))

PassOver ==
  /\ At("start") /\ todo # <<>> /\ ~Fits(Turn)
  /\ skipped' = skipped \cup {Turn} /\ todo' = Tail(todo)
  /\ UNCHANGED <<pageVars, job, pending, active, phase, finished, failed>>

\* A job that was passed over too often ends the starting of others.
MayOvertake == \A i \in skipped : job[i].skips < MaxSkips

StartJob ==
  /\ At("start") /\ todo # <<>> /\ Fits(Turn) /\ MayOvertake
  /\ job' = [j \in Jobs |->
               IF j \in skipped THEN [job[j] EXCEPT !.skips = @ + 1]
               ELSE IF j = Turn THEN [job[j] EXCEPT !.state = "active"]
               ELSE job[j]]
  /\ pending' = Without(pending, Turn)
  /\ active' = Append(active, Turn)
  /\ phase' = "claim" /\ todo' = Tail(todo)
  /\ UNCHANGED <<pageVars, skipped, finished, failed>>

StartOver ==
  /\ At("start") /\ (todo # <<>> => Fits(Turn) /\ ~MayOvertake)
  /\ Prefilling
  /\ UNCHANGED <<pageVars, job, pending, active, finished, failed>>

-----------------------------------------------------------------------------
(* PageTable.allocate_pages for the job just started, one page a step.     *)

Starting == Last(active)
Claimed == Len(job[Starting].pages)

\* Any unreferenced page may be the next of the eviction order, but the ones
\* this job is itself about to claim come last.
Evictable ==
  LET spare == {p \in Unreferenced(table) : table[p].hash \notin PageHashes(Starting)}
  IN  IF spare # {} THEN spare ELSE Unreferenced(table)

Take(p) == job' = [job EXCEPT ![Starting].pages = Append(@, p)]

ClaimHit ==
  /\ At("claim") /\ Claimed < HashedPages(Starting)
  /\ \E p \in Under(PageHash(Starting, Claimed + 1), table, Pages) :
       /\ table' = AddRef(table, p) /\ Take(p)
  /\ UNCHANGED <<kv, pending, active, phase, todo, skipped, finished, failed>>

ClaimMiss ==
  /\ At("claim") /\ Claimed < HashedPages(Starting)
  /\ LET h == PageHash(Starting, Claimed + 1)
     IN  /\ Under(h, table, Pages) = {}
         /\ \E p \in Evictable : table' = AddRefClear(table, p, h) /\ Take(p)
  /\ UNCHANGED <<kv, pending, active, phase, todo, skipped, finished, failed>>

\* A page for what the prompt has no full page for.  It is linked to a complete
\* page before it.
ClaimUnique ==
  /\ At("claim")
  /\ Claimed >= HashedPages(Starting) /\ Claimed < TotalPages(job[Starting].prompt)
  /\ LET before == job[Starting].pages[Claimed]
         follows == Claimed > 0 /\ Complete(table, before)
     IN  \E p \in Evictable :
           /\ table' = [AddRefUnique(table, p) EXCEPT
                          ![p].prev = IF follows THEN table[before].hash ELSE Root]
           /\ Take(p)
  /\ UNCHANGED <<kv, pending, active, phase, todo, skipped, finished, failed>>

\* The complete pages at the front, as far as a recurrent state was kept for
\* one of them; which states the recurrent cache still has is open.
Cached(pages) ==
  Cardinality({i \in DOMAIN pages : \A k \in 1 .. i : Complete(table, pages[k])})

ClaimOver ==
  /\ At("claim") /\ Claimed = TotalPages(job[Starting].prompt)
  /\ \E n \in 0 .. Cached(job[Starting].pages) :
       /\ ~Hybrid => n = Cached(job[Starting].pages)
       /\ job' = [job EXCEPT ![Starting].kvp = n * PageSize]
  /\ phase' = "start"
  /\ UNCHANGED <<pageVars, pending, active, todo, skipped, finished, failed>>

Claim == ClaimHit \/ ClaimMiss \/ ClaimUnique \/ ClaimOver

-----------------------------------------------------------------------------
(* Job.prefill: one chunk of the prompt.  Positions and page indices start *)
(* at 0 here, as in the code.                                              *)

PageAt(j, i) == job[j].pages[i + 1]
Ready(j, i) == Complete(table, PageAt(j, i))
Stop(j) == Len(job[j].ids) - 1
ChunkEnd(j) == Smaller(((job[j].kvp + Chunk) \div PageSize) * PageSize, Stop(j))

\* Complete pages in front of the chunk are passed over, unless the recurrent
\* state has to be computed along the way.
From(j) ==
  LET first == job[j].kvp \div PageSize
      upto == PagesFor(ChunkEnd(j))
      i == CHOOSE n \in first .. upto :
             /\ n = upto \/ ~Ready(j, n)
             /\ \A k \in first .. n - 1 : Ready(j, k)
  IN  IF Hybrid \/ i = first THEN job[j].kvp ELSE i * PageSize

\* The chunk ends before the next complete page; with a recurrent state it ends
\* with the last full page.
To(j) ==
  LET ahead == {i \in From(j) \div PageSize .. PagesFor(ChunkEnd(j)) - 1 : Ready(j, i)}
      whole == (Stop(j) \div PageSize) * PageSize
  IN  IF Hybrid
      THEN IF From(j) < whole /\ whole <= ChunkEnd(j) THEN whole ELSE ChunkEnd(j)
      ELSE IF ahead = {} THEN ChunkEnd(j)
           ELSE (CHOOSE i \in ahead : \A k \in ahead : i <= k) * PageSize

HashBefore(j, i) == IF i = 0 THEN Root ELSE table[PageAt(j, i - 1)].hash

\* Tokens of the chunk that page q holds under the same prefix.
Match(j, q) ==
  LET ids == SubSeq(job[j].ids, From(j) + 1, To(j))
      same == {n \in 1 .. Smaller(Len(ids), Len(table[q].toks)) :
                 SubSeq(ids, 1, n) = SubSeq(table[q].toks, 1, n)}
      i == From(j) \div PageSize
  IN  IF q = PageAt(j, i) \/ table[q].prev # HashBefore(j, i) THEN 0 ELSE Cardinality(same)

BestMatches(j) ==
  {q \in Pages : Match(j, q) > 0 /\ \A r \in Pages : Match(j, r) <= Match(j, q)}

\* MTP needs the last token of the prompt computed.
Copied(j, q) ==
  LET n == IF MTP /\ To(j) = Stop(j) THEN Smaller(Match(j, q), To(j) - From(j) - 1) ELSE Match(j, q)
  IN  IF n > 1 THEN n ELSE 0

\* K/V of the positions from x to y - 1 of a sequence, written through the
\* block table of the job.
Forward(k, j, ids, x, y) ==
  [p \in Pages |-> [s \in 1 .. PageSize |->
     LET at == {n \in x .. y - 1 : PageAt(j, n \div PageSize) = p /\ n % PageSize = s - 1}
     IN  IF at = {} THEN k[p][s] ELSE SubSeq(ids, 1, (CHOOSE n \in at : TRUE) + 1)]]

CopyPage(k, q, p, n) == [k EXCEPT ![p] = [s \in 1 .. PageSize |-> IF s <= n THEN k[q][s] ELSE @[s]]]

\* Mutant: a page counts only when it is full.
OwnPagesFull(j) == From(j) \div PageSize .. (To(j) \div PageSize) - 1

\* The pages of the chunk and, when it ends with a page, the page after it.
OwnPages(j) == From(j) \div PageSize .. Smaller(To(j) \div PageSize, Len(job[j].pages) - 1)

Filled(j) ==
  [p \in Pages |->
     LET at == {i \in OwnPages(j) : PageAt(j, i) = p}
         i == CHOOSE x \in at : TRUE
     IN  IF at = {} THEN table[p]
         ELSE [Link(table, p, HashBefore(j, i))[p] EXCEPT
                 !.toks = SubSeq(job[j].ids, i * PageSize + 1, Smaller((i + 1) * PageSize, To(j)))]]

\* Only a copy, when it covers the whole chunk.
CopyOnly(j, n) ==
  LET i == From(j) \div PageSize
  IN  [table EXCEPT ![PageAt(j, i)] =
         [Link(table, PageAt(j, i), HashBefore(j, i))[PageAt(j, i)] EXCEPT
            !.toks = SubSeq(job[j].ids, From(j) + 1, From(j) + n)]]

NothingToPrefill ==
  /\ At("prefill") /\ todo # <<>>
  /\ PrefillDone(Turn) \/ To(Turn) <= From(Turn)
  /\ job' = [job EXCEPT ![Turn].kvp = IF PrefillDone(Turn) THEN @ ELSE From(Turn)]
  /\ todo' = Tail(todo)
  /\ UNCHANGED <<pageVars, pending, active, phase, skipped, finished, failed>>

PrefillFrom(j, k, n) ==
  /\ kv' = Forward(k, j, job[j].ids, From(j) + n, To(j))
  /\ table' = IF From(j) + n < To(j) THEN Filled(j) ELSE CopyOnly(j, n)
  /\ job' = [job EXCEPT ![j].kvp = To(j)]

Prefill ==
  /\ At("prefill") /\ todo # <<>> /\ ~PrefillDone(Turn) /\ To(Turn) > From(Turn)
  /\ IF Hybrid \/ BestMatches(Turn) = {}
     THEN PrefillFrom(Turn, kv, 0)
     ELSE \E q \in BestMatches(Turn) :
            LET n == Copied(Turn, q)
            IN  PrefillFrom(Turn, CopyPage(kv, q, PageAt(Turn, From(Turn) \div PageSize), n), n)
  /\ todo' = Tail(todo)
  /\ UNCHANGED <<pending, active, phase, skipped, finished, failed>>

PrefillOver ==
  /\ At("prefill") /\ todo = <<>>
  /\ phase' = "decode" /\ todo' = active
  /\ UNCHANGED <<pageVars, job, pending, active, skipped, finished, failed>>

-----------------------------------------------------------------------------
(* iterate_gen.  The code writes the windows of all jobs before it takes   *)
(* any sample; a window only writes pages its own job holds alone, so the  *)
(* jobs are taken one by one here.                                         *)

FirstPage(j) == job[j].kvp \div PageSize
LastPage(j, d) == (job[j].kvp + d) \div PageSize

\* One write of get_input_ids_list: as much of the rest as the page has room for
\* after its valid length.
Put(j, w) ==
  LET p == PageAt(j, w.at \div PageSize)
      n == Smaller(Len(w.rest), PageSize - Len(w.t[p].toks))
  IN  IF w.rest = <<>> THEN w
      ELSE [t |-> Extend(w.t, p, SubSeq(w.rest, 1, n)),
            at |-> w.at + n, rest |-> SubSeq(w.rest, n + 1, Len(w.rest))]

\* Job.get_input_ids_list: the last token and the draft go to the pages.
Fed(j, row) ==
  LET w[n \in Nat] ==
        IF n = 0 THEN [t |-> table, at |-> job[j].kvp, rest |-> row] ELSE Put(j, w[n - 1])
  IN  w[Len(row)].t

\* One turn of reject_remainder: the last page of what is rejected is cut.
Cut(pages, pos, w) ==
  LET p == pages[(pos + w.r - 1) \div PageSize + 1]
      n == Smaller(Len(w.t[p].toks), w.r)
  IN  IF w.r = 0 THEN w
      ELSE [t |-> [w.t EXCEPT ![p].toks = SubSeq(@, 1, Len(@) - n)], r |-> w.r - n]

\* Mutant: rejected positions stay in the pages.
RejectedNot(t, pages, pos, r) == t

\* reject_remainder: r positions behind pos are taken back, from the last page on.
Rejected(t, pages, pos, r) ==
  LET w[n \in Nat] == IF n = 0 THEN [t |-> t, r |-> r] ELSE Cut(pages, pos, w[n - 1])
  IN  w[r].t

\* Mutant: the job's own page keeps its reference.
SwitchKeeping(t, own, twin) == AddRef(t, twin)
Switch(t, own, twin) == AddRef(SubRef(t, own), twin)

\* receive_sample when the page with index i is full: it takes its content
\* hash, or the job goes over to the page that already has it.
PageDone(t, j, i, h) ==
  LET own == PageAt(j, i)
      twins == Under(h, t, Referenced(t))
      stale == Under(h, t, Unreferenced(t))
      twin == CHOOSE q \in twins : TRUE
      cleared == IF stale = {} THEN t ELSE Clear(t, CHOOSE q \in stale : TRUE)
      hashed == IF twins # {} THEN Switch(t, own, twin) ELSE UpdateHash(cleared, own, h)
      linked == IF i + 1 < Len(job[j].pages) THEN Link(hashed, PageAt(j, i + 1), h) ELSE hashed
  IN  [table |-> linked,
       pages |-> IF twins = {} THEN job[j].pages ELSE [job[j].pages EXCEPT ![i + 1] = twin],
       ok |-> twins = {} \/ Complete(t, twin)]

\* A page nobody holds keeps the K/V of its valid length.
Kept(k, t) ==
  [p \in Pages |-> IF t[p].refs > 0 THEN k[p]
                   ELSE [s \in 1 .. PageSize |-> IF s <= Len(t[p].toks) THEN k[p][s] ELSE <<>>]]

\* n samples are taken from a window with draft: all but the last repeat the
\* draft, the last differs from it, or nothing was left of it, or a checkpoint
\* or the end of the stream is there.  At the end of a stream the rest of the
\* window is not taken back.
Row(j, draft) == job[j].ids \o draft
Seen(j, draft, n, token) == job[j].ids \o SubSeq(draft, 1, n - 1) \o <<token>>
NewPos(j, n) == job[j].kvp + n

\* The window is written to the pages,
Written(j, draft) == Fed(j, SubSeq(Row(j, draft), job[j].kvp + 1, Len(Row(j, draft))))

NewHash(j, draft, n, token) ==
  LET i == FirstPage(j)
  IN  HashBefore(j, i) \o SubSeq(Seen(j, draft, n, token), i * PageSize + 1, (i + 1) * PageSize)

\* then a page that is full takes its hash,
Completed(j, draft, n, token) ==
  LET t == Written(j, draft)
      i == FirstPage(j)
  IN  IF NewPos(j, n) \div PageSize = i THEN [table |-> t, pages |-> job[j].pages, ok |-> TRUE]
      ELSE PageDone(t, j, i, NewHash(j, draft, n, token))

\* and what was not accepted is taken back.
After(j, draft, n, token, eos) ==
  LET done == Completed(j, draft, n, token)
  IN  IF eos THEN done.table
      ELSE Rejected(done.table, done.pages, NewPos(j, n), Len(draft) + 1 - n)

Sampled(j, draft, n, token, eos) ==
  LET done == Completed(j, draft, n, token)
      after == After(j, draft, n, token, eos)
      window == Forward(kv, j, Row(j, draft), job[j].kvp, job[j].kvp + Len(draft) + 1)
  IN  IF done.ok
      THEN /\ table' = after
           /\ kv' = Kept(window, after)
           /\ job' = [job EXCEPT ![j].ids = Seen(j, draft, n, token), ![j].pages = done.pages,
                                 ![j].kvp = NewPos(j, n), ![j].new = @ + n]
           /\ finished' = IF eos THEN Append(finished, j) ELSE finished
           /\ failed' = failed
      ELSE failed' = TRUE /\ UNCHANGED <<pageVars, job, finished>>

\* Every window page must be this job's alone.
WindowOk(j, d) ==
  \A i \in FirstPage(j) .. LastPage(j, d) :
    i < Len(job[j].pages) /\ table[PageAt(j, i)].refs = 1

\* A recurrent state is kept at some page boundaries, and the window cut there.
Checkpoint(j, n) == Hybrid /\ (job[j].kvp + n) % PageSize = 0

\* Only jobs that have finished prefill take part.
NotReady ==
  /\ At("decode") /\ todo # <<>> /\ ~PrefillDone(Turn)
  /\ todo' = Tail(todo)
  /\ UNCHANGED <<pageVars, job, pending, active, phase, skipped, finished, failed>>

Decode ==
  /\ At("decode") /\ todo # <<>> /\ PrefillDone(Turn)
  /\ \E d \in 0 .. Depth :
       /\ WindowOk(Turn, d)
       /\ \E draft \in [1 .. d -> Tokens], n \in 1 .. d + 1, token \in Tokens, eos \in BOOLEAN :
            /\ job[Turn].new + n <= MaxTokens
            /\ job[Turn].new + n = MaxTokens => eos
            /\ (n <= d /\ ~eos) => token # draft[n] \/ Checkpoint(Turn, n)
            /\ Sampled(Turn, draft, n, token, eos)
  /\ todo' = Tail(todo)
  /\ UNCHANGED <<pending, active, phase, skipped>>

DecodeOver ==
  /\ At("decode") /\ todo = <<>>
  /\ phase' = "release"
  /\ UNCHANGED <<pageVars, job, pending, active, todo, skipped, finished, failed>>

-----------------------------------------------------------------------------
(* deallocate_pages, for the jobs that ended or were cancelled.            *)

Leaving == finished[1]

ReleasePage ==
  /\ At("release") /\ finished # <<>> /\ job[Leaving].pages # <<>>
  /\ table' = SubRef(table, job[Leaving].pages[1])
  /\ kv' = Kept(kv, table')
  /\ job' = [job EXCEPT ![Leaving].pages = Tail(@)]
  /\ UNCHANGED <<pending, active, phase, todo, skipped, finished, failed>>

Leave ==
  /\ At("release") /\ finished # <<>> /\ job[Leaving].pages = <<>>
  /\ job' = [job EXCEPT ![Leaving] = OverJob]
  /\ active' = Without(active, Leaving)
  /\ finished' = Tail(finished)
  /\ UNCHANGED <<pageVars, pending, phase, todo, skipped, failed>>

ReleaseOver ==
  /\ At("release") /\ finished = <<>>
  /\ phase' = "idle"
  /\ UNCHANGED <<pageVars, job, pending, active, todo, skipped, finished, failed>>

-----------------------------------------------------------------------------
Init ==
  /\ PageTableInit
  /\ job = [j \in Jobs |-> NewJob]
  /\ pending = <<>> /\ active = <<>>
  /\ phase = "idle" /\ todo = <<>> /\ skipped = {}
  /\ finished = <<>> /\ failed = FALSE

\* Nothing left to do, or a failed assertion ended iterate().
Rest ==
  /\ failed \/ (At("idle") /\ \A j \in Jobs : job[j].state = "over")
  /\ UNCHANGED vars

Next ==
  \/ \E j \in Jobs : Enqueue(j) \/ CancelPending(j) \/ CancelActive(j)
  \/ ClearQueue \/ Iterate
  \/ PassOver \/ StartJob \/ StartOver \/ Claim
  \/ NothingToPrefill \/ Prefill \/ PrefillOver
  \/ NotReady \/ Decode \/ DecodeOver
  \/ ReleasePage \/ Leave \/ ReleaseOver
  \/ Rest

Spec == Init /\ [][Next]_vars

-----------------------------------------------------------------------------
(* Properties.                                                             *)

\* The types of the variables; queue and batch agree with the jobs' states and
\* the batch stays within max_batch_size.
TypeOK ==
  /\ PageTableTypeOK
  /\ job \in [Jobs -> Job]
  /\ \A j \in Jobs : job[j].kvp <= Len(job[j].ids) /\ job[j].new <= MaxTokens
  /\ pending \in Seq(Jobs) /\ active \in Seq(Jobs) /\ Len(active) <= MaxBatch
  /\ {j \in Jobs : job[j].state = "queued"} = ToSet(pending)
  /\ {j \in Jobs : job[j].state = "active"} = ToSet(active)
  /\ phase \in Phases /\ todo \in Seq(Jobs) /\ skipped \subseteq Jobs
  /\ finished \in Seq(Jobs) /\ failed \in BOOLEAN

Working == ToSet(active) \ ToSet(finished)

\* Reference counts are exact through allocation, sharing, the switch to a
\* twin page, cancellation and release, and no job holds a page twice: no page
\* leaks and none is given away while a job uses it.
RefCounts ==
  /\ \A j \in Jobs : \A i, k \in DOMAIN job[j].pages : i # k => job[j].pages[i] # job[j].pages[k]
  /\ \A p \in Pages :
       table[p].refs = Cardinality({j \in Jobs : p \in ToSet(job[j].pages)})

\* No two pages have one hash, whatever is generated, reverted or revived: the
\* maps of the page table are keyed by it and would lose a page.
UniqueHashes == \A p, q \in Pages : p # q => table[p].hash # table[q].hash

\* Once iterate_start_jobs has started a job, allocate_pages never runs out of
\* pages to evict: what the job still has to claim beyond pages already held by
\* others is there.
NeverStarves ==
  At("claim") =>
    TotalPages(job[Starting].prompt) - Claimed <=
      Cardinality(Unreferenced(table)) + Cardinality(
        {i \in Claimed + 1 .. HashedPages(Starting) :
           Under(PageHash(Starting, i), table, Referenced(table)) # {}})

\* The pages a draft window is written to are allocated and held by that job
\* alone, the assertion of get_input_ids_list: sharing by hash never reaches a
\* page that is still written to.
WindowAlone ==
  At("decode") /\ todo # <<>> /\ PrefillDone(Turn) => WindowOk(Turn, Depth)

\* When a completed page turns out to be a copy of one held by another job,
\* that page is complete, the assertion of receive_sample.  With one job at a
\* time there is no such page; in a batch of a hybrid model the assertion fails,
\* since one job may overtake another (GeneratorHybrid.cfg, GeneratorTwin.cfg).
TwinComplete == ~failed

\* A complete page under a content hash has the hash of its own tokens after
\* its prev_hash, the check of validate_pagetable: links, hashes and contents
\* never drift apart over reuse, release and revert.
HashChain ==
  \A p \in Pages : Complete(table, p) /\ IsContent(table[p].hash) =>
    table[p].hash = table[p].prev \o table[p].toks

\* What a content hash promises: the K/V of a complete page under it were
\* computed from exactly the tokens the hash was taken of, the whole prefix
\* included, so a prompt that finds the hash may use the page.
HashPromise ==
  \A p \in Pages :
    LET h == table[p].hash
    IN  Complete(table, p) /\ IsContent(h) /\ Rooted(h) =>
          \A s \in 1 .. PageSize : kv[p][s] = SubSeq(h, 1, Len(h) - PageSize + s)

\* The valid length of a page counts the tokens whose K/V were computed behind
\* the page it is linked to, or at the start of a sequence where it is linked
\* to none (CachePage.kv_position): Job.prefill copies such tokens for any
\* prompt that goes on with them there, so this must survive eviction, revert
\* and the loss of a hash.
KvValid ==
  \A p \in Pages : Rooted(table[p].prev) =>
    \A s \in DOMAIN table[p].toks : kv[p][s] = table[p].prev \o SubSeq(table[p].toks, 1, s)

\* The token buffers of a running job's pages spell its sequence up to its
\* cache position, the last check of validate_pagetable, after any mixture of
\* reuse, chunks, drafts and rejections.
SequencesMatch ==
  phase # "claim" => \A j \in Working : \A x \in 0 .. job[j].kvp - 1 :
    LET toks == table[PageAt(j, x \div PageSize)].toks
        s == (x % PageSize) + 1
    IN  s \in DOMAIN toks /\ toks[s] = job[j].ids[x + 1]

\* A running job attends to K/V that were computed from its own sequence, at
\* every position in front of its cache position: reuse is invisible.
ContextRight ==
  phase # "claim" => \A j \in Working : \A x \in 0 .. job[j].kvp - 1 :
    kv[PageAt(j, x \div PageSize)][(x % PageSize) + 1] = SubSeq(job[j].ids, 1, x + 1)

\* The valid length of a generating job's pages ends exactly at its cache
\* position, which is where get_input_ids_list goes on writing: after the
\* prompt, a rejection and a page boundary.
Frontier ==
  phase \in {"idle", "decode"} =>
    \A j \in {k \in Working : PrefillDone(k)} :
      \A i \in FirstPage(j) .. Len(job[j].pages) - 1 :
        Len(table[PageAt(j, i)].toks) = IF i = FirstPage(j) THEN job[j].kvp % PageSize ELSE 0
=============================================================================
