--------------------------- MODULE ServingProofs ---------------------------
(***************************************************************************)
(* Serving's safety for every set of requests, queue bound and setting.    *)
(*                                                                         *)
(* The inductive invariant says, request by request, what the position of  *)
(* its main task and of its pull loop implies about the lock, about its    *)
(* generator and about its __anext__ task.  TypeOK needs QueueCount (or    *)
(* the waiter count might leave Nat), EngineExclusive needs that only the  *)
(* lock's owner has an open generator, and that in turn needs that a main  *)
(* task never leaves the pull loop behind with an __anext__ task pending.  *)
(***************************************************************************)
EXTENDS Serving, FiniteSetTheorems, TLAPS

(* What one step of the engine does to the state the server relies on,      *)
(* whatever the stage of generate() it is taken at.                         *)

\* The generator of r is closed, its caller has an outcome, and the engine is
\* idle and no healthier than before.
Ends(r) ==
  /\ gen' = [gen EXCEPT ![r] = "closed"]
  /\ anext' = [anext EXCEPT ![r] = anext'[r]] /\ anext'[r] # "pending"
  /\ active' = FALSE
  /\ ready' => ready

\* The generator of r stands at an await or a yield of its body.
Continues(r) ==
  /\ gen' = [gen EXCEPT ![r] = gen'[r]] /\ gen'[r] \in {"parked", "yield"}
  /\ anext' = [anext EXCEPT ![r] = anext'[r]]
  /\ active' = TRUE
  /\ ready' = ready

\* The generator of r, whose body was never entered, is closed.
Discards(r) ==
  /\ gen[r] = "fresh" /\ gen' = [gen EXCEPT ![r] = "closed"]
  /\ anext' = [anext EXCEPT ![r] = anext'[r]] /\ anext'[r] # "pending"
  /\ UNCHANGED <<active, ready>>

\* No generation is counted as started beyond c, and a failure beyond c takes
\* the health flag down.
Counts(c) ==
  /\ count'["started"] = c["started"]
  /\ ready' => count'["failed"] = c["failed"]

\* A step that fails closed: see Serving's FailsClosed.
Closing ==
  /\ count'["failed"] # count["failed"] => ~ready'
  /\ ~ready => ~ready' /\ count'["started"] = count["started"]

\* The initial state of the engine has the right types.
LEMMA EngineInitType == EngineInit => EngineTypeOK
<1> SUFFICES ASSUME EngineInit PROVE EngineTypeOK
  OBVIOUS
<1>1. count \in [Counters -> Nat]
  BY DEF EngineInit
<1>2. /\ gen \in [Requests -> GenStates] /\ stage \in [Requests -> Stages]
      /\ anext \in [Requests -> Outcomes]
  BY DEF EngineInit, GenStates, Stages, Outcomes
<1>3. ready \in BOOLEAN /\ active \in BOOLEAN /\ persistent \in BOOLEAN
  BY DEF EngineInit
<1>4. users \in SUBSET Requests /\ job \in Requests \cup {NoRequest}
  BY DEF EngineInit
<1> QED
  BY <1>1, <1>2, <1>3, <1>4 DEF EngineTypeOK

\* Incrementing a counter yields counters.
LEMMA BumpType ==
  ASSUME NEW c \in [Counters -> Nat], NEW k \in Counters
  PROVE  /\ Bump(c, k) \in [Counters -> Nat]
         /\ \A i \in Counters : i # k => Bump(c, k)[i] = c[i]
BY DEF Bump

\* The finally block of generate() ends the response on every path.
LEMMA UnwindEnds ==
  ASSUME EngineTypeOK, NEW r \in Requests, NEW s \in Stages,
         NEW c \in [Counters -> Nat], NEW up \in BOOLEAN, up => ready,
         NEW result \in Outcomes \ {"pending"},
         Unwind(r, s, c, up, result)
  PROVE  EngineTypeOK' /\ Ends(r) /\ Counts(c)
<1> DEFINE sweep == up /\ Built(s)
<1>1. PICK clean \in BOOLEAN :
        /\ ready' = (up /\ ~(sweep /\ ~clean))
        /\ count' = LET c2 == IF sweep /\ ~clean THEN Bump(c, "failed") ELSE c
                    IN  IF CountsCancelled(s, ready') THEN Bump(c2, "cancelled") ELSE c2
        /\ persistent' = (persistent /\ (Built(s) => Kept(s, sweep /\ clean)))
        /\ users' = IF persistent' THEN users ELSE {}
        /\ job' = IF (sweep /\ clean) \/ ~persistent' THEN NoRequest ELSE job
        /\ active' = FALSE
        /\ gen' = [gen EXCEPT ![r] = "closed"]
        /\ stage' = [stage EXCEPT ![r] = s]
        /\ anext' = [anext EXCEPT ![r] = IF (sweep /\ ~clean) \/ ~ready THEN "error" ELSE result]
  BY DEF Unwind
<1>2. count' \in [Counters -> Nat]
  BY <1>1, BumpType DEF Counters
<1>3. ready' \in BOOLEAN /\ persistent' \in BOOLEAN /\ active' \in BOOLEAN
  BY <1>1, Zenon DEF EngineTypeOK, Kept, Built, Done
<1>4. users' \in SUBSET Requests /\ job' \in Requests \cup {NoRequest}
  BY <1>1 DEF EngineTypeOK
<1>5. /\ gen' \in [Requests -> GenStates] /\ stage' \in [Requests -> Stages]
      /\ anext' \in [Requests -> Outcomes]
  BY <1>1 DEF EngineTypeOK, GenStates, Outcomes
<1>6. Ends(r)
  BY <1>1 DEF Ends, EngineTypeOK
<1>7. Counts(c)
  BY <1>1, BumpType DEF Counts, Counters
<1> QED
  BY <1>2, <1>3, <1>4, <1>5, <1>6, <1>7 DEF EngineTypeOK

\* A failing generation ends, too.
LEMMA FailEnds ==
  ASSUME EngineTypeOK, NEW r \in Requests, NEW s \in Stages,
         NEW c \in [Counters -> Nat], Fail(r, s, c)
  PROVE  EngineTypeOK' /\ Ends(r) /\ Counts(c)
<1>1. Bump(c, "failed") \in [Counters -> Nat] /\ Bump(c, "failed")["started"] = c["started"]
  BY BumpType DEF Counters
<1>2. ~ready'
  BY DEF Fail, Unwind
<1> QED
  BY <1>1, <1>2, UnwindEnds DEF Fail, Outcomes, Counts

\* Delivering the events of one iteration continues the response or ends it.
LEMMA BatchEffect ==
  ASSUME EngineTypeOK, NEW r \in Requests, NEW c \in [Counters -> Nat],
         NEW j \in Requests \cup {NoRequest}, Batch(r, c, j)
  PROVE  EngineTypeOK' /\ (Continues(r) \/ Ends(r)) /\ Counts(c)
<1>1. CASE Fail(r, "loop", c)
  BY <1>1, FailEnds DEF Stages
<1>2. CASE /\ \E s \in {"loop", "eos"} : Item(r, s) \/ Park(r, s)
           /\ job' = IF stage'[r] = "eos" THEN NoRequest ELSE j
           /\ count' = c /\ active' = TRUE
           /\ persistent' = (persistent \/ (PrefixCache /\ j = r /\ ready))
           /\ users' = IF persistent' THEN users \cup {r} ELSE {}
           /\ UNCHANGED ready
  <2>1. persistent' \in BOOLEAN /\ active' \in BOOLEAN /\ ready' \in BOOLEAN
    BY <1>2, EngineAssumption DEF EngineTypeOK
  <2>2. /\ gen' \in [Requests -> GenStates] /\ stage' \in [Requests -> Stages]
        /\ anext' \in [Requests -> Outcomes] /\ Continues(r)
    BY <1>2 DEF EngineTypeOK, Item, Park, Suspend, GenStates, Stages, Outcomes, Continues
  <2> QED
    BY <1>2, <2>1, <2>2 DEF EngineTypeOK, Counts
<1> QED
  BY <1>1, <1>2 DEF Batch

\* The image stage, and what follows it, continue the response or end it.
LEMMA EmbedEffect ==
  ASSUME EngineTypeOK, NEW r \in Requests, NEW c \in [Counters -> Nat], Embed(r, c)
  PROVE  EngineTypeOK' /\ (Continues(r) \/ Ends(r)) /\ Counts(c)
<1>1. CASE Fail(r, "image", c)
  BY <1>1, FailEnds DEF Stages
<1>2. CASE Batch(r, c, r)
  BY <1>2, BatchEffect
<1>3. CASE /\ Park(r, "image")
           /\ count' = c /\ active' = TRUE
           /\ UNCHANGED <<ready, persistent, users, job>>
  BY <1>3 DEF EngineTypeOK, Park, Suspend, GenStates, Stages, Outcomes, Continues, Counts
<1> QED
  BY <1>1, <1>2, <1>3 DEF Embed

\* Completing the response on an active engine continues it or ends it.
LEMMA CompleteEffect ==
  ASSUME EngineTypeOK, NEW r \in Requests, active, Complete(r)
  PROVE  EngineTypeOK' /\ (Continues(r) \/ Ends(r)) /\ Counts(count)
<1> DEFINE c == Bump(count, "completed")
<1>1. /\ c \in [Counters -> Nat] /\ Bump(c, "invalid") \in [Counters -> Nat]
      /\ \A k \in {"started", "failed"} :
            c[k] = count[k] /\ Bump(c, "invalid")[k] = count[k]
  BY BumpType DEF EngineTypeOK, Counters
<1> HIDE DEF c
<1>2. CASE Fail(r, "counted", c)
  BY <1>1, <1>2, FailEnds DEF Stages, Counts
<1>3. CASE Unwind(r, "counted", Bump(c, "invalid"), ready, "protocol")
  BY <1>1, <1>3, UnwindEnds DEF Stages, Outcomes, EngineTypeOK, Counts
<1>4. CASE /\ Item(r, "tools") \/ Suspend(r, "final", "yield", "final")
           /\ count' = c
           /\ UNCHANGED <<ready, active, persistent, users, job>>
  BY <1>1, <1>4 DEF EngineTypeOK, Item, Suspend, GenStates, Stages, Outcomes, Continues, Counts
<1> QED
  BY <1>2, <1>3, <1>4 DEF Complete, c

\* Every step of the engine on an active generator continues or ends it; a
\* generator entered for the first time may also be refused.
LEMMA EngineStepEffect ==
  ASSUME EngineTypeOK, NEW r \in Requests, EngineStep(r),
         gen[r] \in {"parked", "yield"} => active
  PROVE  EngineTypeOK' /\ (Continues(r) \/ Ends(r) \/ Discards(r)) /\ Closing
<1>0. Counts(count) /\ (Continues(r) \/ Ends(r)) => Closing
  BY DEF Counts, Closing, Continues, Ends
<1>1. CASE Begin(r)
  <2>1. /\ Bump(count, "started") \in [Counters -> Nat]
        /\ Bump(count, "started")["failed"] = count["failed"]
    BY BumpType DEF EngineTypeOK, Counters
  <2>2. CASE ready /\ Embed(r, Bump(count, "started"))
    BY <2>1, <2>2, EmbedEffect DEF Closing, Counts
  <2>3. CASE /\ gen[r] = "fresh"
             /\ gen' = [gen EXCEPT ![r] = "closed"]
             /\ anext' = [anext EXCEPT ![r] = "error"]
             /\ UNCHANGED <<ready, active, persistent, users, job, count, stage>>
    BY <2>3 DEF Discards, EngineTypeOK, GenStates, Outcomes, Closing
  <2> QED
    BY <1>1, <2>2, <2>3 DEF Begin
<1>2. CASE EmbedNext(r)
  BY <1>2, EmbedEffect, FailEnds, <1>0 DEF EmbedNext, EngineTypeOK, Stages
<1>3. CASE BatchRest(r)
  BY <1>3, BatchEffect, <1>0 DEF BatchRest, EngineTypeOK
<1>4. CASE Iterate(r)
  BY <1>4, BatchEffect, <1>0 DEF Iterate, EngineTypeOK
<1>5. CASE Starved(r)
  BY <1>5, FailEnds, <1>0 DEF Starved, EngineTypeOK, Stages
<1>6. CASE BatchOver(r) \/ ToolsSent(r)
  BY <1>6 DEF BatchOver, ToolsSent, Resume, Park, Suspend, EngineTypeOK, GenStates,
              Stages, Outcomes, Continues, Closing
<1>7. CASE LoopOver(r)
  <2>1. CASE Complete(r)
    BY <1>7, <2>1, CompleteEffect, <1>0 DEF LoopOver, Resume
  <2>2. CASE Item(r, "flush") /\ UNCHANGED <<ready, active, persistent, users, job, count>>
    BY <1>7, <2>2 DEF LoopOver, Resume, Item, Suspend, EngineTypeOK, GenStates, Stages,
                      Outcomes, Continues, Closing
  <2> QED
    BY <1>7, <2>1, <2>2 DEF LoopOver
<1>8. CASE Flushed(r)
  BY <1>8, CompleteEffect, <1>0 DEF Flushed, Resume
<1> QED
  BY <1>1, <1>2, <1>3, <1>4, <1>5, <1>6, <1>7, <1>8 DEF EngineStep

\* Cancelling a pending __anext__ ends the response, or discards a generator
\* that was never entered.
LEMMA InterruptEffect ==
  ASSUME EngineTypeOK, NEW r \in Requests, Interrupt(r)
  PROVE  EngineTypeOK' /\ (Ends(r) \/ Discards(r)) /\ Closing
<1>0. Counts(count) /\ Ends(r) => Closing
  BY DEF Counts, Closing, Ends
<1>1. CASE /\ gen[r] = "fresh"
           /\ gen' = [gen EXCEPT ![r] = "closed"]
           /\ anext' = [anext EXCEPT ![r] = "cancelled"]
           /\ UNCHANGED <<ready, active, persistent, users, job, count, stage>>
  BY <1>1 DEF Discards, EngineTypeOK, GenStates, Outcomes, Closing
<1>2. CASE Unwind(r, stage[r], count, ready, "cancelled")
  BY <1>0, <1>2, UnwindEnds DEF EngineTypeOK, Outcomes
<1> QED
  BY <1>1, <1>2 DEF Interrupt

\* Closing a generator nobody drives leaves it closed.
LEMMA AcloseEffect ==
  ASSUME EngineTypeOK, NEW r \in Requests, Aclose(r), anext[r] # "pending"
  PROVE  /\ EngineTypeOK' /\ Closing
         /\ Ends(r) \/ Discards(r) \/ (gen[r] = "closed" /\ UNCHANGED engineVars)
<1>0. Counts(count) /\ Ends(r) => Closing
  BY DEF Counts, Closing, Ends
<1>1. CASE gen[r] = "yield" /\ Unwind(r, stage[r], count, ready, anext[r])
  BY <1>0, <1>1, UnwindEnds DEF EngineTypeOK
<1>2. CASE /\ gen[r] = "fresh"
           /\ gen' = [gen EXCEPT ![r] = "closed"]
           /\ UNCHANGED <<ready, active, persistent, users, job, count, stage, anext>>
  BY <1>2 DEF Discards, EngineTypeOK, GenStates, Closing
<1>3. CASE gen[r] = "closed" /\ UNCHANGED engineVars
  BY <1>3 DEF EngineTypeOK, engineVars, Closing
<1> QED
  BY <1>1, <1>2, <1>3 DEF Aclose

-----------------------------------------------------------------------------
(* The server: one request after the other.                                 *)

Admitted(r) == pc[r] \in {"json", "respond", "reap"}

LockInv(r) ==
  /\ Admitted(r) => lock = r
  /\ lock = r => Admitted(r) \/ pc[r] = "finish"

LoopInv(r) ==
  /\ ~Admitted(r) => loop[r] \in {"off", "end"}
  /\ pc[r] = "json" => ~sse[r] /\ loop[r] \in {"wait", "settle"}
  /\ pc[r] \in {"respond", "reap"} => sse[r]
  /\ killed[r] => /\ pc[r] \in {"json", "reap", "finish"}
                  /\ loop[r] \notin {"start", "item", "wait"}

GenInv(r) ==
  /\ ~Admitted(r) => gen[r] \in {"none", "closed"}
  /\ anext[r] = "pending" => loop[r] \in {"wait", "settle"}
  /\ gen[r] = "fresh" /\ loop[r] \in {"start", "item", "wait"} => ready

RequestInv(r) ==
  /\ LockInv(r) /\ LoopInv(r) /\ GenInv(r)
  /\ ~Live(r) => disc[r] = "none"

Queued == {r \in Requests : pc[r] = "queue"}
QueueCount == waiting = Cardinality(Queued) /\ waiting <= MaxPending

Activity == active <=> \E r \in Requests : Running(r)

IInv ==
  /\ TypeOK /\ QueueCount /\ Activity
  /\ \A r \in Requests : RequestInv(r)

-----------------------------------------------------------------------------
(* Frames: what a step of one request leaves alone.                        *)

Untouched(q) ==
  /\ pc'[q] = pc[q] /\ loop'[q] = loop[q] /\ sse'[q] = sse[q]
  /\ killed'[q] = killed[q] /\ disc'[q] = disc[q]
  /\ gen'[q] = gen[q] /\ anext'[q] = anext[q]

\* Only r's own state changes, the lock only from or to r, and the health
\* flag only while r owns the lock.
Owns(r) ==
  /\ \A q \in Requests \ {r} : Untouched(q)
  /\ \/ lock' = lock
     \/ lock = NoRequest /\ lock' = r
     \/ lock = r /\ lock' = NoRequest
  /\ ready' = ready \/ lock = r

\* The other requests keep their invariant.
LEMMA OthersKept ==
  ASSUME IInv, NEW r \in Requests, NEW q \in Requests, q # r, Owns(r)
  PROVE  RequestInv(q)'
<1>1. RequestInv(q) /\ Untouched(q) /\ q # NoRequest
  BY EngineAssumption DEF IInv, Owns
<1>2. ready => ready' \/ lock = r
  BY DEF Owns
<1>3. LockInv(q)'
  BY <1>1 DEF Owns, RequestInv, LockInv, Admitted, Untouched
<1>4. LoopInv(q)'
  BY <1>1 DEF RequestInv, LoopInv, Admitted, Untouched
<1>5. GenInv(q)'
  BY <1>1, <1>2 DEF RequestInv, LockInv, LoopInv, GenInv, Admitted, Untouched
<1> QED
  BY <1>1, <1>3, <1>4, <1>5 DEF RequestInv, Live, Untouched

\* A request with an open generator owns the lock.
LEMMA OpenOwns ==
  ASSUME IInv, NEW r \in Requests,
         gen[r] \notin {"none", "closed"} \/ anext[r] = "pending"
                \/ loop[r] \notin {"off", "end"}
  PROVE  Admitted(r) /\ lock = r
BY DEF IInv, RequestInv, LockInv, LoopInv, GenInv, Admitted

\* The activity flag follows the owner's generator.
LEMMA ActivityKept ==
  ASSUME IInv, NEW r \in Requests,
         (Ends(r) /\ lock = r) \/ Continues(r) \/ Discards(r) \/ UNCHANGED <<gen, active>>
  PROVE  Activity'
<1>0. gen \in [Requests -> GenStates]
  BY DEF IInv, TypeOK, EngineTypeOK
<1>1. CASE Ends(r) /\ lock = r
  <2>1. \A q \in Requests : q # r => ~Running(q)
    BY <1>1, OpenOwns DEF Running
  <2>2. \A q \in Requests : ~Running(q)'
    BY <1>0, <1>1, <2>1 DEF Ends, Running
  <2> QED
    BY <1>1, <2>2 DEF Activity, Ends
<1>2. CASE Continues(r)
  BY <1>0, <1>2 DEF Activity, Continues, Running
<1>3. CASE Discards(r)
  <2>1. \A q \in Requests : Running(q)' <=> Running(q)
    BY <1>0, <1>3 DEF Discards, Running
  <2> QED
    BY <1>3, <2>1 DEF Activity, Discards, IInv
<1>4. CASE UNCHANGED <<gen, active>>
  BY <1>4 DEF Activity, Running, IInv
<1> QED
  BY <1>1, <1>2, <1>3, <1>4

\* The queue is counted right when nobody enters or leaves it.
LEMMA QueueKept ==
  ASSUME IInv, waiting' = waiting,
         \A q \in Requests : pc'[q] = "queue" <=> pc[q] = "queue"
  PROVE  QueueCount'
BY DEF IInv, QueueCount, Queued

\* The queue is counted right when one request leaves it.
LEMMA QueueLeft ==
  ASSUME IInv, NEW r \in Requests, pc[r] = "queue", pc'[r] # "queue",
         waiting' = waiting - 1,
         \A q \in Requests \ {r} : pc'[q] = pc[q]
  PROVE  QueueCount' /\ waiting' \in Nat
<1>1. IsFiniteSet(Queued)
  BY EngineAssumption, FS_Subset DEF Queued
<1>2. Queued' = Queued \ {r} /\ r \in Queued
  BY DEF Queued
<1>3. Cardinality(Queued \ {r}) = Cardinality(Queued) - 1
  BY <1>1, <1>2, FS_RemoveElement
<1>4. Cardinality(Queued \ {r}) \in Nat
  BY <1>1, FS_RemoveElement, FS_CardinalityType
<1>5. waiting \in Nat /\ MaxPending \in Nat /\ waiting = Cardinality(Queued) /\ waiting <= MaxPending
  BY ServingAssumption DEF IInv, TypeOK, QueueCount
<1> QED
  BY <1>2, <1>3, <1>4, <1>5 DEF QueueCount

\* The queue is counted right when one request joins it.
LEMMA QueueJoined ==
  ASSUME IInv, NEW r \in Requests, pc[r] # "queue", pc'[r] = "queue",
         ~Full(waiting), waiting' = waiting + 1,
         \A q \in Requests \ {r} : pc'[q] = pc[q]
  PROVE  QueueCount'
<1>1. IsFiniteSet(Queued)
  BY EngineAssumption, FS_Subset DEF Queued
<1>2. Queued' = Queued \cup {r} /\ r \notin Queued
  BY DEF Queued
<1>3. Cardinality(Queued \cup {r}) = Cardinality(Queued) + 1
  BY <1>1, <1>2, FS_AddElement
<1>4. waiting \in Nat /\ MaxPending \in Nat /\ waiting = Cardinality(Queued)
  BY ServingAssumption DEF IInv, TypeOK, QueueCount
<1> QED
  BY <1>2, <1>3, <1>4 DEF QueueCount, Full

\* How the pieces of a step of r make the invariant.
LEMMA StepKeeps ==
  ASSUME IInv, NEW r \in Requests, TypeOK', QueueCount', Activity',
         RequestInv(r)', Owns(r)
  PROVE  IInv'
BY OthersKept DEF IInv

-----------------------------------------------------------------------------
(* The initial state.                                                      *)

\* The invariant holds initially.
LEMMA InitInv == Init => IInv
<1> SUFFICES ASSUME Init PROVE IInv
  OBVIOUS
<1>1. TypeOK
  <2>1. EngineTypeOK
    BY EngineInitType DEF Init
  <2>2. /\ pc \in [Requests -> MainStates] /\ loop \in [Requests -> LoopStates]
        /\ why \in [Requests -> Reasons]
        /\ disc \in [Requests -> {"none", "watch", "gone", "settled"}]
    BY DEF Init, MainStates, LoopStates, Reasons
  <2>3. /\ sse \in [Requests -> BOOLEAN] /\ conn \in [Requests -> BOOLEAN]
        /\ expired \in [Requests -> BOOLEAN] /\ killed \in [Requests -> BOOLEAN]
    BY DEF Init
  <2>4. lock \in Requests \cup {NoRequest} /\ waiting \in Nat
        /\ phase \in {"serving", "stopping", "stopped"}
    BY DEF Init
  <2> QED
    BY <2>1, <2>2, <2>3, <2>4 DEF TypeOK
<1>2. QueueCount
  <2>1. Queued = {} /\ waiting = 0
    BY DEF Init, Queued
  <2> QED
    BY <2>1, FS_EmptySet, ServingAssumption DEF QueueCount
<1>3. Activity
  BY DEF Init, EngineInit, Activity, Running
<1>4. ASSUME NEW r \in Requests PROVE RequestInv(r)
  BY EngineAssumption DEF Init, EngineInit, RequestInv, LockInv, LoopInv, GenInv, Admitted, Live
<1> QED
  BY <1>1, <1>2, <1>3, <1>4 DEF IInv

-----------------------------------------------------------------------------
(* The world outside the event loop.                                       *)

\* A request's arrival, a lost connection and a passed deadline.
LEMMA ClientKeeps ==
  ASSUME IInv, NEW r \in Requests, Arrive(r) \/ Drop(r) \/ Expire(r)
  PROVE  IInv'
<1>1. EngineTypeOK' /\ ready' = ready /\ UNCHANGED <<gen, anext, active>>
  BY DEF Arrive, Drop, Expire, engineVars, IInv, TypeOK, EngineTypeOK
<1>2. TypeOK'
  BY <1>1 DEF Arrive, Drop, Expire, IInv, TypeOK, MainStates
<1>3. QueueCount'
  BY QueueKept DEF Arrive, Drop, Expire, IInv, TypeOK
<1>4. Activity'
  BY <1>1, ActivityKept
<1>5. RequestInv(r)'
  BY <1>1 DEF Arrive, Drop, Expire, IInv, TypeOK, RequestInv, LockInv, LoopInv, GenInv,
              Admitted, Live
<1>6. Owns(r)
  BY <1>1 DEF Arrive, Drop, Expire, Owns, Untouched, IInv, TypeOK
<1> QED
  BY <1>2, <1>3, <1>4, <1>5, <1>6, StepKeeps

\* The disconnect watcher's observation.
LEMMA ObserveKeeps ==
  ASSUME IInv, NEW r \in Requests, Observe(r)
  PROVE  IInv'
<1>1. EngineTypeOK' /\ ready' = ready /\ UNCHANGED <<gen, anext, active>>
  BY DEF Observe, engineVars, IInv, TypeOK, EngineTypeOK
<1>2. TypeOK'
  BY <1>1 DEF Observe, IInv, TypeOK
<1>3. QueueCount'
  BY QueueKept DEF Observe
<1>4. Activity'
  BY <1>1, ActivityKept
<1>5. RequestInv(r)'
  BY <1>1 DEF Observe, IInv, TypeOK, RequestInv, LockInv, LoopInv, GenInv, Admitted, Live
<1>6. Owns(r)
  BY <1>1 DEF Observe, Owns, Untouched, IInv, TypeOK
<1> QED
  BY <1>2, <1>3, <1>4, <1>5, <1>6, StepKeeps

-----------------------------------------------------------------------------
(* The main task up to the pull loop.                                      *)

\* Reading the body, and refusing the request before admission.
LEMMA BodyKeeps ==
  ASSUME IInv, NEW r \in Requests, Body(r) \/ Refuse(r)
  PROVE  IInv'
<1>1. EngineTypeOK' /\ ready' = ready /\ UNCHANGED <<gen, anext, active>>
  BY DEF Body, Refuse, engineVars, IInv, TypeOK, EngineTypeOK
<1>2. TypeOK'
  BY <1>1 DEF Body, Refuse, Over, Answer, IInv, TypeOK, MainStates, LoopStates, Reasons
<1>3. QueueCount'
  BY QueueKept DEF Body, Refuse, Over, Answer, IInv, TypeOK
<1>4. Activity'
  BY <1>1, ActivityKept
<1>5. RequestInv(r)'
  BY <1>1 DEF Body, Refuse, Over, Answer, IInv, TypeOK, RequestInv, LockInv, LoopInv, GenInv,
              Admitted, Live
<1>6. Owns(r)
  BY <1>1 DEF Body, Refuse, Over, Answer, Owns, Untouched, IInv, TypeOK
<1> QED
  BY <1>2, <1>3, <1>4, <1>5, <1>6, StepKeeps

\* What admission does, apart from the waiter count.
LEMMA AdmitEffect ==
  ASSUME IInv, NEW r \in Requests, pc[r] \in {"gate", "queue"}, Admit(r),
         UNCHANGED <<phase, sse, why, conn, disc, expired, killed>>
  PROVE  /\ waiting' \in Nat => TypeOK'
         /\ Activity' /\ RequestInv(r)' /\ Owns(r)
         /\ \E p \in {"finish", "respond", "json"} : pc' = [pc EXCEPT ![r] = p]
<1>1. /\ EngineTypeOK' /\ ready' = ready /\ active' = active
      /\ \E g \in {"fresh", "closed", gen[r]} : gen' = [gen EXCEPT ![r] = g]
      /\ \E a \in {"none", "pending", anext[r]} : anext' = [anext EXCEPT ![r] = a]
  BY DEF Admit, Generate, engineVars, IInv, TypeOK, EngineTypeOK, GenStates, Outcomes
<1>2. \E p \in {"finish", "respond", "json"} : pc' = [pc EXCEPT ![r] = p]
  BY DEF Admit, Answer
<1>3. waiting' \in Nat => TypeOK'
  BY <1>1 DEF Admit, Answer, IInv, TypeOK, MainStates, LoopStates
<1>4. ~Running(r)
  BY DEF IInv, RequestInv, GenInv, Admitted, Running
<1>5. Activity'
  <2>1. ~Running(r)'
    BY <1>4 DEF Admit, Generate, engineVars, IInv, TypeOK, EngineTypeOK, Running
  <2>2. \A q \in Requests : Running(q)' <=> Running(q)
    BY <1>1, <1>4, <2>1 DEF Running, IInv, TypeOK, EngineTypeOK
  <2> QED
    BY <1>1, <2>2 DEF Activity, IInv
<1>6. RequestInv(r)'
  <2>1. RequestInv(r) /\ ~Admitted(r) /\ r # NoRequest /\ Live(r)
    BY EngineAssumption DEF IInv, Admitted, Live
  <2>2. LockInv(r)'
    BY <2>1 DEF Admit, Answer, Generate, IInv, TypeOK, RequestInv, LockInv, Admitted
  <2>3. LoopInv(r)'
    BY <2>1 DEF Admit, Answer, IInv, TypeOK, RequestInv, LoopInv, Admitted
  <2>4. GenInv(r)'
    BY <2>1 DEF Admit, Answer, Generate, engineVars, IInv, TypeOK, EngineTypeOK, RequestInv,
                LoopInv, GenInv, Admitted
  <2> QED
    BY <1>2, <2>2, <2>3, <2>4 DEF RequestInv, Live, IInv, TypeOK
<1>7. Owns(r)
  BY <1>1 DEF Admit, Answer, Owns, Untouched, IInv, TypeOK, EngineTypeOK
<1> QED
  BY <1>2, <1>3, <1>5, <1>6, <1>7

\* _acquire after its sleep(0).
LEMMA GateKeeps ==
  ASSUME IInv, NEW r \in Requests, Gate(r)
  PROVE  IInv'
<1>1. pc \in [Requests -> MainStates] /\ waiting \in Nat /\ pc[r] = "gate"
  BY DEF IInv, TypeOK, Gate
<1>2. UNCHANGED <<phase, sse, why, conn, disc, expired, killed>>
  BY DEF Gate
<1>3. CASE Admit(r) /\ UNCHANGED waiting
  <2>1. QueueCount'
    BY <1>1, <1>2, <1>3, AdmitEffect, QueueKept
  <2> QED
    BY <1>1, <1>2, <1>3, <2>1, AdmitEffect, StepKeeps
<1>4. CASE Answer(r) /\ UNCHANGED <<engineVars, loop, lock, waiting>>
  <2>1. EngineTypeOK' /\ ready' = ready /\ UNCHANGED <<gen, anext, active>>
    BY <1>4 DEF engineVars, IInv, TypeOK, EngineTypeOK
  <2>2. TypeOK'
    BY <1>2, <1>4, <2>1 DEF Answer, IInv, TypeOK, MainStates
  <2>3. QueueCount'
    BY <1>1, <1>4, QueueKept DEF Answer
  <2>4. RequestInv(r)'
    BY <1>1, <1>2, <1>4, <2>1 DEF Answer, IInv, RequestInv, LockInv, LoopInv, GenInv,
                                  Admitted, Live
  <2>5. Owns(r)
    BY <1>1, <1>2, <1>4, <2>1 DEF Answer, Owns, Untouched
  <2> QED
    BY <2>1, <2>2, <2>3, <2>4, <2>5, ActivityKept, StepKeeps
<1>5. CASE /\ ~Full(waiting) /\ waiting' = waiting + 1
           /\ pc' = [pc EXCEPT ![r] = "queue"]
           /\ UNCHANGED <<engineVars, loop, lock>>
  <2>1. EngineTypeOK' /\ ready' = ready /\ UNCHANGED <<gen, anext, active>>
    BY <1>5 DEF engineVars, IInv, TypeOK, EngineTypeOK
  <2>2. TypeOK'
    BY <1>2, <1>5, <2>1 DEF IInv, TypeOK, MainStates
  <2>3. QueueCount'
    BY <1>1, <1>5, QueueJoined
  <2>4. RequestInv(r)'
    BY <1>1, <1>2, <1>5, <2>1 DEF IInv, RequestInv, LockInv, LoopInv, GenInv, Admitted, Live
  <2>5. Owns(r)
    BY <1>1, <1>2, <1>5, <2>1 DEF Owns, Untouched
  <2> QED
    BY <2>1, <2>2, <2>3, <2>4, <2>5, ActivityKept, StepKeeps
<1> QED
  BY <1>3, <1>4, <1>5 DEF Gate

\* One poll of a queued request.
LEMMA PollKeeps ==
  ASSUME IInv, NEW r \in Requests, Poll(r)
  PROVE  IInv'
<1>1. /\ pc \in [Requests -> MainStates] /\ waiting \in Nat /\ pc[r] = "queue"
      /\ waiting' = waiting - 1
  BY DEF IInv, TypeOK, Poll, Dequeue
<1>2. UNCHANGED <<phase, sse, why, conn, disc, expired, killed>>
  BY DEF Poll
<1>3. CASE Admit(r)
  <2>1. QueueCount' /\ waiting' \in Nat
    BY <1>1, <1>2, <1>3, AdmitEffect, QueueLeft
  <2> QED
    BY <1>1, <1>2, <1>3, <2>1, AdmitEffect, StepKeeps
<1>4. CASE Answer(r) /\ UNCHANGED <<engineVars, loop, lock>>
  <2>1. EngineTypeOK' /\ ready' = ready /\ UNCHANGED <<gen, anext, active>>
    BY <1>4 DEF engineVars, IInv, TypeOK, EngineTypeOK
  <2>2. QueueCount' /\ waiting' \in Nat
    BY <1>1, <1>4, QueueLeft DEF Answer
  <2>3. TypeOK'
    BY <1>2, <1>4, <2>1, <2>2 DEF Answer, IInv, TypeOK, MainStates
  <2>4. RequestInv(r)'
    BY <1>1, <1>2, <1>4, <2>1 DEF Answer, IInv, RequestInv, LockInv, LoopInv, GenInv,
                                  Admitted, Live
  <2>5. Owns(r)
    BY <1>1, <1>2, <1>4, <2>1 DEF Answer, Owns, Untouched
  <2> QED
    BY <2>1, <2>2, <2>3, <2>4, <2>5, ActivityKept, StepKeeps
<1> QED
  BY <1>3, <1>4 DEF Poll

-----------------------------------------------------------------------------
(* The pull loop.                                                          *)

PullFrame == UNCHANGED <<phase, sse, conn, disc, expired, killed, waiting>>

\* A pull loop that moves on while engine, main task and lock stay put.
LEMMA LoopMoves ==
  ASSUME IInv, NEW r \in Requests, Admitted(r), pc[r] # "json", PullFrame,
         UNCHANGED <<engineVars, pc, lock>>,
         NEW l \in {"item", "last", "end"}, SetLoop(r, l, "none"),
         loop[r] \notin {"wait", "settle"} \/ anext[r] # "pending",
         l = "item" => loop[r] \in {"start", "wait"}
  PROVE  IInv'
<1>1. EngineTypeOK' /\ ready' = ready /\ UNCHANGED <<gen, anext, active>>
  BY DEF engineVars, IInv, TypeOK, EngineTypeOK
<1>2. TypeOK'
  BY <1>1 DEF PullFrame, SetLoop, IInv, TypeOK, LoopStates, Reasons
<1>3. QueueCount'
  BY QueueKept DEF PullFrame
<1>4. RequestInv(r)'
  BY <1>1 DEF PullFrame, SetLoop, IInv, TypeOK, RequestInv, LockInv, LoopInv, GenInv,
              Admitted, Live
<1>5. Owns(r)
  BY <1>1 DEF PullFrame, SetLoop, Owns, Untouched, IInv, TypeOK
<1> QED
  BY <1>1, <1>2, <1>3, <1>4, <1>5, ActivityKept, StepKeeps

\* The pull loop is over and nothing of the engine runs.
LEMMA LeaveKeeps ==
  ASSUME IInv, NEW r \in Requests, PullFrame, Leave(r),
         loop[r] \in {"start", "item", "wait", "settle"}, anext[r] # "pending"
  PROVE  IInv'
<1>1. Admitted(r) /\ lock = r /\ r # NoRequest
  BY OpenOwns, EngineAssumption
<1>2. CASE sse[r]
  <2>1. pc[r] # "json"
    BY <1>2 DEF IInv, RequestInv, LoopInv
  <2> QED
    BY <1>1, <1>2, <2>1, LoopMoves DEF Leave
<1>3. CASE ~sse[r]
  <2>1. pc[r] = "json"
    BY <1>1, <1>3 DEF IInv, RequestInv, LoopInv, Admitted
  <2>2. /\ Aclose(r) /\ Answer(r) /\ lock' = NoRequest
        /\ SetLoop(r, "end", "none")
    BY <1>3 DEF Leave, JsonExit
  <2>3. EngineTypeOK' /\ (Ends(r) \/ Discards(r) \/ (gen[r] = "closed" /\ UNCHANGED engineVars))
    BY <2>2, AcloseEffect DEF IInv, TypeOK
  <2>4. TypeOK'
    BY <2>2, <2>3 DEF PullFrame, SetLoop, Answer, IInv, TypeOK, MainStates, LoopStates, Reasons
  <2>5. QueueCount'
    BY <2>1, <2>2, QueueKept DEF PullFrame, Answer, IInv, TypeOK
  <2>6. Activity'
    BY <1>1, <2>3, ActivityKept DEF engineVars
  <2>7. gen'[r] = "closed" /\ anext'[r] # "pending"
    BY <2>3 DEF Ends, Discards, engineVars, IInv, TypeOK, EngineTypeOK
  <2>8. RequestInv(r)'
    BY <1>1, <2>1, <2>2, <2>7 DEF PullFrame, SetLoop, Answer, IInv, TypeOK, RequestInv,
                                LockInv, LoopInv, GenInv, Admitted, Live
  <2>9. Owns(r)
    BY <1>1, <2>2, <2>3 DEF PullFrame, SetLoop, Answer, Owns, Untouched, IInv, TypeOK,
                          EngineTypeOK, Ends, Discards, engineVars
  <2> QED
    BY <2>4, <2>5, <2>6, <2>8, <2>9, StepKeeps
<1> QED
  BY <1>2, <1>3

\* The next pull, or the end of the loop.
LEMMA PullKeeps ==
  ASSUME IInv, NEW r \in Requests, PullFrame, Pull(r),
         loop[r] \in {"start", "item", "wait"}, anext[r] # "pending"
  PROVE  IInv'
<1>1. CASE Leave(r)
  BY <1>1, LeaveKeeps
<1>2. CASE Anext(r) /\ SetLoop(r, "wait", "none") /\ UNCHANGED <<pc, lock>>
  <2>1. EngineTypeOK' /\ ready' = ready /\ UNCHANGED <<gen, active>>
    BY <1>2 DEF Anext, IInv, TypeOK, EngineTypeOK, Outcomes
  <2>2. TypeOK'
    BY <1>2, <2>1 DEF PullFrame, SetLoop, IInv, TypeOK, LoopStates, Reasons
  <2>3. QueueCount'
    BY <1>2, QueueKept DEF PullFrame
  <2>4. Admitted(r)
    BY OpenOwns
  <2>5. RequestInv(r)'
    BY <1>2, <2>1, <2>4 DEF Anext, PullFrame, SetLoop, IInv, TypeOK, EngineTypeOK, RequestInv,
                          LockInv, LoopInv, GenInv, Admitted, Live
  <2>6. Owns(r)
    BY <1>2, <2>1 DEF Anext, PullFrame, SetLoop, Owns, Untouched, IInv, TypeOK, EngineTypeOK
  <2> QED
    BY <2>1, <2>2, <2>3, <2>5, <2>6, ActivityKept, StepKeeps
<1> QED
  BY <1>1, <1>2 DEF Pull

\* A send of the stream task returns or fails.
LEMMA SendKeeps ==
  ASSUME IInv, NEW r \in Requests, Send(r) \/ SendFails(r)
  PROVE  IInv'
<1>1. /\ Admitted(r) /\ pc[r] # "json" /\ anext[r] # "pending"
      /\ loop[r] \in {"start", "item", "last"}
  <2>1. loop[r] \in {"start", "item", "last"}
    BY DEF Send, SendFails
  <2> QED
    BY <2>1, OpenOwns DEF IInv, RequestInv, LoopInv, GenInv
<1>2. PullFrame
  BY DEF Send, SendFails, PullFrame
<1>3. CASE Pull(r) /\ loop[r] \in {"start", "item"}
  BY <1>1, <1>2, <1>3, PullKeeps
<1>4. CASE /\ UNCHANGED <<engineVars, pc, lock>>
           /\ \/ SetLoop(r, "item", "none") /\ loop[r] = "start"
              \/ SetLoop(r, "end", "none")
  BY <1>1, <1>2, <1>4, LoopMoves
<1> QED
  BY <1>3, <1>4 DEF Send, SendFails

\* asyncio.wait of _pull returns.
LEMMA WakeKeeps ==
  ASSUME IInv, NEW r \in Requests, Wake(r)
  PROVE  IInv'
<1>1. PullFrame /\ loop[r] = "wait"
  BY DEF Wake, PullFrame
<1>2. Admitted(r)
  BY <1>1, OpenOwns
<1>3. CASE /\ SetLoop(r, "settle", IF Gone(r) THEN "gone" ELSE "timeout")
           /\ UNCHANGED <<engineVars, pc, lock>>
  <2>1. EngineTypeOK' /\ ready' = ready /\ UNCHANGED <<gen, anext, active>>
    BY <1>3 DEF engineVars, IInv, TypeOK, EngineTypeOK
  <2>2. TypeOK'
    BY <1>1, <1>3, <2>1 DEF PullFrame, SetLoop, IInv, TypeOK, LoopStates, Reasons
  <2>3. QueueCount'
    BY <1>1, <1>3, QueueKept DEF PullFrame
  <2>4. RequestInv(r)'
    BY <1>1, <1>2, <1>3, <2>1 DEF PullFrame, SetLoop, IInv, TypeOK, RequestInv, LockInv,
                                LoopInv, GenInv, Admitted, Live
  <2>5. Owns(r)
    BY <1>1, <1>3, <2>1 DEF PullFrame, SetLoop, Owns, Untouched, IInv, TypeOK
  <2> QED
    BY <2>1, <2>2, <2>3, <2>4, <2>5, ActivityKept, StepKeeps
<1>4. CASE anext[r] # "pending" /\ Leave(r)
  BY <1>1, <1>4, LeaveKeeps
<1>5. CASE anext[r] # "pending" /\ Deliver(r)
  <2>1. CASE /\ sse[r] /\ SetLoop(r, "item", "none")
             /\ UNCHANGED <<engineVars, pc, lock>>
    <3>1. pc[r] # "json"
      BY <2>1 DEF IInv, RequestInv, LoopInv
    <3> QED
      BY <1>1, <1>2, <1>5, <2>1, <3>1, LoopMoves
  <2>2. CASE Pull(r)
    BY <1>1, <1>5, <2>2, PullKeeps
  <2>3. CASE Leave(r)
    BY <1>1, <1>5, <2>3, LeaveKeeps
  <2> QED
    BY <1>5, <2>1, <2>2, <2>3 DEF Deliver
<1> QED
  BY <1>3, <1>4, <1>5 DEF Wake

\* The engine task is settled.
LEMMA SettledKeeps ==
  ASSUME IInv, NEW r \in Requests, Settled(r)
  PROVE  IInv'
BY LeaveKeeps DEF Settled, PullFrame

\* A step of the engine, undisturbed or interrupted.
LEMMA EngineKeeps ==
  ASSUME IInv, NEW r \in Requests, Cancelled(r) \/ Advance(r)
  PROVE  IInv'
<1>1. UNCHANGED serverVars /\ anext[r] = "pending"
  BY DEF Cancelled, Advance, Interrupt, EngineStep, Begin, EmbedNext, BatchRest, Iterate,
         Starved, BatchOver, LoopOver, Flushed, ToolsSent, Resume
<1>2. Admitted(r) /\ lock = r
  BY <1>1, OpenOwns
<1>3. EngineTypeOK' /\ (Continues(r) \/ Ends(r) \/ Discards(r))
  <2>1. gen[r] \in {"parked", "yield"} => active
    BY DEF IInv, Activity, Running
  <2> QED
    BY <2>1, EngineStepEffect, InterruptEffect DEF Cancelled, Advance, IInv, TypeOK
<1>4. TypeOK'
  BY <1>1, <1>3 DEF serverVars, IInv, TypeOK
<1>5. QueueCount'
  BY <1>1, QueueKept DEF serverVars
<1>6. Activity'
  BY <1>2, <1>3, ActivityKept
<1>7. RequestInv(r)'
  <2>1. gen'[r] # "fresh"
    BY <1>3 DEF Continues, Ends, Discards, IInv, TypeOK, EngineTypeOK
  <2> QED
    BY <1>1, <1>2, <2>1 DEF serverVars, IInv, RequestInv, LockInv, LoopInv, GenInv,
                          Admitted, Live
<1>8. Owns(r)
  <2>1. \A q \in Requests \ {r} : gen'[q] = gen[q] /\ anext'[q] = anext[q]
    BY <1>3 DEF Continues, Ends, Discards, IInv, TypeOK, EngineTypeOK
  <2> QED
    BY <1>1, <1>2, <2>1 DEF serverVars, Owns, Untouched
<1> QED
  BY <1>4, <1>5, <1>6, <1>7, <1>8, StepKeeps

-----------------------------------------------------------------------------
(* The end of a request.                                                   *)

\* The streaming response goes on to reap its stream task.
LEMMA RespondKeeps ==
  ASSUME IInv, NEW r \in Requests, Respond(r)
  PROVE  IInv'
<1>1. EngineTypeOK' /\ ready' = ready /\ UNCHANGED <<gen, anext, active>>
  BY DEF Respond, engineVars, IInv, TypeOK, EngineTypeOK
<1>2. TypeOK'
  BY <1>1 DEF Respond, StopLoop, SetLoop, IInv, TypeOK, MainStates, LoopStates, Reasons
<1>3. QueueCount'
  BY QueueKept DEF Respond, IInv, TypeOK
<1>4. RequestInv(r)'
  BY <1>1 DEF Respond, StopLoop, SetLoop, IInv, TypeOK, RequestInv, LockInv, LoopInv, GenInv,
              Admitted, Live, LoopStates
<1>5. Owns(r)
  BY <1>1 DEF Respond, StopLoop, SetLoop, Owns, Untouched, IInv, TypeOK
<1> QED
  BY <1>1, <1>2, <1>3, <1>4, <1>5, ActivityKept, StepKeeps

\* The stream task is reaped and the engine's generator closed.
LEMMA ReapKeeps ==
  ASSUME IInv, NEW r \in Requests, Reap(r)
  PROVE  IInv'
<1>1. pc[r] = "reap" /\ loop[r] = "end" /\ lock = r /\ anext[r] # "pending" /\ r # NoRequest
  BY EngineAssumption DEF Reap, IInv, RequestInv, LockInv, GenInv, Admitted
<1>2. EngineTypeOK' /\ (Ends(r) \/ Discards(r) \/ (gen[r] = "closed" /\ UNCHANGED engineVars))
  BY <1>1, AcloseEffect DEF Reap, IInv, TypeOK
<1>3. TypeOK'
  BY <1>2 DEF Reap, IInv, TypeOK, MainStates
<1>4. QueueCount'
  BY <1>1, QueueKept DEF Reap, IInv, TypeOK
<1>5. Activity'
  BY <1>1, <1>2, ActivityKept DEF engineVars
<1>6. gen'[r] = "closed" /\ anext'[r] # "pending"
  BY <1>1, <1>2 DEF Ends, Discards, engineVars, IInv, TypeOK, EngineTypeOK
<1>7. RequestInv(r)'
  BY <1>1, <1>6 DEF Reap, IInv, TypeOK, RequestInv, LockInv, LoopInv, GenInv, Admitted, Live
<1>8. Owns(r)
  BY <1>1, <1>2 DEF Reap, Owns, Untouched, IInv, TypeOK, EngineTypeOK, Ends, Discards, engineVars
<1> QED
  BY <1>3, <1>4, <1>5, <1>7, <1>8, StepKeeps

\* The outer finally gives back the watcher and a lock still held.
LEMMA FinishKeeps ==
  ASSUME IInv, NEW r \in Requests, Finish(r)
  PROVE  IInv'
<1>1. EngineTypeOK' /\ ready' = ready /\ UNCHANGED <<gen, anext, active>>
  BY DEF Finish, engineVars, IInv, TypeOK, EngineTypeOK
<1>2. TypeOK'
  BY <1>1 DEF Finish, Over, IInv, TypeOK, MainStates, LoopStates, Reasons
<1>3. QueueCount'
  BY QueueKept DEF Finish, Over, IInv, TypeOK
<1>4. RequestInv(r)'
  BY <1>1, EngineAssumption DEF Finish, Over, IInv, TypeOK, RequestInv, LockInv, LoopInv,
              GenInv, Admitted, Live
<1>5. Owns(r)
  BY <1>1 DEF Finish, Over, Owns, Untouched, IInv, TypeOK
<1> QED
  BY <1>1, <1>2, <1>3, <1>4, <1>5, ActivityKept, StepKeeps

\* A request task is cancelled from outside.
LEMMA KillKeeps ==
  ASSUME IInv, NEW r \in Requests, Kill(r)
  PROVE  IInv'
<1>1. EngineTypeOK' /\ ready' = ready /\ UNCHANGED <<gen, anext, active, phase, lock>>
  BY DEF Kill, engineVars, IInv, TypeOK, EngineTypeOK
<1>2. Activity'
  BY <1>1, ActivityKept
<1>3. CASE pc[r] = "body" /\ Over(r) /\ UNCHANGED waiting
  <2>1. TypeOK'
    BY <1>1, <1>3 DEF Over, IInv, TypeOK, MainStates, LoopStates, Reasons
  <2>2. QueueCount'
    BY <1>3, QueueKept DEF Over, IInv, TypeOK
  <2>3. RequestInv(r)'
    BY <1>1, <1>3 DEF Over, IInv, TypeOK, RequestInv, LockInv, LoopInv, GenInv, Admitted, Live
  <2>4. Owns(r)
    BY <1>1, <1>3 DEF Over, Owns, Untouched, IInv, TypeOK
  <2> QED
    BY <1>2, <2>1, <2>2, <2>3, <2>4, StepKeeps
<1>4. CASE /\ pc[r] \in {"gate", "queue"}
           /\ Answer(r) /\ Dequeue(r)
           /\ killed' = [killed EXCEPT ![r] = TRUE]
           /\ UNCHANGED <<sse, loop, why, conn, disc, expired>>
  <2>1. QueueCount' /\ waiting' \in Nat
    <3>1. CASE pc[r] = "queue"
      BY <1>4, <3>1, QueueLeft DEF Answer, Dequeue, IInv, TypeOK
    <3>2. CASE pc[r] = "gate"
      BY <1>4, <3>2, QueueKept DEF Answer, Dequeue, IInv, TypeOK
    <3> QED
      BY <1>4, <3>1, <3>2
  <2>2. TypeOK'
    BY <1>1, <1>4, <2>1 DEF Answer, IInv, TypeOK, MainStates
  <2>3. RequestInv(r)'
    BY <1>1, <1>4 DEF Answer, IInv, TypeOK, RequestInv, LockInv, LoopInv, GenInv, Admitted, Live
  <2>4. Owns(r)
    BY <1>1, <1>4 DEF Answer, Owns, Untouched, IInv, TypeOK
  <2> QED
    BY <1>2, <2>1, <2>2, <2>3, <2>4, StepKeeps
<1>5. CASE /\ pc[r] \in {"json", "respond", "reap", "finish"}
           /\ pc' = [pc EXCEPT ![r] = IF @ = "respond" THEN "reap" ELSE @]
           /\ StopLoop(r)
           /\ killed' = [killed EXCEPT ![r] = TRUE]
           /\ UNCHANGED <<sse, conn, disc, expired, waiting>>
  <2>1. TypeOK'
    BY <1>1, <1>5 DEF StopLoop, SetLoop, IInv, TypeOK, MainStates, LoopStates, Reasons
  <2>2. QueueCount'
    BY <1>5, QueueKept DEF IInv, TypeOK
  <2>3. RequestInv(r)'
    BY <1>1, <1>5 DEF StopLoop, SetLoop, IInv, TypeOK, RequestInv, LockInv, LoopInv, GenInv,
                      Admitted, Live, LoopStates
  <2>4. Owns(r)
    BY <1>1, <1>5 DEF StopLoop, SetLoop, Owns, Untouched, IInv, TypeOK
  <2> QED
    BY <1>2, <2>1, <2>2, <2>3, <2>4, StepKeeps
<1> QED
  BY <1>3, <1>4, <1>5 DEF Kill

\* The server stops accepting, and the engine is shut down.
LEMMA ShutdownKeeps ==
  ASSUME IInv, Stop \/ Halt
  PROVE  IInv'
<1>1. /\ EngineTypeOK' /\ UNCHANGED <<gen, anext, active>>
      /\ UNCHANGED <<pc, sse, loop, why, conn, disc, expired, killed, lock, waiting>>
      /\ phase' \in {"stopping", "stopped"}
  BY DEF Stop, Halt, EngineShutdown, engineVars, IInv, TypeOK, EngineTypeOK
<1>2. TypeOK'
  BY <1>1 DEF IInv, TypeOK
<1>3. QueueCount' /\ Activity'
  BY <1>1, QueueKept DEF IInv, Activity, Running
<1>4. ASSUME NEW r \in Requests PROVE RequestInv(r)'
  <2>1. gen[r] = "fresh" /\ loop[r] \in {"start", "item", "wait"} => ready'
    <3>1. CASE Stop
      BY <3>1 DEF Stop, engineVars, IInv, RequestInv, GenInv
    <3>2. CASE Halt
      <4>1. loop[r] \in {"start", "item", "wait"} => killed[r]
        BY <3>2 DEF Halt, IInv, RequestInv, LoopInv, Admitted, Live
      <4> QED
        BY <4>1 DEF IInv, RequestInv, LoopInv
    <3> QED
      BY <3>1, <3>2
  <2> QED
    BY <1>1, <2>1 DEF IInv, RequestInv, LockInv, LoopInv, GenInv, Admitted, Live
<1> QED
  BY <1>2, <1>3, <1>4 DEF IInv

-----------------------------------------------------------------------------
(* The theorems.                                                           *)

\* Every step of the specification keeps the invariant.
LEMMA NextKeeps == IInv /\ [Next]_vars => IInv'
<1> SUFFICES ASSUME IInv, [Next]_vars PROVE IInv'
  OBVIOUS
<1>1. CASE UNCHANGED vars
  BY <1>1 DEF vars, engineVars, serverVars, IInv, TypeOK, EngineTypeOK, QueueCount, Queued,
              Activity, Running, RequestInv, LockInv, LoopInv, GenInv, Admitted, Live
<1>2. CASE Stop \/ Halt
  BY <1>2, ShutdownKeeps
<1>3. CASE Terminated
  BY <1>1, <1>3 DEF Terminated
<1>4. ASSUME NEW r \in Requests, Client(r) \/ Expire(r) \/ Task(r) \/ Kill(r)
      PROVE  IInv'
  BY <1>4, ClientKeeps, ObserveKeeps, BodyKeeps, GateKeeps, PollKeeps, SendKeeps, WakeKeeps,
     EngineKeeps, SettledKeeps, RespondKeeps, ReapKeeps, FinishKeeps, KillKeeps
     DEF Client, Task
<1> QED
  BY <1>1, <1>2, <1>3, <1>4 DEF Next

\* The inductive invariant holds in every behaviour of the server.
THEOREM Invariance == Spec => []IInv
BY InitInv, NextKeeps, PTL DEF Spec

\* Every variable keeps its type; the waiter count never leaves Nat.
THEOREM TypeCorrect == Spec => []TypeOK
<1>1. IInv => TypeOK
  BY DEF IInv
<1> QED
  BY <1>1, Invariance, PTL

\* The waiter count is exact and respects --max-pending.
THEOREM QueueBounded == Spec => []QueueBound
<1>1. IInv => QueueBound
  BY DEF IInv, QueueCount, Queued, QueueBound
<1> QED
  BY <1>1, Invariance, PTL

\* The engine runs for the lock's owner alone and generate() is never refused.
THEOREM Exclusive == Spec => []EngineExclusive
<1>1. ASSUME IInv PROVE EngineExclusive
  <2>1. \A r \in Requests : Running(r) => lock = r
    BY <1>1, OpenOwns DEF Running
  <2>2. ASSUME NEW r \in Requests, gen[r] = "fresh", anext[r] = "pending", loop[r] # "settle"
        PROVE  ready /\ ~active
    <3>1. lock = r
      BY <1>1, <2>2, OpenOwns
    <3>2. ~active
      BY <1>1, <2>1, <2>2, <3>1 DEF IInv, Activity, Running
    <3>3. ready
      BY <1>1, <2>2 DEF IInv, RequestInv, GenInv
    <3> QED
      BY <3>2, <3>3
  <2> QED
    BY <1>1, <2>1, <2>2 DEF EngineExclusive, IInv, Activity
<1> QED
  BY <1>1, Invariance, PTL

\* A request that is over holds nothing, whichever way it ended.
THEOREM NoLeak == Spec => []NothingLeaks
<1>1. ASSUME IInv PROVE NothingLeaks
  <2>1. ASSUME NEW r \in Requests, ~Live(r)
        PROVE  ~Admitted(r) /\ pc[r] # "finish"
    BY <2>1 DEF Live, Admitted
  <2> QED
    BY <1>1, <2>1 DEF NothingLeaks, IInv, RequestInv, LockInv, LoopInv, GenInv
<1> QED
  BY <1>1, Invariance, PTL

-----------------------------------------------------------------------------
(* The action properties.                                                  *)

\* What every step of r other than its admission does to the engine.
Discreet(r) ==
  /\ Closing
  /\ gen' = gen \/ (gen[r] # "none" /\ gen' = [gen EXCEPT ![r] = gen'[r]])

\* Leaving the engine alone is discreet.
LEMMA IdleDiscreet ==
  ASSUME NEW r \in Requests, UNCHANGED <<gen, ready, count>>
  PROVE  Discreet(r)
BY DEF Discreet, Closing

\* Closing a generator is discreet.
LEMMA AcloseDiscreet ==
  ASSUME IInv, NEW r \in Requests, Aclose(r)
  PROVE  Discreet(r)
<1>1. CASE anext[r] = "pending"
  BY <1>1, IdleDiscreet DEF Aclose, engineVars
<1>2. CASE anext[r] # "pending"
  <2>1. /\ Closing
        /\ Ends(r) \/ Discards(r) \/ (gen[r] = "closed" /\ UNCHANGED engineVars)
    BY <1>2, AcloseEffect DEF IInv, TypeOK
  <2>2. gen[r] # "none"
    BY <1>2 DEF Aclose
  <2> QED
    BY <2>1, <2>2 DEF Ends, Discards, engineVars, Discreet, IInv, TypeOK, EngineTypeOK
<1> QED
  BY <1>1, <1>2

\* Leaving the pull loop, pulling again and a step of the engine are discreet.
LEMMA PullDiscreet ==
  ASSUME IInv, NEW r \in Requests, Leave(r) \/ Pull(r)
  PROVE  Discreet(r)
<1>1. Leave(r) => Discreet(r)
  BY AcloseDiscreet, IdleDiscreet DEF Leave, JsonExit, engineVars
<1> QED
  BY <1>1, IdleDiscreet DEF Pull, Anext

\* So is a step of the engine.
LEMMA EngineDiscreet ==
  ASSUME IInv, NEW r \in Requests, Cancelled(r) \/ Advance(r)
  PROVE  Discreet(r)
<1>1. Closing /\ (Continues(r) \/ Ends(r) \/ Discards(r))
  <2>1. gen[r] \in {"parked", "yield"} => active
    BY DEF IInv, Activity, Running
  <2> QED
    BY <2>1, EngineStepEffect, InterruptEffect DEF Cancelled, Advance, IInv, TypeOK
<1>2. gen[r] # "none"
  BY DEF Cancelled, Advance, Interrupt, EngineStep, Begin, EmbedNext, BatchRest, Iterate,
         Starved, BatchOver, LoopOver, Flushed, ToolsSent, Resume
<1> QED
  BY <1>1, <1>2 DEF Discreet, Continues, Ends, Discards

\* A step of the specification fails closed, and opens a generator only for a
\* caller not seen to be gone.
LEMMA NextDiscreet ==
  ASSUME IInv, Next
  PROVE  /\ Closing
         /\ \/ gen' = gen
            \/ \E r \in Requests : /\ gen[r] # "none" \/ Admissible(r)
                                   /\ gen' = [gen EXCEPT ![r] = gen'[r]]
<1>1. ASSUME NEW r \in Requests, Gate(r) \/ Poll(r)
      PROVE  \/ Discreet(r)
             \/ Admissible(r) /\ Closing /\ gen' = [gen EXCEPT ![r] = gen'[r]]
  <2>1. CASE Admissible(r) /\ Admit(r)
    BY <2>1 DEF Admit, Generate, Closing, engineVars, IInv, TypeOK, EngineTypeOK
  <2>2. CASE UNCHANGED engineVars
    BY <2>2, IdleDiscreet DEF engineVars
  <2> QED
    BY <1>1, <2>1, <2>2 DEF Gate, Poll
<1>2. ASSUME NEW r \in Requests, Send(r) \/ SendFails(r) \/ Wake(r) \/ Settled(r) \/ Reap(r)
      PROVE  Discreet(r)
  BY <1>2, PullDiscreet, AcloseDiscreet, IdleDiscreet
     DEF Send, SendFails, Wake, Deliver, Settled, Reap, engineVars
<1>3. ASSUME NEW r \in Requests,
             \/ Client(r) \/ Expire(r) \/ Observe(r) \/ Body(r) \/ Refuse(r) \/ Respond(r)
             \/ Finish(r) \/ Kill(r)
      PROVE  Discreet(r)
  BY <1>3, IdleDiscreet DEF Client, Arrive, Drop, Expire, Observe, Body, Refuse, Respond,
     Finish, Kill, engineVars
<1>4. CASE Stop \/ Halt \/ Terminated
  BY <1>4 DEF Stop, Halt, EngineShutdown, Terminated, vars, engineVars, Closing
<1>5. CASE \E r \in Requests : Client(r) \/ Expire(r) \/ Task(r) \/ Kill(r)
  BY <1>1, <1>2, <1>3, <1>5, EngineDiscreet DEF Client, Task, Discreet
<1> QED
  BY <1>4, <1>5 DEF Next

\* A failure takes the health flag down for good, and no generation starts
\* after that.
THEOREM ClosedStaysClosed == Spec => FailsClosed
<1>1. ASSUME IInv, [Next]_vars
      PROVE  \/ Closing
             \/ UNCHANGED vars
  BY <1>1, NextDiscreet
<1>2. IInv /\ [Next]_vars =>
        [/\ count'["failed"] # count["failed"] => ~ready'
         /\ ~ready => ~ready' /\ count'["started"] = count["started"]]_vars
  BY <1>1 DEF Closing
<1> QED
  BY <1>2, Invariance, PTL DEF Spec, FailsClosed

\* A caller seen to be gone before its admission never gets a generator.
THEOREM GoneStaysOut == Spec => GoneNeverGenerates
<1>1. ASSUME IInv, Next, NEW q \in Requests, Gone(q), gen[q] = "none"
      PROVE  gen'[q] = "none"
  <2>1. CASE gen' = gen
    BY <1>1, <2>1
  <2>2. ASSUME NEW r \in Requests, gen[r] # "none" \/ Admissible(r),
               gen' = [gen EXCEPT ![r] = gen'[r]]
        PROVE  gen'[q] = "none"
    <3>1. r # q
      BY <1>1, <2>2 DEF Admissible
    <3> QED
      BY <1>1, <2>2, <3>1 DEF IInv, TypeOK, EngineTypeOK
  <2> QED
    BY <1>1, <2>1, <2>2, NextDiscreet
<1>2. IInv /\ [Next]_vars =>
        [\A r \in Requests : Gone(r) /\ gen[r] = "none" => gen'[r] = "none"]_vars
  BY <1>1
<1> QED
  BY <1>2, Invariance, PTL DEF Spec, GoneNeverGenerates

-----------------------------------------------------------------------------
(* What the engine carries from one request to the next: the persistent     *)
(* generator and the counters of /health.  Both follow from what a request  *)
(* leaves at the stage it ends at; that no other request runs meanwhile is  *)
(* the invariant above.                                                     *)

\* A generator is entered once, and its body starts with its first stage.
Staged(r) ==
  /\ gen[r] \in {"none", "fresh"} => stage[r] = "new"
  /\ Running(r) => stage[r] # "new"

\* Whoever used the persistent generator runs on it or finished its response.
Used == \A u \in users :
  Built(stage[u]) /\ (Running(u) \/ (gen[u] = "closed" /\ stage[u] = "final"))

\* A job in the generator's queue is of a request that runs.
Queueing == job # NoRequest => Running(job) /\ Built(stage[job])

\* Started, and neither completed nor cancelled so far as the counters say.
Unsettled == {"image", "loop", "eos", "flush"}
Uncounted(r) ==
  \/ Running(r) /\ stage[r] \in Unsettled
  \/ gen[r] = "closed" /\ stage[r] \in {"eos", "flush"}
Uncounteds == {r \in Requests : Uncounted(r)}

Accounts == ready =>
  /\ count["failed"] = 0
  /\ count["started"] = count["completed"] + count["cancelled"] + Cardinality(Uncounteds)

EngineInv == EngineTypeOK /\ Used /\ Queueing /\ Accounts /\ \A r \in Requests : Staged(r)

\* The counters c account for every request but r, and for r at stage s.
Balanced(c, r, s) ==
  /\ c["failed"] = 0
  /\ c["started"] = c["completed"] + c["cancelled"] + Cardinality(Uncounteds \ {r})
                    + (IF s \in Unsettled THEN 1 ELSE 0)

\* Nobody but r runs.
Alone(r) == \A q \in Requests \ {r} : ~Running(q)

\* Only r's generator moves, to stage s.
MovesTo(r, s) ==
  /\ gen' = [gen EXCEPT ![r] = gen'[r]] /\ gen'[r] \in {"parked", "yield", "closed"}
  /\ stage' = [stage EXCEPT ![r] = s]

-----------------------------------------------------------------------------
(* The counters.                                                           *)

\* One member more or less makes a difference of one.
LEMMA OneMore ==
  ASSUME NEW S, IsFiniteSet(S), NEW r
  PROVE  /\ Cardinality(S \ {r}) \in Nat
         /\ Cardinality(S) = Cardinality(S \ {r}) + (IF r \in S THEN 1 ELSE 0)
<1>1. IsFiniteSet(S \ {r}) /\ Cardinality(S \ {r}) \in Nat /\ Cardinality(S) \in Nat
  BY FS_RemoveElement, FS_CardinalityType
<1>2. CASE r \in S
  <2>1. Cardinality(S \ {r}) = Cardinality(S) - 1
    BY <1>2, FS_RemoveElement
  <2> QED
    BY <1>1, <1>2, <2>1
<1>3. CASE r \notin S
  <2>1. S \ {r} = S
    BY <1>3
  <2> QED
    BY <1>1, <1>3, <2>1
<1> QED
  BY <1>2, <1>3

\* So it is with the uncounted requests, before and after a step.
LEMMA Weigh ==
  ASSUME NEW r \in Requests
  PROVE  /\ Cardinality(Uncounteds \ {r}) \in Nat
         /\ Cardinality(Uncounteds) =
              Cardinality(Uncounteds \ {r}) + (IF Uncounted(r) THEN 1 ELSE 0)
         /\ Cardinality(Uncounteds') =
              Cardinality(Uncounteds' \ {r}) + (IF Uncounted(r)' THEN 1 ELSE 0)
<1>1. IsFiniteSet(Uncounteds) /\ IsFiniteSet(Uncounteds')
  BY EngineAssumption, FS_Subset DEF Uncounteds
<1>2. (r \in Uncounteds <=> Uncounted(r)) /\ (r \in Uncounteds' <=> Uncounted(r)')
  BY DEF Uncounteds
<1> QED
  BY <1>1, <1>2, OneMore

\* Where r stands, or ends, with balanced counters, they account for everyone.
LEMMA BalanceKeeps ==
  ASSUME EngineTypeOK, EngineTypeOK', NEW r \in Requests, NEW s \in Stages, MovesTo(r, s),
         ready' => Balanced(count', r, IF gen'[r] = "closed" /\ s \in {"image", "loop"}
                                       THEN "final" ELSE s)
  PROVE  Accounts'
<1>1. Uncounteds' \ {r} = Uncounteds \ {r}
  BY DEF Uncounteds, Uncounted, Running, MovesTo, EngineTypeOK
<1>2. Uncounted(r)' <=> s \in Unsettled /\ ~(gen'[r] = "closed" /\ s \in {"image", "loop"})
  BY DEF Uncounted, Running, Unsettled, MovesTo, EngineTypeOK
<1>3. Cardinality(Uncounteds') = Cardinality(Uncounteds \ {r}) + (IF Uncounted(r)' THEN 1 ELSE 0)
  BY <1>1, Weigh
<1>4. \A k \in Counters : count'[k] \in Nat
  BY DEF EngineTypeOK
<1>5. Cardinality(Uncounteds \ {r}) \in Nat
  BY Weigh
<1> QED
  BY <1>2, <1>3, <1>4, <1>5 DEF Balanced, Accounts, Unsettled, Counters

\* On an engine whose counters account for everyone they are balanced.
LEMMA RunningBalanced ==
  ASSUME EngineInv, NEW r \in Requests, Running(r), ready
  PROVE  Balanced(count, r, stage[r])
<1>1. Uncounted(r) <=> stage[r] \in Unsettled
  BY DEF Uncounted, Running
<1>2. \A k \in Counters : count[k] \in Nat
  BY DEF EngineInv, EngineTypeOK
<1>3. /\ Cardinality(Uncounteds \ {r}) \in Nat
      /\ Cardinality(Uncounteds) =
           Cardinality(Uncounteds \ {r}) + (IF stage[r] \in Unsettled THEN 1 ELSE 0)
  BY <1>1, Weigh
<1> QED
  BY <1>2, <1>3 DEF EngineInv, Counters, Accounts, Balanced

\* So they are when a generation has just been started.
LEMMA StartBalanced ==
  ASSUME EngineInv, NEW r \in Requests, gen[r] = "fresh", ready
  PROVE  \A s \in Unsettled : Balanced(Bump(count, "started"), r, s)
<1>1. ~Uncounted(r)
  BY DEF Uncounted, Running
<1>2. /\ Bump(count, "started")["started"] = count["started"] + 1
      /\ \A k \in Counters \ {"started"} : Bump(count, "started")[k] = count[k]
  BY DEF EngineInv, EngineTypeOK, Bump, Counters
<1>3. \A k \in Counters : count[k] \in Nat
  BY DEF EngineInv, EngineTypeOK
<1>4. Cardinality(Uncounteds \ {r}) \in Nat /\ Uncounteds = Uncounteds \ {r}
  BY <1>1, Weigh DEF Uncounteds
<1> QED
  BY <1>2, <1>3, <1>4 DEF EngineInv, Counters, Accounts, Balanced

-----------------------------------------------------------------------------
(* The engine's steps.                                                     *)

\* Ending a response leaves the engine fit for the next one.
LEMMA UnwindAccounts ==
  ASSUME EngineTypeOK, Used, Queueing, \A q \in Requests : Staged(q),
         NEW r \in Requests, Alone(r), NEW s \in Stages \ {"new"},
         NEW c \in [Counters -> Nat], NEW up \in BOOLEAN, up => ready /\ Balanced(c, r, s),
         NEW result \in Outcomes \ {"pending"},
         r \in users \/ job = r => Built(s),
         Unwind(r, s, c, up, result)
  PROVE  EngineInv'
<1> DEFINE sweep == up /\ Built(s)
<1>1. PICK clean \in BOOLEAN :
        /\ ready' = (up /\ ~(sweep /\ ~clean))
        /\ count' = LET c2 == IF sweep /\ ~clean THEN Bump(c, "failed") ELSE c
                    IN  IF CountsCancelled(s, ready') THEN Bump(c2, "cancelled") ELSE c2
        /\ persistent' = (persistent /\ (Built(s) => Kept(s, sweep /\ clean)))
        /\ users' = IF persistent' THEN users ELSE {}
        /\ job' = IF (sweep /\ clean) \/ ~persistent' THEN NoRequest ELSE job
        /\ gen' = [gen EXCEPT ![r] = "closed"]
        /\ stage' = [stage EXCEPT ![r] = s]
  BY DEF Unwind
<1>2. EngineTypeOK'
  BY UnwindEnds
<1>3. /\ gen'[r] = "closed" /\ stage'[r] = s
      /\ \A q \in Requests \ {r} : gen'[q] = gen[q] /\ stage'[q] = stage[q]
  BY <1>1 DEF EngineTypeOK
<1>4. \A q \in Requests : Staged(q)'
  BY <1>3 DEF Staged, Running
<1>5. Used'
  BY <1>1, <1>3 DEF Used, Running, Kept, EngineTypeOK
<1>6. Queueing'
  BY <1>1, EngineAssumption DEF Queueing, Alone, Kept, EngineTypeOK
<1>7. Accounts'
  <2>1. MovesTo(r, s)
    BY <1>1, <1>3 DEF MovesTo
  <2>2. CASE s \in {"image", "loop"} /\ ready'
    <3>1. count' = Bump(c, "cancelled") /\ Balanced(c, r, s)
      BY <1>1, <2>2 DEF CountsCancelled, Done
    <3>2. /\ count'["cancelled"] = c["cancelled"] + 1
          /\ \A k \in Counters \ {"cancelled"} : count'[k] = c[k]
      BY <3>1 DEF Bump, Counters
    <3>3. Cardinality(Uncounteds \ {r}) \in Nat /\ \A k \in Counters : c[k] \in Nat
      BY Weigh
    <3>4. Balanced(count', r, "final")
      BY <2>2, <3>1, <3>2, <3>3 DEF Balanced, Unsettled, Counters
    <3> QED
      BY <1>2, <1>3, <2>1, <2>2, <3>4, BalanceKeeps
  <2>3. CASE s \notin {"image", "loop"} /\ ready'
    <3>1. Done(s)
      BY <2>3 DEF Stages, Done
    <3>2. count' = c /\ Balanced(c, r, s)
      BY <1>1, <2>3, <3>1 DEF CountsCancelled
    <3> QED
      BY <1>2, <1>3, <2>1, <2>3, <3>2, BalanceKeeps
  <2>4. CASE ~ready'
    BY <2>4 DEF Accounts
  <2> QED
    BY <2>2, <2>3, <2>4
<1> QED
  BY <1>2, <1>4, <1>5, <1>6, <1>7 DEF EngineInv

\* A failed response leaves an engine that is not used again.
LEMMA FailAccounts ==
  ASSUME EngineInv, NEW r \in Requests, Alone(r), NEW s \in Stages \ {"new"},
         NEW c \in [Counters -> Nat], r \in users \/ job = r => Built(s), Fail(r, s, c)
  PROVE  EngineInv'
<1>1. Bump(c, "failed") \in [Counters -> Nat]
  BY BumpType DEF Counters
<1> QED
  BY <1>1, UnwindAccounts DEF Fail, EngineInv, Outcomes

\* Standing at an await or a yield with the engine's own state as it was.
LEMMA StandAccounts ==
  ASSUME EngineInv, EngineTypeOK', NEW r \in Requests, NEW s \in Stages \ {"new"},
         MovesTo(r, s), gen'[r] \in {"parked", "yield"},
         ready' = ready, ready => Balanced(count', r, s),
         UNCHANGED <<users, job>>, r \in users \/ job = r => Built(s)
  PROVE  EngineInv'
<1>1. /\ stage'[r] = s
      /\ \A q \in Requests \ {r} : gen'[q] = gen[q] /\ stage'[q] = stage[q]
  BY DEF EngineInv, EngineTypeOK, MovesTo
<1>2. \A q \in Requests : Staged(q)'
  BY <1>1 DEF EngineInv, Staged, Running
<1>3. Used' /\ Queueing'
  BY <1>1, EngineAssumption DEF EngineInv, EngineTypeOK, Used, Queueing, Running
<1>4. Accounts'
  BY BalanceKeeps DEF EngineInv
<1> QED
  BY <1>2, <1>3, <1>4 DEF EngineInv

\* Delivering the events of one iteration.
LEMMA BatchAccounts ==
  ASSUME EngineInv, NEW r \in Requests, Alone(r), NEW c \in [Counters -> Nat],
         NEW j \in {r, job}, Batch(r, c, j),
         ready => Balanced(c, r, "loop") /\ Balanced(c, r, "eos")
  PROVE  EngineInv'
<1>1. CASE Fail(r, "loop", c)
  BY <1>1, FailAccounts DEF Stages, Built
<1>2. CASE /\ \E s \in {"loop", "eos"} : Item(r, s) \/ Park(r, s)
           /\ job' = IF stage'[r] = "eos" THEN NoRequest ELSE j
           /\ count' = c /\ active' = TRUE
           /\ persistent' = (persistent \/ (PrefixCache /\ j = r /\ ready))
           /\ users' = IF persistent' THEN users \cup {r} ELSE {}
           /\ UNCHANGED ready
  <2>1. EngineTypeOK'
    BY BatchEffect DEF EngineInv, EngineTypeOK
  <2>2. PICK s \in {"loop", "eos"} : MovesTo(r, s) /\ gen'[r] \in {"parked", "yield"}
    BY <1>2 DEF Item, Park, Suspend, MovesTo, EngineInv, EngineTypeOK
  <2>3. /\ stage'[r] = s /\ s \in Stages \ {"new"} /\ Built(s)
        /\ \A q \in Requests \ {r} : gen'[q] = gen[q] /\ stage'[q] = stage[q]
    BY <2>2 DEF EngineInv, EngineTypeOK, MovesTo, Stages, Built, Done
  <2>4. \A q \in Requests : Staged(q)'
    BY <2>2, <2>3 DEF EngineInv, Staged, Running
  <2>5. Used'
    BY <1>2, <2>2, <2>3 DEF EngineInv, EngineTypeOK, Used, Running
  <2>6. Queueing'
    BY <1>2, <2>2, <2>3 DEF EngineInv, EngineTypeOK, Queueing, Alone, Running
  <2>7. Accounts'
    BY <1>2, <2>1, <2>2, <2>3, BalanceKeeps DEF EngineInv
  <2> QED
    BY <2>1, <2>4, <2>5, <2>6, <2>7 DEF EngineInv
<1> QED
  BY <1>1, <1>2 DEF Batch

\* The image stage, and what follows it.
LEMMA EmbedAccounts ==
  ASSUME EngineInv, NEW r \in Requests, Alone(r), NEW c \in [Counters -> Nat],
         r \notin users, job # r, Embed(r, c),
         ready => \A s \in Unsettled : Balanced(c, r, s)
  PROVE  EngineInv'
<1>1. CASE Fail(r, "image", c)
  BY <1>1, FailAccounts DEF Stages
<1>2. CASE Batch(r, c, r)
  BY <1>2, BatchAccounts DEF Unsettled
<1>3. CASE /\ Park(r, "image")
           /\ count' = c /\ active' = TRUE
           /\ UNCHANGED <<ready, persistent, users, job>>
  <2>1. EngineTypeOK'
    BY EmbedEffect DEF EngineInv
  <2>2. MovesTo(r, "image") /\ gen'[r] \in {"parked", "yield"}
    BY <1>3 DEF Park, Suspend, MovesTo, EngineInv, EngineTypeOK
  <2> QED
    BY <1>3, <2>1, <2>2, StandAccounts DEF Unsettled, Stages
<1> QED
  BY <1>1, <1>2, <1>3 DEF Embed

\* Counting a completion.
LEMMA CompleteAccounts ==
  ASSUME EngineInv, NEW r \in Requests, Alone(r), active, Complete(r), Running(r),
         stage[r] \in {"eos", "flush"}
  PROVE  EngineInv'
<1> DEFINE c == Bump(count, "completed")
<1>1. /\ c \in [Counters -> Nat] /\ Bump(c, "invalid") \in [Counters -> Nat]
      /\ \A k \in Counters \ {"completed"} : c[k] = count[k]
      /\ c["completed"] = count["completed"] + 1
      /\ \A k \in Counters \ {"invalid"} : Bump(c, "invalid")[k] = c[k]
  BY DEF EngineInv, EngineTypeOK, Bump, Counters
<1>2. ready => \A s \in Stages \ Unsettled : Balanced(c, r, s) /\ Balanced(Bump(c, "invalid"), r, s)
  <2>1. SUFFICES ASSUME ready, NEW s \in Stages \ Unsettled
                 PROVE  Balanced(c, r, s) /\ Balanced(Bump(c, "invalid"), r, s)
    OBVIOUS
  <2>2. Balanced(count, r, stage[r]) /\ stage[r] \in Unsettled
    BY <2>1, RunningBalanced DEF Unsettled
  <2>3. Cardinality(Uncounteds \ {r}) \in Nat /\ \A k \in Counters : count[k] \in Nat
    BY Weigh DEF EngineInv, EngineTypeOK
  <2> QED
    BY <1>1, <2>1, <2>2, <2>3 DEF Balanced, Counters
<1>3. Built("counted") /\ Built("tools") /\ Built("final")
      /\ {"counted", "tools", "final"} \subseteq (Stages \ Unsettled) \ {"new"}
  BY DEF Built, Done, Stages, Unsettled
<1> HIDE DEF c
<1>4. CASE Fail(r, "counted", c)
  BY <1>1, <1>3, <1>4, FailAccounts
<1>5. CASE Unwind(r, "counted", Bump(c, "invalid"), ready, "protocol")
  BY <1>1, <1>2, <1>3, <1>5, UnwindAccounts DEF EngineInv, EngineTypeOK, Outcomes
<1>6. CASE /\ Item(r, "tools") \/ Suspend(r, "final", "yield", "final")
           /\ count' = c
           /\ UNCHANGED <<ready, active, persistent, users, job>>
  <2>1. EngineTypeOK'
    BY CompleteEffect DEF EngineInv
  <2>2. PICK s \in {"tools", "final"} : MovesTo(r, s) /\ gen'[r] \in {"parked", "yield"}
    BY <1>6 DEF Item, Suspend, MovesTo, EngineInv, EngineTypeOK
  <2> QED
    BY <1>2, <1>3, <1>6, <2>1, <2>2, StandAccounts
<1> QED
  BY <1>4, <1>5, <1>6 DEF Complete, c

\* A generator whose body was not entered is made, or closed.
LEMMA UnenteredAccounts ==
  ASSUME EngineInv, EngineTypeOK', NEW r \in Requests, gen[r] \in {"none", "fresh"},
         NEW g \in {"fresh", "closed"}, gen' = [gen EXCEPT ![r] = g],
         UNCHANGED <<ready, users, job, count, stage>>
  PROVE  EngineInv'
<1>1. /\ gen'[r] = g /\ stage'[r] = "new"
      /\ \A q \in Requests \ {r} : gen'[q] = gen[q] /\ stage'[q] = stage[q]
  BY DEF EngineInv, EngineTypeOK, Staged
<1>2. \A q \in Requests : Staged(q)'
  BY <1>1 DEF EngineInv, Staged, Running
<1>3. Used'
  BY <1>1 DEF EngineInv, Used, EngineTypeOK, Running
<1>4. Queueing'
  BY <1>1 DEF EngineInv, Queueing, EngineTypeOK, Running
<1>5. \A q \in Requests : Uncounted(q)' <=> Uncounted(q)
  BY <1>1 DEF Uncounted, Running, Unsettled, EngineInv, Staged
<1>6. Accounts'
  <2>1. Uncounteds' = Uncounteds
    BY <1>5 DEF Uncounteds
  <2> QED
    BY <2>1 DEF EngineInv, Accounts
<1> QED
  BY <1>2, <1>3, <1>4, <1>6 DEF EngineInv

\* Nothing that is accounted for changes.
LEMMA SameAccounts ==
  ASSUME EngineInv, EngineTypeOK', UNCHANGED <<ready, users, job, count, gen, stage>>
  PROVE  EngineInv'
<1>1. Used' /\ Queueing' /\ \A q \in Requests : Staged(q)'
  BY DEF EngineInv, Used, Queueing, Staged, Running
<1>2. Accounts'
  <2>1. Uncounteds' = Uncounteds
    BY DEF Uncounteds, Uncounted, Running
  <2> QED
    BY <2>1 DEF EngineInv, Accounts
<1> QED
  BY <1>1, <1>2 DEF EngineInv

\* A step of the __anext__ task.
LEMMA StepAccounts ==
  ASSUME EngineInv, EngineTypeOK', NEW r \in Requests, Alone(r), Running(r) => active, EngineStep(r)
  PROVE  EngineInv'
<1>1. Running(r) /\ stage[r] \in {"image", "loop"} /\ ready =>
        \A s \in Unsettled : Balanced(count, r, s)
  BY RunningBalanced DEF Balanced, Unsettled
<1>2. /\ count \in [Counters -> Nat]
      /\ Bump(count, "started") \in [Counters -> Nat]
  BY BumpType DEF EngineInv, EngineTypeOK, Counters
<1>3. stage[r] \notin {"loop"} /\ ~Done(stage[r]) => r \notin users /\ job # r
  BY EngineAssumption DEF EngineInv, Used, Queueing, Built
<1>4. job \in {r, NoRequest}
  BY DEF EngineInv, EngineTypeOK, Queueing, Alone
<1>5. CASE Begin(r)
  <2>1. CASE ~ready \/ active
    BY <1>5, <2>1, UnenteredAccounts DEF Begin
  <2>2. CASE ready /\ Embed(r, Bump(count, "started"))
    <3>1. r \notin users /\ job # r
      BY <1>5, EngineAssumption DEF Begin, EngineInv, Used, Queueing, Running
    <3> QED
      BY <1>2, <1>5, <2>2, <3>1, StartBalanced, EmbedAccounts DEF Begin
  <2> QED
    BY <1>5, <2>1, <2>2 DEF Begin
<1>6. CASE EmbedNext(r)
  <2>1. Running(r) /\ stage[r] = "image" /\ r \notin users /\ job # r
    BY <1>3, <1>6 DEF EmbedNext, Resume, Running, Done
  <2>2. CASE ready /\ Embed(r, count)
    BY <1>1, <1>2, <2>1, <2>2, EmbedAccounts
  <2>3. CASE Fail(r, "image", count)
    BY <1>2, <2>1, <2>3, FailAccounts DEF Stages
  <2> QED
    BY <1>6, <2>2, <2>3 DEF EmbedNext
<1>7. CASE BatchRest(r) \/ Iterate(r)
  <2>1. Running(r) /\ stage[r] = "loop"
    BY <1>7 DEF BatchRest, Iterate, Resume, Running
  <2> QED
    BY <1>1, <1>2, <1>7, <2>1, BatchAccounts DEF BatchRest, Iterate, Unsettled
<1>8. CASE Starved(r)
  BY <1>2, <1>8, FailAccounts DEF Starved, Resume, Stages, Built
<1>9. CASE BatchOver(r) \/ ToolsSent(r)
  <2>1. Running(r) /\ stage[r] \in {"eos", "tools"} /\ (ready => Balanced(count, r, stage[r]))
    BY <1>9, RunningBalanced DEF BatchOver, ToolsSent, Resume, Running
  <2>2. PICK s \in {"eos", "final"} :
          /\ MovesTo(r, s) /\ gen'[r] \in {"parked", "yield"}
          /\ s = "eos" <=> stage[r] = "eos"
    BY <1>9 DEF BatchOver, ToolsSent, Resume, Park, Suspend, MovesTo, EngineInv, EngineTypeOK
  <2>3. UNCHANGED <<ready, users, job, count>>
    BY <1>9 DEF BatchOver, ToolsSent
  <2>4. ready => Balanced(count', r, s)
    BY <2>1, <2>2, <2>3 DEF Balanced, Unsettled
  <2> QED
    BY <2>2, <2>3, <2>4, StandAccounts DEF Stages, Built, Done
<1>10. CASE LoopOver(r)
  <2>1. Running(r) /\ stage[r] = "eos" /\ (ready => Balanced(count, r, "flush"))
    BY <1>10, RunningBalanced DEF LoopOver, Resume, Running, Balanced, Unsettled
  <2>2. CASE Item(r, "flush") /\ UNCHANGED <<ready, active, persistent, users, job, count>>
    <3>1. MovesTo(r, "flush") /\ gen'[r] \in {"parked", "yield"}
      BY <2>2 DEF Item, Suspend, MovesTo, EngineInv, EngineTypeOK
    <3> QED
      BY <2>1, <2>2, <3>1, StandAccounts DEF Stages, Built, Done
  <2>3. CASE Complete(r)
    BY <2>1, <2>3, CompleteAccounts
  <2> QED
    BY <1>10, <2>2, <2>3 DEF LoopOver
<1>11. CASE Flushed(r)
  BY <1>11, CompleteAccounts DEF Flushed, Resume, Running
<1> QED
  BY <1>5, <1>6, <1>7, <1>8, <1>9, <1>10, <1>11 DEF EngineStep

\* Cancelling the __anext__ task, or closing the generator.
LEMMA CloseAccounts ==
  ASSUME EngineInv, EngineTypeOK', NEW r \in Requests,
         Running(r) => Alone(r), Interrupt(r) \/ Aclose(r)
  PROVE  EngineInv'
<1>1. ASSUME Running(r), NEW result \in Outcomes \ {"pending"},
             Unwind(r, stage[r], count, ready, result)
      PROVE  EngineInv'
  <2>1. /\ stage[r] \in Stages \ {"new"} /\ count \in [Counters -> Nat] /\ ready \in BOOLEAN
        /\ r \in users \/ job = r => Built(stage[r])
    BY <1>1, EngineAssumption DEF EngineInv, EngineTypeOK, Staged, Used, Queueing
  <2> QED
    BY <1>1, <2>1, RunningBalanced, UnwindAccounts DEF EngineInv
<1>2. CASE Interrupt(r)
  BY <1>1, <1>2, UnenteredAccounts DEF Interrupt, Running, Outcomes
<1>3. CASE Aclose(r)
  <2>1. CASE gen[r] = "yield" /\ anext[r] # "pending" /\ Unwind(r, stage[r], count, ready, anext[r])
    BY <1>1, <2>1 DEF Running, EngineInv, EngineTypeOK
  <2>2. CASE gen[r] = "fresh" /\ anext[r] # "pending"
    BY <1>3, <2>2, UnenteredAccounts DEF Aclose
  <2>3. CASE UNCHANGED engineVars
    BY <2>3, SameAccounts DEF engineVars
  <2> QED
    BY <1>3, <2>1, <2>2, <2>3 DEF Aclose
<1> QED
  BY <1>2, <1>3

-----------------------------------------------------------------------------
(* The server's steps.                                                     *)

Before == {"idle", "body", "gate", "queue"}
NotYet == \A r \in Requests : pc[r] \in Before => gen[r] = "none"
AccountInv == IInv /\ EngineInv /\ NotYet

\* While a generator is open nobody else's runs.
LEMMA OwnerAlone ==
  ASSUME IInv, NEW r \in Requests, gen[r] \notin {"none", "closed"}
  PROVE  Alone(r) /\ (Running(r) => active)
<1>1. \A q \in Requests : Running(q) => lock = q
  BY OpenOwns DEF Running
<1>2. lock = r
  BY OpenOwns
<1> QED
  BY <1>1, <1>2 DEF Alone, IInv, Activity

\* A request that was admitted stays so.
LEMMA NotYetKept ==
  ASSUME AccountInv, Next
  PROVE  NotYet'
<1> USE DEF AccountInv, IInv, TypeOK, EngineTypeOK
<1>1. ASSUME NEW r \in Requests,
             \A q \in Requests \ {r} : pc'[q] = pc[q] /\ gen'[q] = gen[q],
             \/ pc'[r] \notin Before
             \/ pc[r] \in Before /\ gen'[r] = gen[r]
      PROVE  NotYet'
  BY <1>1 DEF NotYet
<1>2. ASSUME NEW r \in Requests, Client(r) \/ Expire(r) \/ Observe(r) \/ Body(r) \/ Refuse(r)
      PROVE  NotYet'
  BY <1>1, <1>2 DEF Client, Arrive, Drop, Expire, Observe, Body, Refuse, Over, Answer, Live,
                    engineVars, NotYet, Before
<1>3. ASSUME NEW r \in Requests, Gate(r) \/ Poll(r)
      PROVE  NotYet'
  BY <1>1, <1>3, AdmitEffect DEF Gate, Poll, Admit, Generate, Answer, engineVars, NotYet, Before
<1>4. ASSUME NEW r \in Requests,
             \/ Send(r) \/ SendFails(r) \/ Wake(r) \/ Settled(r) \/ Reap(r) \/ Cancelled(r)
             \/ Advance(r)
      PROVE  NotYet'
  <2>1. Discreet(r)
    BY <1>4, PullDiscreet, AcloseDiscreet, IdleDiscreet, EngineDiscreet
       DEF Send, SendFails, Wake, Deliver, Settled, Reap, engineVars
  <2>2. pc' = pc \/ pc' = [pc EXCEPT ![r] = "finish"]
    BY <1>4 DEF Send, SendFails, Wake, Deliver, Settled, Reap, Cancelled, Advance, serverVars,
                Pull, Leave, JsonExit, Answer
  <2> QED
    BY <2>1, <2>2 DEF Discreet, NotYet, Before
<1>5. ASSUME NEW r \in Requests, Respond(r) \/ Finish(r) \/ Kill(r)
      PROVE  NotYet'
  BY <1>1, <1>5 DEF Respond, Finish, Kill, Over, Answer, engineVars, NotYet, Before
<1>6. CASE Stop \/ Halt \/ Terminated
  BY <1>6 DEF Stop, Halt, EngineShutdown, Terminated, vars, engineVars, serverVars, NotYet
<1> QED
  BY <1>2, <1>3, <1>4, <1>5, <1>6 DEF Next, Task

\* Every step keeps the accounts.
LEMMA NextAccounts ==
  ASSUME AccountInv, Next
  PROVE  EngineInv'
<1>1. EngineTypeOK'
  BY NextKeeps DEF AccountInv, IInv, TypeOK
<1>2. ASSUME NEW r \in Requests, Aclose(r) \/ Interrupt(r) PROVE EngineInv'
  BY <1>1, <1>2, CloseAccounts, OwnerAlone DEF AccountInv, Running
<1>3. ASSUME UNCHANGED engineVars PROVE EngineInv'
  BY <1>1, <1>3, SameAccounts DEF AccountInv, engineVars
<1>4. ASSUME NEW r \in Requests, Leave(r) \/ Pull(r) PROVE EngineInv'
  BY <1>1, <1>2, <1>3, <1>4, SameAccounts DEF AccountInv, Leave, JsonExit, Pull, Anext
<1>5. ASSUME NEW r \in Requests, Gate(r) \/ Poll(r) PROVE EngineInv'
  <2>1. CASE Admit(r)
    <3>1. gen[r] = "none"
      BY <1>5 DEF AccountInv, NotYet, Before, Gate, Poll
    <3> QED
      BY <1>1, <1>3, <2>1, <3>1, UnenteredAccounts DEF Admit, Generate, AccountInv
  <2> QED
    BY <1>3, <1>5, <2>1 DEF Gate, Poll
<1>6. ASSUME NEW r \in Requests, Send(r) \/ SendFails(r) \/ Wake(r) \/ Settled(r) \/ Reap(r)
      PROVE  EngineInv'
  BY <1>2, <1>3, <1>4, <1>6 DEF Send, SendFails, Wake, Deliver, Settled, Reap
<1>7. ASSUME NEW r \in Requests, Cancelled(r) \/ Advance(r) PROVE EngineInv'
  <2>1. CASE Advance(r)
    <3>1. gen[r] \notin {"none", "closed"}
      BY <2>1 DEF Advance, EngineStep, Begin, EmbedNext, BatchRest, Iterate, Starved, BatchOver,
                  LoopOver, Flushed, ToolsSent, Resume
    <3> QED
      BY <1>1, <2>1, <3>1, OwnerAlone, StepAccounts DEF Advance, AccountInv
  <2> QED
    BY <1>2, <1>7, <2>1 DEF Cancelled
<1>8. ASSUME NEW r \in Requests,
             \/ Client(r) \/ Expire(r) \/ Observe(r) \/ Body(r) \/ Refuse(r) \/ Respond(r)
             \/ Finish(r) \/ Kill(r)
      PROVE  EngineInv'
  BY <1>3, <1>8 DEF Client, Arrive, Drop, Expire, Observe, Body, Refuse, Respond, Finish, Kill
<1>9. CASE Halt
  BY <1>1, <1>9 DEF Halt, EngineShutdown, AccountInv, EngineInv, Used, Queueing, Accounts,
                    Staged, Running
<1>10. CASE Stop \/ Terminated
  BY <1>3, <1>10 DEF Stop, Terminated, vars
<1>11. CASE \E r \in Requests : Client(r) \/ Expire(r) \/ Task(r) \/ Kill(r)
  BY <1>5, <1>6, <1>7, <1>8, <1>11 DEF Task
<1> QED
  BY <1>9, <1>10, <1>11 DEF Next

\* The invariant holds of every server.
THEOREM Accounted == Spec => []AccountInv
<1>1. Init => AccountInv
  <2> SUFFICES ASSUME Init PROVE AccountInv
    OBVIOUS
  <2>1. Uncounteds = {} /\ Cardinality({}) = 0
    BY FS_EmptySet DEF Init, EngineInit, Uncounteds, Uncounted, Running
  <2>2. Accounts
    BY <2>1 DEF Init, EngineInit, Accounts, Counters
  <2> QED
    BY <2>2, InitInv, EngineInitType
       DEF AccountInv, EngineInv, NotYet, Init, EngineInit, Used, Queueing, Staged, Running
<1>2. AccountInv /\ [Next]_vars => AccountInv'
  <2>1. CASE AccountInv /\ Next
    BY <2>1, NextKeeps, NotYetKept, NextAccounts DEF AccountInv
  <2>2. CASE AccountInv /\ UNCHANGED vars
    <3>1. IInv' /\ EngineTypeOK'
      BY <2>2, NextKeeps DEF AccountInv, IInv, TypeOK
    <3>2. EngineInv'
      BY <2>2, <3>1, SameAccounts DEF AccountInv, vars, engineVars
    <3> QED
      BY <2>2, <3>1, <3>2 DEF AccountInv, NotYet, vars, engineVars, serverVars
  <2> QED
    BY <2>1, <2>2
<1> QED
  BY <1>1, <1>2, PTL DEF Spec

\* A persistent generator that the next request may reuse holds no job of an earlier
\* one, and every earlier request on it finished its response (the finally block of
\* Engine.generate).
THEOREM ReusedClean == Spec => []ReuseIsClean
<1>1. AccountInv => ReuseIsClean
  BY DEF AccountInv, EngineInv, Used, Queueing, ReuseIsClean, IInv, TypeOK, EngineTypeOK, Activity
<1> QED
  BY <1>1, Accounted, PTL

\* The counters of an idle healthy engine account for every request it started, but
\* those abandoned after their EOS event and before completion was counted.
THEOREM CountersAccount == Spec => []HealthCounters
<1>1. AccountInv => HealthCounters
  <2> SUFFICES ASSUME AccountInv, ready, ~active PROVE HealthCounters
    BY DEF HealthCounters
  <2>1. \A r \in Requests : ~Running(r)
    BY DEF AccountInv, IInv, Activity
  <2>2. Uncounteds = {r \in Requests : gen[r] = "closed" /\ stage[r] \in {"eos", "flush"}}
    BY <2>1 DEF Uncounteds, Uncounted
  <2> QED
    BY <2>2 DEF AccountInv, EngineInv, Accounts, HealthCounters
<1> QED
  BY <1>1, Accounted, PTL

-----------------------------------------------------------------------------
(* Serving implements Slot.  A step of one request leaves the places of    *)
(* the others alone (Moves), so it is enough to follow that request: the   *)
(* inductive invariant tells which places its main task and the lock       *)
(* allow, and that only a holder's generator runs.                         *)

Placed == [r \in Requests |-> Place(r)]
Busy == {r \in Requests : Running(r)}

\* A step of r: the others keep their main task and their generator, the lock
\* moves only between r and nobody, r never goes back, and it joins the queue
\* only behind a holder and within the bound.
Moves(r) ==
  /\ \A q \in Requests \ {r} : pc'[q] = pc[q] /\ gen'[q] = gen[q]
  /\ \/ lock' = lock
     \/ lock = NoRequest /\ lock' = r /\ ~Running(r)' /\ pc[r] \in {"gate", "queue"}
     \/ lock = r /\ lock' = NoRequest
  /\ pc[r] \notin {"idle", "body", "gate"} => pc'[r] \notin {"idle", "body", "gate"}
  /\ pc[r] \notin {"idle", "body", "gate", "queue"} => pc'[r] # "queue"
  /\ pc'[r] = "queue" /\ pc[r] # "queue" => lock # NoRequest /\ waiting < MaxPending

-----------------------------------------------------------------------------
(* Every action of a request is such a step.                               *)

\* Actions that leave the lock and the generators alone.
LEMMA QuietMoves ==
  ASSUME IInv, NEW r \in Requests, Client(r) \/ Expire(r) \/ Observe(r) \/ Body(r) \/ Refuse(r)
         \/ SendFails(r) \/ Respond(r) \/ Finish(r) \/ Kill(r)
  PROVE  Moves(r)
<1>1. pc \in [Requests -> MainStates] /\ gen' = gen
  BY DEF IInv, TypeOK, Client, Arrive, Drop, Expire, Observe, Body, Refuse, SendFails, Respond,
         Finish, Kill, engineVars
<1>2. CASE Client(r) \/ Expire(r) \/ Observe(r) \/ Body(r) \/ Refuse(r)
  BY <1>1, <1>2 DEF Moves, Client, Arrive, Drop, Expire, Observe, Body, Refuse, Answer, Over
<1>3. CASE SendFails(r) \/ Respond(r) \/ Finish(r)
  BY <1>1, <1>3 DEF Moves, SendFails, Respond, Finish, Over
<1>4. CASE Kill(r)
  BY <1>1, <1>4 DEF Moves, Kill, Over, Answer
<1> QED
  BY <1>2, <1>3, <1>4

\* Admission, queueing and their refusals.
LEMMA GateMoves ==
  ASSUME IInv, NEW r \in Requests, Gate(r) \/ Poll(r)
  PROVE  Moves(r)
<1>1. /\ pc \in [Requests -> MainStates] /\ gen \in [Requests -> GenStates]
      /\ pc[r] \in {"gate", "queue"}
  BY DEF IInv, TypeOK, EngineTypeOK, Gate, Poll
<1>2. CASE Admit(r)
  <2>1. ~Running(r)
    BY <1>1 DEF IInv, RequestInv, GenInv, Admitted, Running
  <2>2. ~Running(r)' /\ \A q \in Requests \ {r} : gen'[q] = gen[q]
    BY <1>1, <1>2, <2>1 DEF Admit, Generate, engineVars, Running
  <2>3. /\ \E p \in {"finish", "respond", "json"} : pc' = [pc EXCEPT ![r] = p]
        /\ lock' = lock \/ (lock = NoRequest /\ lock' = r)
    BY <1>2 DEF Admit, Answer
  <2> QED
    BY <1>1, <2>2, <2>3 DEF Moves
<1>3. CASE Answer(r) /\ UNCHANGED <<engineVars, loop, lock>>
  BY <1>1, <1>3 DEF Answer, engineVars, Moves
<1>4. CASE /\ lock # NoRequest /\ ~Full(waiting)
           /\ pc' = [pc EXCEPT ![r] = "queue"]
           /\ UNCHANGED <<engineVars, loop, lock>>
  <2>1. waiting < MaxPending
    BY <1>4, ServingAssumption DEF Full, IInv, TypeOK
  <2> QED
    BY <1>1, <1>4, <2>1 DEF engineVars, Moves, MainStates
<1> QED
  BY <1>2, <1>3, <1>4 DEF Gate, Poll

\* Leaving the pull loop and pulling again.
LEMMA PullMoves ==
  ASSUME IInv, NEW r \in Requests, Leave(r) \/ Pull(r), loop[r] \notin {"off", "end"}
  PROVE  Moves(r)
<1>1. /\ pc \in [Requests -> MainStates] /\ gen \in [Requests -> GenStates]
      /\ lock = r /\ Admitted(r)
  BY OpenOwns DEF IInv, TypeOK, EngineTypeOK
<1>2. CASE Leave(r)
  <2>1. CASE UNCHANGED <<engineVars, pc, lock>>
    BY <1>1, <2>1 DEF engineVars, Moves, Admitted
  <2>2. CASE JsonExit(r)
    <3>1. \A q \in Requests \ {r} : gen'[q] = gen[q]
      BY <1>1, <2>2, AcloseDiscreet DEF JsonExit, Discreet
    <3> QED
      BY <1>1, <2>2, <3>1 DEF JsonExit, Answer, Moves
  <2> QED
    BY <1>2, <2>1, <2>2 DEF Leave
<1>3. CASE Anext(r) /\ UNCHANGED <<pc, lock>>
  BY <1>1, <1>3 DEF Anext, Moves, Admitted
<1> QED
  BY <1>2, <1>3 DEF Pull

\* The pull loop, the engine's steps and the closing of the generator.
LEMMA LoopMovesOn ==
  ASSUME IInv, NEW r \in Requests,
         Send(r) \/ Wake(r) \/ Settled(r) \/ Cancelled(r) \/ Advance(r) \/ Reap(r)
  PROVE  Moves(r)
<1>1. pc \in [Requests -> MainStates] /\ gen \in [Requests -> GenStates]
  BY DEF IInv, TypeOK, EngineTypeOK
<1>2. CASE Send(r) \/ Wake(r) \/ Settled(r)
  <2>1. loop[r] \notin {"off", "end"} /\ Admitted(r)
    <3>1. loop[r] \notin {"off", "end"}
      BY <1>2 DEF Send, Wake, Settled
    <3> QED
      BY <3>1, OpenOwns
  <2>2. (Leave(r) \/ Pull(r)) \/ UNCHANGED <<engineVars, pc, lock>>
    BY <1>2 DEF Send, Wake, Settled, Deliver
  <2>3. CASE UNCHANGED <<engineVars, pc, lock>>
    BY <1>1, <2>1, <2>3 DEF engineVars, Moves, Admitted
  <2> QED
    BY <2>1, <2>2, <2>3, PullMoves
<1>3. CASE Cancelled(r) \/ Advance(r)
  <2>1. \A q \in Requests \ {r} : gen'[q] = gen[q]
    BY <1>1, <1>3, EngineDiscreet DEF Discreet
  <2> QED
    BY <1>3, <2>1 DEF Cancelled, Advance, serverVars, Moves
<1>4. CASE Reap(r)
  <2>1. \A q \in Requests \ {r} : gen'[q] = gen[q]
    BY <1>1, <1>4, AcloseDiscreet DEF Reap, Discreet
  <2> QED
    BY <1>1, <1>4, <2>1 DEF Reap, Moves
<1> QED
  BY <1>2, <1>3, <1>4

-----------------------------------------------------------------------------
(* The refinement.                                                         *)

\* The waiting requests of the abstraction are the queued ones.
LEMMA WaitingQueued ==
  ASSUME IInv
  PROVE  Admission!At("waiting") = Queued
<1>1. \A r \in Requests : Place(r) = "waiting" <=> pc[r] = "queue"
  BY DEF Place, IInv, RequestInv, LockInv, Admitted
<1> QED
  BY <1>1 DEF Admission!At, Queued

\* The slot is free when nobody owns the lock.
LEMMA FreeSlot ==
  ASSUME IInv
  PROVE  Admission!Free <=> lock = NoRequest
<1>1. Admission!At("holding") = {r \in Requests : lock = r}
  BY DEF Place, Admission!At
<1>2. lock \in Requests \cup {NoRequest} /\ NoRequest \notin Requests
  BY EngineAssumption DEF IInv, TypeOK
<1> QED
  BY <1>1, <1>2 DEF Admission!Free

\* A step of one request is a step of Slot or changes nothing there.
LEMMA StepRefines ==
  ASSUME IInv, IInv', NEW r \in Requests, Moves(r)
  PROVE  \/ UNCHANGED <<Placed, Busy>>
         \/ Admission!Wait(r) \/ Admission!Take(r) \/ Admission!Work(r) \/ Admission!Depart(r)
<1> DEFINE p == Place(r)
<1>0. r # NoRequest
  BY EngineAssumption
<1>1. \A q \in Requests \ {r} : Place(q)' = Place(q) /\ (Running(q)' <=> Running(q))
  BY EngineAssumption DEF Moves, Place, Running
<1>2. Placed' = [Placed EXCEPT ![r] = Place(r)']
  BY <1>1 DEF Placed
<1>3. /\ Running(r)' => Busy' = Busy \cup {r}
      /\ ~Running(r)' => Busy' = Busy \ {r}
  BY <1>1 DEF Busy
<1>4. /\ p # "holding" => r \notin Busy
      /\ Place(r)' # "holding" => ~Running(r)'
  BY DEF IInv, RequestInv, LockInv, GenInv, Admitted, Running, Place, Busy
<1>5. p \in Admission!Places /\ Place(r)' \in Admission!Places
  BY DEF Place, Admission!Places
<1>6. CASE Place(r)' = p /\ p # "holding"
  BY <1>2, <1>3, <1>4, <1>6 DEF Placed
<1>7. CASE Place(r)' = p /\ p = "holding"
  BY <1>2, <1>3, <1>7 DEF Placed, Busy, Admission!Work
<1>8. CASE Place(r)' = "over" /\ p # "over"
  BY <1>2, <1>3, <1>4, <1>8 DEF Placed, Busy, Admission!Depart, Admission!Move
<1>9. CASE Place(r)' = "holding" /\ p # "holding"
  <2>1. lock' = r /\ lock = NoRequest /\ ~Running(r)' /\ pc[r] \in {"gate", "queue"}
    BY <1>0, <1>9 DEF Place, Moves
  <2>2. p \in {"outside", "waiting"}
    BY <1>0, <2>1 DEF Place
  <2> QED
    BY <1>2, <1>3, <1>4, <1>9, <2>1, <2>2, FreeSlot
       DEF Placed, Busy, Admission!Take, Admission!Move
<1>10. CASE Place(r)' = "waiting" /\ p # "waiting"
  <2>1. pc'[r] = "queue" /\ pc[r] # "queue" /\ lock # r
    BY <1>0, <1>10 DEF Place, Moves, IInv, RequestInv, LockInv, Admitted
  <2>2. lock # NoRequest /\ waiting < MaxPending /\ p = "outside"
    BY <1>0, <2>1 DEF Moves, Place
  <2>3. Admission!Cardinality(Admission!At("waiting")) < MaxPending
    BY <2>2, WaitingQueued DEF IInv, QueueCount, Cardinality, Admission!Cardinality
  <2> QED
    BY <1>2, <1>3, <1>4, <1>10, <2>2, <2>3, FreeSlot
       DEF Placed, Busy, Admission!Wait, Admission!Move
<1>11. CASE Place(r)' = "outside" /\ p # "outside"
  <2>1. pc'[r] \in {"idle", "body", "gate"}
    BY <1>11 DEF Place
  <2>2. pc[r] \in {"idle", "body", "gate"}
    BY <2>1 DEF Moves
  <2>3. lock = r
    BY <1>11, <2>2 DEF Place
  <2> QED
    BY <2>2, <2>3 DEF IInv, RequestInv, LockInv, Admitted
<1> QED
  BY <1>5, <1>6, <1>7, <1>8, <1>9, <1>10, <1>11 DEF Admission!Places

\* A step of the server is one of the slot, or the slot does not notice.
LEMMA StepImplements ==
  ASSUME IInv, IInv', [Next]_vars
  PROVE  [Admission!Next]_(Admission!slotVars)
<1>1. CASE UNCHANGED vars
  BY <1>1 DEF vars, engineVars, serverVars, Place, Running, Admission!slotVars
<1>2. CASE Stop \/ Halt
  BY <1>2 DEF Stop, Halt, EngineShutdown, engineVars, Place, Running, Admission!slotVars
<1>3. ASSUME NEW r \in Requests, Client(r) \/ Expire(r) \/ Task(r) \/ Kill(r)
      PROVE  [Admission!Next]_(Admission!slotVars)
  <2>1. Moves(r)
    BY <1>3, QuietMoves, GateMoves, LoopMovesOn DEF Task
  <2> QED
    BY <1>3, <2>1, StepRefines DEF Placed, Busy, Admission!Next, Admission!slotVars
<1> QED
  BY <1>1, <1>2, <1>3 DEF Next, Terminated

\* The server starts as an empty slot.
LEMMA StartImplements == Init => Admission!Init
  BY EngineAssumption DEF Init, EngineInit, Place, Running, Admission!Init

\* Admission, pulling, responding and cleaning up implement one slot behind a
\* bounded queue, given up only when the engine works for its holder no longer.
THEOREM Implementation == Spec => ImplementsSlot
  BY StartImplements, StepImplements, Invariance, PTL DEF Spec, ImplementsSlot, Admission!Spec

-----------------------------------------------------------------------------
(* What the abstract slot promises.                                        *)

SlotInv == Placed \in [Requests -> Admission!Places] /\ Admission!OneAtATime

\* The slot counts as the server does.
LEMMA SameCardinality == \A S : Admission!Cardinality(S) = Cardinality(S)
  BY DEF Admission!Cardinality, Cardinality

\* A step of the slot keeps its promise.
LEMMA SlotStep ==
  ASSUME IsFiniteSet(Requests), MaxPending \in Nat, SlotInv,
         [Admission!Next]_(Admission!slotVars)
  PROVE  SlotInv'
<1> DEFINE At(p) == {r \in Requests : Placed[r] = p}
<1>1. \A p : Admission!At(p) = At(p) /\ Admission!At(p)' = At(p)'
  BY DEF Admission!At, Placed
<1>2. ASSUME Placed' = Placed, Busy' = Busy
      PROVE  SlotInv'
  BY <1>2 DEF SlotInv, Admission!OneAtATime, Admission!At, Placed, Busy
<1>3. ASSUME NEW r \in Requests, Admission!Wait(r) \/ Admission!Take(r)
                                 \/ Admission!Work(r) \/ Admission!Depart(r)
      PROVE  SlotInv'
  <2>1. Placed \in [Requests -> Admission!Places] /\ IsFiniteSet(At("waiting"))
    BY FS_Subset DEF SlotInv
  <2>2. Placed' \in [Requests -> Admission!Places]
    BY <1>3, <2>1 DEF Placed, Admission!Wait, Admission!Take, Admission!Work, Admission!Depart,
                      Admission!Move, Admission!Places
  <2>3. /\ \A s, q \in At("holding")' : s = q
        /\ Busy' \subseteq At("holding")'
    BY <1>1, <1>3, <2>1 DEF SlotInv, Placed, Busy, Admission!OneAtATime, Admission!Wait,
       Admission!Take, Admission!Work, Admission!Depart, Admission!Move, Admission!Free
  <2>4. Cardinality(At("waiting")') <= MaxPending
    <3>1. CASE Admission!Wait(r)
      <4>1. At("waiting")' = At("waiting") \cup {r} /\ r \notin At("waiting")
        BY <2>1, <3>1 DEF Placed, Admission!Wait, Admission!Move
      <4>2. Cardinality(At("waiting") \cup {r}) = Cardinality(At("waiting")) + 1
        BY <2>1, <4>1, FS_AddElement
      <4>3. Cardinality(At("waiting")) \in Nat /\ Cardinality(At("waiting")) < MaxPending
        BY <1>1, <2>1, <3>1, SameCardinality, FS_CardinalityType DEF Admission!Wait
      <4> QED
        BY <4>1, <4>2, <4>3
    <3>2. CASE ~Admission!Wait(r)
      <4>1. At("waiting")' \subseteq At("waiting")
        BY <1>3, <2>1, <3>2 DEF Placed, Admission!Take, Admission!Work, Admission!Depart,
                                Admission!Move
      <4> QED
        BY <1>1, <2>1, <4>1, SameCardinality, FS_Subset, FS_CardinalityType
          DEF SlotInv, Admission!OneAtATime
    <3> QED
      BY <3>1, <3>2
  <2> QED
    BY <1>1, <2>2, <2>3, <2>4, SameCardinality DEF SlotInv, Busy, Admission!OneAtATime
<1> QED
  BY <1>2, <1>3 DEF Admission!Next, Admission!slotVars, Placed, Busy

\* One holder, an engine that works for nobody else and a bounded queue: what
\* the slot promises holds of the server.
THEOREM OneHolder == Spec => []Admission!OneAtATime
<1>1. IsFiniteSet(Requests) /\ MaxPending \in Nat
  BY EngineAssumption, ServingAssumption
<1>2. Init => SlotInv
  <2>1. ASSUME Init
        PROVE  /\ Admission!At("waiting") = {} /\ Admission!At("holding") = {}
               /\ Busy = {} /\ Placed \in [Requests -> Admission!Places]
    BY <2>1, StartImplements DEF Admission!Init, Admission!At, Admission!Places, Placed, Busy
  <2> QED
    BY <1>1, <2>1, SameCardinality, FS_EmptySet DEF SlotInv, Admission!OneAtATime, Busy
<1>3. IInv /\ IInv' /\ SlotInv /\ [Next]_vars => SlotInv'
  BY <1>1, SlotStep, StepImplements
<1>4. SlotInv => Admission!OneAtATime
  BY DEF SlotInv
<1> QED
  BY <1>2, <1>3, <1>4, Invariance, PTL DEF Spec
=============================================================================
