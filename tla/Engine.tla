------------------------------- MODULE Engine -------------------------------
(***************************************************************************)
(* The resident inference engine of scripts/serve_exl3.py: its health      *)
(* flag, its activity flag, the optional persistent generator of           *)
(* --prefix-cache, its counters, and one asynchronous generator per        *)
(* request (Engine.generate).                                              *)
(*                                                                         *)
(* generate() is an async generator driven by one __anext__ task at a      *)
(* time.  An action below is the code one event-loop step runs: from where *)
(* the generator is suspended to its next await or yield.  The GPU work,   *)
(* tokens and texts are abstracted to the control flow they decide.        *)
(***************************************************************************)
EXTENDS Naturals, FiniteSets

CONSTANTS
  Requests,     \* the requests that may reach the server
  PrefixCache,  \* --prefix-cache on: one persistent generator is reused
  NoRequest     \* not a request

ASSUME EngineAssumption ==
  /\ IsFiniteSet(Requests)
  /\ NoRequest \notin Requests
  /\ PrefixCache \in BOOLEAN

VARIABLES
  ready,     \* Engine.ready
  active,    \* Engine.active
  persistent,\* Engine._prefix_gen is set
  users,     \* history: requests that ran on the current persistent generator
  job,       \* request whose job is queued in a generator, or NoRequest
  count,     \* started / completed / cancelled / failed / invalid counters
  gen,       \* per request: where its async generator is suspended
  stage,     \* per request: how far the body of generate() has come
  anext      \* per request: the __anext__ task and its outcome

engineVars == <<ready, active, persistent, users, job, count, gen, stage, anext>>

\* "fresh": created, body not entered; "parked": at an await inside a running
\* __anext__; "yield": suspended at a yield; "closed": body finished.
GenStates == {"none", "fresh", "parked", "yield", "closed"}

\* "image": embedding images, no generator yet; "loop": decoding; "eos": the
\* EOS event was seen; "flush": reasoning tail yielded; "counted": completed
\* was incremented; "tools": tool calls yielded; "final": last item yielded.
Stages == {"new", "image", "loop", "eos", "flush", "counted", "tools", "final"}

\* Outcomes of an __anext__ call; "pending" while its task runs.
Outcomes == {"none", "pending", "item", "final", "error", "protocol", "cancelled"}

Counters == {"started", "completed", "cancelled", "failed", "invalid"}

EngineTypeOK ==
  /\ ready \in BOOLEAN /\ active \in BOOLEAN /\ persistent \in BOOLEAN
  /\ users \in SUBSET Requests
  /\ job \in Requests \cup {NoRequest}
  /\ count \in [Counters -> Nat]
  /\ gen \in [Requests -> GenStates]
  /\ stage \in [Requests -> Stages]
  /\ anext \in [Requests -> Outcomes]

EngineInit ==
  /\ ready = TRUE /\ active = FALSE /\ persistent = FALSE
  /\ users = {} /\ job = NoRequest
  /\ count = [c \in Counters |-> 0]
  /\ gen = [r \in Requests |-> "none"]
  /\ stage = [r \in Requests |-> "new"]
  /\ anext = [r \in Requests |-> "none"]

\* generate()'s local `done`: the EOS event has been seen.
Done(s) == s \in {"eos", "flush", "counted", "tools", "final"}

\* A Generator object exists once the image stage is over.
Built(s) == s = "loop" \/ Done(s)

Bump(c, k) == [c EXCEPT ![k] = @ + 1]

-----------------------------------------------------------------------------
(* The finally block of generate(), entered at stage s with the counters c *)
(* and the health flag `up` that the except clause left.  clear_queue runs *)
(* only on a healthy engine and may raise; the awaiting caller receives    *)
(* `result`, or the exception of clear_queue.  The persistent generator    *)
(* survives only a response that was finished and swept cleanly.  A health *)
(* flag already down means shutdown closed the event log: record() raises. *)

\* A mutant: every interrupted or failed response counts as cancelled.
CancelledAlways(s, up) == up
\* The response ended without an EOS event on an engine still healthy.
CountsCancelled(s, up) == ~Done(s) /\ up

\* A mutant: a clean sweep is enough to keep the persistent generator.
KeptIfSwept(s, swept) == swept
\* The persistent generator is kept: response_finished and cleanup_ok.
Kept(s, swept) == s = "final" /\ swept

Unwind(r, s, c, up, result) ==
  \E clean \in BOOLEAN :
    LET sweep == up /\ Built(s)
        swept == sweep /\ clean
        broke == sweep /\ ~clean
        c2    == IF broke THEN Bump(c, "failed") ELSE c
    IN /\ clean \/ sweep
       /\ ready' = (up /\ ~broke)
       /\ count' = IF CountsCancelled(s, ready') THEN Bump(c2, "cancelled") ELSE c2
       /\ persistent' = (persistent /\ (Built(s) => Kept(s, swept)))
       /\ users' = IF persistent' THEN users ELSE {}
       /\ job' = IF swept \/ ~persistent' THEN NoRequest ELSE job
       /\ active' = FALSE
       /\ gen' = [gen EXCEPT ![r] = "closed"]
       /\ stage' = [stage EXCEPT ![r] = s]
       /\ anext' = [anext EXCEPT ![r] = IF broke \/ ~ready THEN "error" ELSE result]

\* A mutant: a failed generation leaves the health flag up.
FailOpen(r, s, c) == Unwind(r, s, Bump(c, "failed"), ready, "error")
\* except Exception: a GPU error can poison native state, so fail closed.
Fail(r, s, c) == Unwind(r, s, Bump(c, "failed"), FALSE, "error")

-----------------------------------------------------------------------------
(* One step of the __anext__ task.                                         *)

\* The task ends with an item at a yield, or stays suspended at an await.
Suspend(r, s, where, result) ==
  /\ gen' = [gen EXCEPT ![r] = where]
  /\ stage' = [stage EXCEPT ![r] = s]
  /\ anext' = [anext EXCEPT ![r] = result]

Item(r, s) == Suspend(r, s, "yield", "item")
Park(r, s) == Suspend(r, s, "parked", "pending")

\* The events of one gen.iterate(): text is yielded, or the batch ends at
\* sleep(0).  The job leaves the generator's queue at EOS.
Batch(r, c, j) ==
  \/ /\ \E s \in {"loop", "eos"} : Item(r, s) \/ Park(r, s)
     /\ job' = IF stage'[r] = "eos" THEN NoRequest ELSE j
     /\ count' = c /\ active' = TRUE
     /\ persistent' = (persistent \/ (PrefixCache /\ j = r /\ ready))
     /\ users' = IF persistent' THEN users \cup {r} ELSE {}
     /\ UNCHANGED ready
  \/ Fail(r, "loop", c)

\* Either image work keeps the event loop's turn short, or the generator is
\* built or reused, the job is enqueued and the first iteration runs.
Embed(r, c) ==
  \/ /\ Park(r, "image")
     /\ count' = c /\ active' = TRUE
     /\ UNCHANGED <<ready, persistent, users, job>>
  \/ Fail(r, "image", c)
  \/ Batch(r, c, r)

\* The decode loop is over: count the completion, parse tool calls, finish.
Complete(r) ==
  LET c == Bump(count, "completed") IN
  \/ /\ Item(r, "tools") \/ Suspend(r, "final", "yield", "final")
     /\ count' = c
     /\ UNCHANGED <<ready, active, persistent, users, job>>
  \/ Unwind(r, "counted", Bump(c, "invalid"), ready, "protocol")
  \/ Fail(r, "counted", c)

Begin(r) ==
  /\ gen[r] = "fresh" /\ anext[r] = "pending"
  /\ \/ /\ active \/ ~ready
        /\ gen' = [gen EXCEPT ![r] = "closed"]
        /\ anext' = [anext EXCEPT ![r] = "error"]
        /\ UNCHANGED <<ready, active, persistent, users, job, count, stage>>
     \/ /\ ~active /\ ready
        /\ Embed(r, Bump(count, "started"))

Resume(r, where, s) == gen[r] = where /\ stage[r] = s /\ anext[r] = "pending"

\* After shutdown the event log is closed and recording the image raises.
EmbedNext(r) ==
  /\ Resume(r, "parked", "image")
  /\ IF ready THEN Embed(r, count) ELSE Fail(r, "image", count)

BatchRest(r)  == Resume(r, "yield", "loop") /\ Batch(r, count, job)
Iterate(r)    == Resume(r, "parked", "loop") /\ job = r /\ Batch(r, count, r)
Starved(r)    == Resume(r, "parked", "loop") /\ job # r /\ Fail(r, "loop", count)

BatchOver(r) ==
  /\ Resume(r, "yield", "eos")
  /\ Park(r, "eos")
  /\ UNCHANGED <<ready, active, persistent, users, job, count>>

LoopOver(r) ==
  /\ Resume(r, "parked", "eos")
  /\ \/ /\ Item(r, "flush")
        /\ UNCHANGED <<ready, active, persistent, users, job, count>>
     \/ Complete(r)

Flushed(r) == Resume(r, "yield", "flush") /\ Complete(r)

ToolsSent(r) ==
  /\ Resume(r, "yield", "tools")
  /\ Suspend(r, "final", "yield", "final")
  /\ UNCHANGED <<ready, active, persistent, users, job, count>>

EngineStep(r) ==
  \/ Begin(r) \/ EmbedNext(r) \/ BatchRest(r) \/ Iterate(r) \/ Starved(r)
  \/ BatchOver(r) \/ LoopOver(r) \/ Flushed(r) \/ ToolsSent(r)

-----------------------------------------------------------------------------
(* What the server does to a request's async generator.                    *)

\* prepare() accepted the request and generate() returned its generator, on
\* which the first __anext__ is called at once (run) or later.
Generate(r, run) ==
  /\ gen' = [gen EXCEPT ![r] = "fresh"]
  /\ anext' = [anext EXCEPT ![r] = IF run THEN "pending" ELSE "none"]
  /\ UNCHANGED <<ready, active, persistent, users, job, count, stage>>

\* create_task(gen.__anext__()): asks for the next item.
Anext(r) ==
  /\ anext' = [anext EXCEPT ![r] = "pending"]
  /\ UNCHANGED <<ready, active, persistent, users, job, count, gen, stage>>

\* task.cancel() reaches the __anext__ task: CancelledError is thrown where
\* the generator stands.  A body that was never entered just closes.
Interrupt(r) ==
  /\ anext[r] = "pending"
  /\ \/ /\ gen[r] = "fresh"
        /\ gen' = [gen EXCEPT ![r] = "closed"]
        /\ anext' = [anext EXCEPT ![r] = "cancelled"]
        /\ UNCHANGED <<ready, active, persistent, users, job, count, stage>>
     \/ /\ gen[r] \in {"parked", "yield"}
        /\ Unwind(r, stage[r], count, ready, "cancelled")

\* gen.aclose().  On a running generator it raises and closes nothing.
Aclose(r) ==
  \/ /\ gen[r] = "yield" /\ anext[r] # "pending"
     /\ Unwind(r, stage[r], count, ready, anext[r])
  \/ /\ gen[r] = "fresh" /\ anext[r] # "pending"
     /\ gen' = [gen EXCEPT ![r] = "closed"]
     /\ UNCHANGED <<ready, active, persistent, users, job, count, stage, anext>>
  \/ /\ gen[r] = "closed" \/ anext[r] = "pending"
     /\ UNCHANGED engineVars

\* Engine.shutdown: drop the persistent generator with its queue, and refuse
\* every later generation.
EngineShutdown ==
  /\ ready' = FALSE /\ persistent' = FALSE /\ users' = {}
  /\ job' = IF persistent THEN NoRequest ELSE job
  /\ UNCHANGED <<active, count, gen, stage, anext>>
=============================================================================
