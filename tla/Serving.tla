------------------------------- MODULE Serving -------------------------------
(***************************************************************************)
(* The HTTP adapter of src/quantlab/server.py around the engine: body      *)
(* upload, the admission gate (_Gate, _acquire), the pull loop that races  *)
(* the engine against disconnect and deadline (_pull, _settle), JSON and   *)
(* SSE responses (_run, _stream_body, _ClosingStreamResponse), request     *)
(* task cancellation and shutdown.                                         *)
(*                                                                         *)
(* asyncio runs one task at a time, so an action is the code between two   *)
(* awaits.  Each request has a main task (pc) and a pull loop (loop): for  *)
(* a JSON response the main task runs the loop itself, for an SSE response *)
(* a stream task does.                                                     *)
(***************************************************************************)
EXTENDS Engine

CONSTANTS
  MaxPending,   \* _Gate.max_pending
  HasDeadline   \* request_timeout is set

ASSUME ServingAssumption == MaxPending \in Nat /\ HasDeadline \in BOOLEAN

VARIABLES
  phase,    \* "serving", "stopping" (graceful timeout over), "stopped"
  pc,       \* per request: where its main task waits
  sse,      \* per request: a streaming response was asked for
  loop,     \* per request: where its pull loop waits
  why,      \* per request: why the pull loop is settling the engine task
  conn,     \* per request: the client's connection is up
  disc,     \* per request: the _watch_disconnect task
  expired,  \* per request: its deadline has passed
  killed,   \* per request: its task was cancelled from outside
  lock,     \* _Gate.lock: its owner, or NoRequest
  waiting   \* _Gate.waiting

serverVars == <<phase, pc, sse, loop, why, conn, disc, expired, killed,
                lock, waiting>>
vars == <<engineVars, serverVars>>

\* Main task.  "gate": at sleep(0) of _acquire; "queue": polling for the lock;
\* "json": inside the pull loop; "respond": waiting for stream, disconnect or
\* deadline; "reap": waiting for the cancelled stream task; "finish": settling
\* the disconnect watcher, after which a lock still held is released.
MainStates == {"idle", "body", "gate", "queue", "json", "respond", "reap",
               "finish", "done"}

\* Pull loop.  "start", "item", "last": a send of the response head, of an
\* item's chunks, of the closing chunks; "wait": asyncio.wait in _pull;
\* "settle": waiting for the cancelled engine task; "end": no longer running.
LoopStates == {"off", "start", "item", "last", "wait", "settle", "end"}

Reasons == {"none", "gone", "timeout", "cancel"}

TypeOK ==
  /\ EngineTypeOK
  /\ phase \in {"serving", "stopping", "stopped"}
  /\ pc \in [Requests -> MainStates]
  /\ sse \in [Requests -> BOOLEAN]
  /\ loop \in [Requests -> LoopStates]
  /\ why \in [Requests -> Reasons]
  /\ conn \in [Requests -> BOOLEAN]
  /\ disc \in [Requests -> {"none", "watch", "gone", "settled"}]
  /\ expired \in [Requests -> BOOLEAN]
  /\ killed \in [Requests -> BOOLEAN]
  /\ lock \in Requests \cup {NoRequest}
  /\ waiting \in Nat

Init ==
  /\ EngineInit
  /\ phase = "serving"
  /\ pc = [r \in Requests |-> "idle"]
  /\ sse = [r \in Requests |-> FALSE]
  /\ loop = [r \in Requests |-> "off"]
  /\ why = [r \in Requests |-> "none"]
  /\ conn = [r \in Requests |-> TRUE]
  /\ disc = [r \in Requests |-> "none"]
  /\ expired = [r \in Requests |-> FALSE]
  /\ killed = [r \in Requests |-> FALSE]
  /\ lock = NoRequest
  /\ waiting = 0

-----------------------------------------------------------------------------
(* The world outside the event loop.                                       *)

Live(r) == pc[r] \notin {"idle", "done"}

Arrive(r) ==
  /\ phase = "serving" /\ pc[r] = "idle"
  /\ pc' = [pc EXCEPT ![r] = "body"]
  /\ \E s \in BOOLEAN : sse' = [sse EXCEPT ![r] = s]
  /\ UNCHANGED <<engineVars, phase, loop, why, conn, disc, expired, killed,
                 lock, waiting>>

Drop(r) ==
  /\ Live(r) /\ conn[r]
  /\ conn' = [conn EXCEPT ![r] = FALSE]
  /\ UNCHANGED <<engineVars, phase, pc, sse, loop, why, disc, expired, killed,
                 lock, waiting>>

Expire(r) ==
  /\ HasDeadline /\ Live(r) /\ ~expired[r]
  /\ expired' = [expired EXCEPT ![r] = TRUE]
  /\ UNCHANGED <<engineVars, phase, pc, sse, loop, why, conn, disc, killed,
                 lock, waiting>>

\* _watch_disconnect receives http.disconnect.
Observe(r) ==
  /\ disc[r] = "watch" /\ ~conn[r]
  /\ disc' = [disc EXCEPT ![r] = "gone"]
  /\ UNCHANGED <<engineVars, phase, pc, sse, loop, why, conn, expired, killed,
                 lock, waiting>>

-----------------------------------------------------------------------------
(* The main task up to the pull loop.                                      *)

Gone(r) == disc[r] = "gone"

\* A mutant: a queued caller's disconnect is not looked at.
AdmissibleUnseen(r) == TRUE
\* _acquire's check around taking the lock.
Admissible(r) == ~Gone(r)

\* A mutant: the bound on waiters is off by one.
FullLate(w) == w > MaxPending
\* _acquire's check of gate.waiting against gate.max_pending.
Full(w) == w >= MaxPending

\* A mutant: the waiter count is given back without having been taken.
DequeueAlways(r) == waiting' = waiting - 1
\* The finally of the queued _acquire.
Dequeue(r) == waiting' = IF pc[r] = "queue" THEN waiting - 1 ELSE waiting

\* Return an answer through the outer finally, which settles the watcher.
Answer(r) == pc' = [pc EXCEPT ![r] = "finish"]

\* The request is over and its per-request state is gone.
Over(r) ==
  /\ pc' = [pc EXCEPT ![r] = "done"]
  /\ sse' = [sse EXCEPT ![r] = FALSE]
  /\ loop' = [loop EXCEPT ![r] = "off"]
  /\ why' = [why EXCEPT ![r] = "none"]
  /\ conn' = [conn EXCEPT ![r] = TRUE]
  /\ disc' = [disc EXCEPT ![r] = "none"]
  /\ expired' = [expired EXCEPT ![r] = FALSE]
  /\ killed' = [killed EXCEPT ![r] = FALSE]

\* _run up to the first await of _acquire: the body is read, parsed and
\* validated, the engine is asked for its health, the watcher is started, and
\* a deadline already passed is answered.
Body(r) ==
  /\ pc[r] = "body" /\ ready
  /\ IF expired[r] THEN Answer(r) ELSE pc' = [pc EXCEPT ![r] = "gate"]
  /\ disc' = [disc EXCEPT ![r] = "watch"]
  /\ UNCHANGED <<engineVars, phase, sse, loop, why, conn, expired, killed, lock,
                 waiting>>

\* 400, 413, 499, 503 or 504 before there is anything to clean up.
Refuse(r) ==
  /\ pc[r] = "body"
  /\ Over(r)
  /\ UNCHANGED <<engineVars, phase, lock, waiting>>

\* The lock was free: take it and go on to the next await.  Health is checked
\* again, prepare() may refuse, and an SSE response hands the pull loop to a
\* stream task while a JSON response starts pulling (or is already too late).
Admit(r) ==
  /\ lock = NoRequest
  /\ \/ /\ Answer(r)
        /\ lock' = r
        /\ UNCHANGED <<engineVars, loop>>
     \/ /\ ready /\ sse[r]
        /\ lock' = r
        /\ Generate(r, FALSE)
        /\ pc' = [pc EXCEPT ![r] = "respond"]
        /\ loop' = [loop EXCEPT ![r] = "start"]
     \/ /\ ready /\ ~sse[r] /\ ~expired[r]
        /\ lock' = r
        /\ Generate(r, TRUE)
        /\ pc' = [pc EXCEPT ![r] = "json"]
        /\ loop' = [loop EXCEPT ![r] = "wait"]
     \/ /\ ready /\ ~sse[r] /\ expired[r]
        /\ gen' = [gen EXCEPT ![r] = "closed"]
        /\ Answer(r)
        /\ UNCHANGED <<ready, active, persistent, users, job, count, stage, anext,
                       lock, loop>>

\* _acquire after its sleep(0).
Gate(r) ==
  /\ pc[r] = "gate"
  /\ \/ /\ Admissible(r) /\ Admit(r)
        /\ UNCHANGED waiting
     \/ /\ Gone(r) \/ (lock # NoRequest /\ (Full(waiting) \/ expired[r]))
        /\ Answer(r)
        /\ UNCHANGED <<engineVars, loop, lock, waiting>>
     \/ /\ ~Gone(r) /\ lock # NoRequest /\ ~Full(waiting) /\ ~expired[r]
        /\ waiting' = waiting + 1
        /\ pc' = [pc EXCEPT ![r] = "queue"]
        /\ UNCHANGED <<engineVars, loop, lock>>
  /\ UNCHANGED <<phase, sse, why, conn, disc, expired, killed>>

\* One poll of the queued _acquire; a poll that finds nothing sleeps again.
Poll(r) ==
  /\ pc[r] = "queue"
  /\ \/ Admissible(r) /\ ~expired[r] /\ Admit(r)
     \/ /\ Gone(r) \/ expired[r]
        /\ Answer(r)
        /\ UNCHANGED <<engineVars, loop, lock>>
  /\ Dequeue(r)
  /\ UNCHANGED <<phase, sse, why, conn, disc, expired, killed>>

-----------------------------------------------------------------------------
(* The pull loop: _pull, run by the main task or by the stream task.       *)

SetLoop(r, l, w) ==
  /\ loop' = [loop EXCEPT ![r] = l]
  /\ why' = [why EXCEPT ![r] = w]

\* The finally of a JSON response: close the iterator, release the lock.
JsonExit(r) ==
  /\ Aclose(r)
  /\ Answer(r)
  /\ lock' = NoRequest
  /\ SetLoop(r, "end", "none")

\* _pull is over, with a final item, without one, or by an exception.  A
\* stream sends its closing chunks, unless it was cancelled.
Leave(r) ==
  IF sse[r]
    THEN /\ SetLoop(r, IF why[r] = "cancel" THEN "end" ELSE "last", "none")
         /\ UNCHANGED <<engineVars, pc, lock>>
    ELSE JsonExit(r)

\* The next call of _pull, up to its asyncio.wait.
Pull(r) ==
  IF Gone(r) \/ expired[r] THEN Leave(r)
  ELSE /\ Anext(r)
       /\ SetLoop(r, "wait", "none")
       /\ UNCHANGED <<pc, lock>>

\* An awaited send of the stream task completes.
Send(r) ==
  /\ loop[r] \in {"start", "item", "last"}
  /\ \/ /\ loop[r] = "start" /\ ~Gone(r) /\ ~expired[r]
        /\ SetLoop(r, "item", "none")
        /\ UNCHANGED <<engineVars, pc, lock>>
     \/ loop[r] \in {"start", "item"} /\ Pull(r)
     \/ /\ loop[r] = "last"
        /\ SetLoop(r, "end", "none")
        /\ UNCHANGED <<engineVars, pc, lock>>
  /\ UNCHANGED <<phase, sse, conn, disc, expired, killed, waiting>>

\* A send on a lost connection raises OSError and ends the stream task.
SendFails(r) ==
  /\ loop[r] \in {"start", "item", "last"} /\ ~conn[r]
  /\ SetLoop(r, "end", "none")
  /\ UNCHANGED <<engineVars, phase, pc, sse, conn, disc, expired, killed,
                 lock, waiting>>

\* What the finished __anext__ task delivered.
Deliver(r) ==
  \/ /\ anext[r] = "item" /\ sse[r]
     /\ SetLoop(r, "item", "none")
     /\ UNCHANGED <<engineVars, pc, lock>>
  \/ anext[r] = "item" /\ Pull(r)
  \/ anext[r] # "item" /\ Leave(r)

\* A mutant: a pull is raced against the deadline only.
OvertakenByTime(r) == expired[r]
\* What ends a pull whose item is not there yet.
Overtaken(r) == Gone(r) \/ expired[r]

\* asyncio.wait of _pull returns: disconnect first, then deadline, then item.
Wake(r) ==
  /\ loop[r] = "wait"
  /\ \/ /\ anext[r] = "pending" /\ Overtaken(r)
        /\ SetLoop(r, "settle", IF Gone(r) THEN "gone" ELSE "timeout")
        /\ UNCHANGED <<engineVars, pc, lock>>
     \/ anext[r] # "pending" /\ Gone(r) /\ Leave(r)
     \/ anext[r] # "pending" /\ ~Gone(r) /\ Deliver(r)
  /\ UNCHANGED <<phase, sse, conn, disc, expired, killed, waiting>>

\* The cancellation reaches the engine's __anext__ task.
Cancelled(r) ==
  /\ loop[r] = "settle" /\ Interrupt(r)
  /\ UNCHANGED serverVars

\* _settle is over: _pull returns its reason, or re-raises its cancellation.
Settled(r) ==
  /\ loop[r] = "settle" /\ anext[r] # "pending"
  /\ Leave(r)
  /\ UNCHANGED <<phase, sse, conn, disc, expired, killed, waiting>>

-----------------------------------------------------------------------------
(* The main task of an SSE response, and the outer finally of every one.   *)

\* A mutant: a cancelled pull abandons the engine task it waits for.
StopLoopUnsettled(r) ==
  IF loop[r] \in {"start", "item", "last", "wait"}
    THEN SetLoop(r, "end", "none")
    ELSE UNCHANGED <<loop, why>>

\* cancel() reaches the stream task.  _settle swallows a cancellation that
\* arrives while it awaits the engine task.
StopLoop(r) ==
  CASE loop[r] \in {"start", "item", "last"} -> SetLoop(r, "end", "none")
    [] loop[r] = "wait"                      -> SetLoop(r, "settle", "cancel")
    [] OTHER                                 -> UNCHANGED <<loop, why>>

\* A mutant: the response goes on to its last finally without reaping.
RespondEarly(r) ==
  /\ pc[r] = "respond"
  /\ loop[r] = "end" \/ Gone(r) \/ expired[r]
  /\ StopLoop(r)
  /\ pc' = [pc EXCEPT ![r] = "finish"]
  /\ UNCHANGED <<engineVars, phase, sse, conn, disc, expired, killed, lock,
                 waiting>>

\* _ClosingStreamResponse: the stream ended, the client left, or time is up.
Respond(r) ==
  /\ pc[r] = "respond"
  /\ loop[r] = "end" \/ Gone(r) \/ expired[r]
  /\ StopLoop(r)
  /\ pc' = [pc EXCEPT ![r] = "reap"]
  /\ UNCHANGED <<engineVars, phase, sse, conn, disc, expired, killed, lock,
                 waiting>>

\* A mutant: the response does not close the engine's generator.
ReapUnclosed(r) ==
  /\ pc[r] = "reap" /\ loop[r] = "end"
  /\ pc' = [pc EXCEPT ![r] = "finish"]
  /\ UNCHANGED <<engineVars, phase, sse, loop, why, conn, disc, expired,
                 killed, lock, waiting>>

\* _ClosingStreamResponse's finally up to its wait for the watcher.
Reap(r) ==
  /\ pc[r] = "reap" /\ loop[r] = "end"
  /\ Aclose(r)
  /\ pc' = [pc EXCEPT ![r] = "finish"]
  /\ UNCHANGED <<phase, sse, loop, why, conn, disc, expired, killed, lock,
                 waiting>>

\* A mutant: a request refused after its admission keeps the lock.
FinishHolding(r) ==
  /\ pc[r] = "finish"
  /\ Over(r)
  /\ lock' = IF lock = r /\ gen[r] # "none" THEN NoRequest ELSE lock
  /\ UNCHANGED <<engineVars, phase, waiting>>

\* The watcher is settled; release the lock unless a JSON exit already did.
Finish(r) ==
  /\ pc[r] = "finish"
  /\ Over(r)
  /\ lock' = IF lock = r THEN NoRequest ELSE lock
  /\ UNCHANGED <<engineVars, phase, waiting>>

-----------------------------------------------------------------------------
(* Shutdown: uvicorn stops accepting, after its graceful timeout cancels   *)
(* the request tasks, and runs the lifespan's engine.shutdown().           *)

Kill(r) ==
  /\ phase # "serving" /\ ~killed[r]
  /\ \/ pc[r] = "body" /\ Over(r) /\ UNCHANGED waiting
     \/ /\ pc[r] \in {"gate", "queue"}
        /\ Answer(r)
        /\ Dequeue(r)
        /\ killed' = [killed EXCEPT ![r] = TRUE]
        /\ UNCHANGED <<sse, loop, why, conn, disc, expired>>
     \/ /\ pc[r] \in {"json", "respond", "reap", "finish"}
        /\ pc' = [pc EXCEPT ![r] = IF @ = "respond" THEN "reap" ELSE @]
        /\ StopLoop(r)
        /\ killed' = [killed EXCEPT ![r] = TRUE]
        /\ UNCHANGED <<sse, conn, disc, expired, waiting>>
  /\ UNCHANGED <<engineVars, phase, lock>>

Stop ==
  /\ phase = "serving" /\ phase' = "stopping"
  /\ UNCHANGED <<engineVars, pc, sse, loop, why, conn, disc, expired, killed,
                 lock, waiting>>

Halt ==
  /\ phase = "stopping" /\ \A r \in Requests : Live(r) => killed[r]
  /\ phase' = "stopped"
  /\ EngineShutdown
  /\ UNCHANGED <<pc, sse, loop, why, conn, disc, expired, killed, lock, waiting>>

\* The process is over.
Terminated ==
  /\ phase = "stopped" /\ \A r \in Requests : ~Live(r)
  /\ UNCHANGED vars

\* The engine's own step, while an __anext__ task of r runs undisturbed.
Advance(r) ==
  /\ loop[r] # "settle" /\ EngineStep(r)
  /\ UNCHANGED serverVars

Client(r) == Arrive(r) \/ Drop(r)
Task(r) ==
  \/ Observe(r) \/ Body(r) \/ Refuse(r) \/ Gate(r) \/ Poll(r) \/ Send(r)
  \/ SendFails(r) \/ Wake(r) \/ Cancelled(r) \/ Settled(r) \/ Respond(r)
  \/ Reap(r) \/ Finish(r) \/ Advance(r)

Next ==
  \/ \E r \in Requests : Client(r) \/ Expire(r) \/ Task(r) \/ Kill(r)
  \/ Stop \/ Halt \/ Terminated

Spec == Init /\ [][Next]_vars

-----------------------------------------------------------------------------
(* Safety.                                                                 *)

Running(r) == gen[r] \in {"parked", "yield"}

\* The engine runs for the lock's owner alone, its activity flag says so, and
\* no generate() entered undisturbed raises "Engine unavailable or concurrent
\* generation attempted".
EngineExclusive ==
  /\ \A r \in Requests : Running(r) => lock = r
  /\ \A r \in Requests : gen[r] = "fresh" /\ anext[r] = "pending"
                            /\ loop[r] # "settle" => ready /\ ~active
  /\ active <=> \E r \in Requests : Running(r)

\* On every path out of a request (answer, disconnect, deadline, send failure,
\* task cancellation, failing cleanup) the lock, the engine's generator, its
\* __anext__ task and the disconnect watcher are given back.
NothingLeaks ==
  \A r \in Requests : ~Live(r) =>
    /\ lock # r
    /\ gen[r] \in {"none", "closed"}
    /\ anext[r] # "pending"
    /\ disc[r] # "watch"

\* waiting counts exactly the queued requests and respects the bound.
QueueBound ==
  /\ waiting = Cardinality({r \in Requests : pc[r] = "queue"})
  /\ waiting <= MaxPending

\* A persistent generator that may be reused holds no job of an earlier
\* request, and every earlier request on it finished its response.
ReuseIsClean ==
  persistent /\ ready =>
    /\ \A u \in users : Running(u) \/ (gen[u] = "closed" /\ stage[u] = "final")
    /\ ~active => job = NoRequest

\* The /health counters of an idle healthy engine account for every started
\* request, except one abandoned after its EOS event and before completion
\* was counted: it is neither completed nor cancelled.
HealthCounters ==
  ready /\ ~active =>
    /\ count["failed"] = 0
    /\ count["started"] = count["completed"] + count["cancelled"]
         + Cardinality({r \in Requests : gen[r] = "closed" /\ stage[r] \in {"eos", "flush"}})

\* A caller seen to be gone before admission never gets an engine generator.
GoneNeverGenerates ==
  [][\A r \in Requests : Gone(r) /\ gen[r] = "none" => gen'[r] = "none"]_vars

\* The engine fails closed: a failure takes the health flag down, a flag that
\* is down stays down, and from then on no generation starts.
FailsClosed ==
  [][/\ count'["failed"] # count["failed"] => ~ready'
     /\ ~ready => ~ready' /\ count'["started"] = count["started"]]_vars

-----------------------------------------------------------------------------
(* The abstract specification.                                             *)

Place(r) ==
  IF lock = r THEN "holding"
  ELSE IF pc[r] = "queue" THEN "waiting"
  ELSE IF pc[r] \in {"idle", "body", "gate"} THEN "outside"
  ELSE "over"

Admission == INSTANCE Slot WITH place <- [r \in Requests |-> Place(r)],
                                busy <- {r \in Requests : Running(r)}

\* Gate, pull loop, responses and cleanup together implement a bounded queue in
\* front of one slot, given up only when the engine works for its holder no
\* longer.
ImplementsSlot == Admission!Spec

-----------------------------------------------------------------------------
(* Liveness.                                                               *)

\* The event loop runs every task that can run, and a send to a lost
\* connection returns.  Nothing is assumed about clients: they may never read
\* what they are sent, and never leave.
EventLoop ==
  \A r \in Requests :
    /\ WF_vars(Observe(r)) /\ WF_vars(Gate(r)) /\ WF_vars(Poll(r))
    /\ WF_vars(Wake(r)) /\ WF_vars(Cancelled(r)) /\ WF_vars(Settled(r))
    /\ WF_vars(Respond(r)) /\ WF_vars(Reap(r)) /\ WF_vars(Finish(r))
    /\ WF_vars(~conn[r] /\ Send(r))

\* The engine's task runs, too.  Decoding and image work are bounded by
\* max_new_tokens and by the number of images, so a generator that keeps being
\* resumed leaves its stage in the end.
BoundedWork ==
  \A r \in Requests :
    WF_vars(Advance(r)) /\ SF_vars(Advance(r) /\ stage'[r] # stage[r])

FairSpec == Spec /\ EventLoop

\* A disconnect releases the slot even with deadlines off, a client that never
\* reads and decoding that never ends.
DisconnectReleases ==
  \A r \in Requests : (lock = r /\ ~conn[r]) ~> lock # r

\* With bounded work, and if every client reads what it is sent (or leaves),
\* every request that reaches the gate is answered and over.
EveryoneAnswered ==
  BoundedWork /\ (\A r \in Requests : WF_vars(Send(r)))
    => \A r \in Requests : pc[r] = "gate" ~> pc[r] = "done"

\* A request deadline covers streaming: past it the slot is released.
DeadlineReleases ==
  \A r \in Requests : (lock = r /\ expired[r]) ~> lock # r
=============================================================================
