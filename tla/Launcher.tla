------------------------------ MODULE Launcher ------------------------------
(***************************************************************************)
(* scripts/launch_runtime.py and scripts/exl3_resources.py: launchers that *)
(* share one GPU lease file, each with a worker that spawns, monitors and  *)
(* ends one model process.  On Linux the launcher runs the worker itself;  *)
(* on Windows it is a parent that monitors the adapter and talks to a      *)
(* worker in WSL through files of the run directory.                       *)
(***************************************************************************)
EXTENDS Limits

CONSTANTS
  Launchers, NoLauncher,
  OnWindows,    \* the launchers with os.name == 'nt'
  InterruptAt,  \* states of a launcher or worker at which Ctrl+C may arrive
  MayFail,      \* the launchers whose worker's monitor may raise
  MayKill,      \* a launcher may be killed
  Saved,        \* the limits in request.json
  Adapters, Target,  \* what DXGI enumerates, and --telemetry-gpu
  MayHang       \* a model process may outlive every wait after SIGKILL

ASSUME LauncherAssumption ==
  /\ NoLauncher \notin Launchers /\ OnWindows \cup MayFail \subseteq Launchers
  /\ MayKill \in BOOLEAN /\ MayHang \in BOOLEAN

VARIABLES
  serve,    \* per launcher: mode == 'serve'
  lease,    \* the lease file: the launcher whose nonce it holds
  pc,       \* per launcher: where main() is
  wk,       \* per launcher: where its worker is
  child,    \* per launcher: its model process
  code,     \* per launcher: exit status of that process
  reason,   \* per launcher: worker's reason
  error,    \* per launcher: worker's error is set
  stop,     \* per launcher: the stop file, and who created it
  guard,    \* per launcher: external-stop.json exists
  shut,     \* per launcher: result/shutdown.json confirms a clean shutdown
  exit,     \* per launcher: exit status of the worker, then of the launcher
  limited   \* per launcher: history, a limit is why the process was ended

vars == <<serve, lease, pc, wk, child, code, reason, error, stop,
          guard, shut, exit, limited>>

\* "touch": external-stop.json written, stop not yet; "stopwait": the wait of
\* the interrupt handler; "finalwait": the wait of the finally block.
MainStates == {"idle", "refused", "monitor", "touch", "stopwait", "finalwait",
               "closing", "failing", "done", "dead"}

\* "spawn": before Popen; "start": before the try block; "term", "kill": the
\* two waits of terminate_group in the loop; "lastterm", "lastkill": those of
\* the finally block; "escaped": an exception left worker().
WorkerStates == {"none", "spawn", "start", "poll", "term", "kill", "lastterm",
                 "lastkill", "record", "exited", "escaped", "killed"}

\* "limit": timeout (not for a server), group_rss, wsl_available_ram,
\* artifact_disk, or monitor_error.
Reasons == {"none", "external_stop", "limit"}

\* "stopping": SIGTERM sent; "doomed": SIGKILL sent.
ChildStates == {"none", "running", "stopping", "doomed", "dead"}

TypeOK ==
  /\ serve \in [Launchers -> BOOLEAN]
  /\ lease \in Launchers \cup {NoLauncher}
  /\ pc \in [Launchers -> MainStates] /\ wk \in [Launchers -> WorkerStates]
  /\ child \in [Launchers -> ChildStates]
  /\ code \in [Launchers -> {"none", "zero", "term", "other"}]
  /\ reason \in [Launchers -> Reasons]
  /\ error \in [Launchers -> BOOLEAN]
  /\ stop \in [Launchers -> {"none", "user", "guard"}]
  /\ guard \in [Launchers -> BOOLEAN]
  /\ shut \in [Launchers -> BOOLEAN]
  /\ exit \in [Launchers -> {"none", "zero", "bad"}]
  /\ limited \in [Launchers -> BOOLEAN]

Init ==
  /\ serve \in [Launchers -> BOOLEAN]
  /\ lease = NoLauncher
  /\ pc = [l \in Launchers |-> "idle"] /\ wk = [l \in Launchers |-> "none"]
  /\ child = [l \in Launchers |-> "none"] /\ code = [l \in Launchers |-> "none"]
  /\ reason = [l \in Launchers |-> "none"] /\ error = [l \in Launchers |-> FALSE]
  /\ stop = [l \in Launchers |-> "none"] /\ guard = [l \in Launchers |-> FALSE]
  /\ shut = [l \in Launchers |-> FALSE]
  /\ exit = [l \in Launchers |-> "none"]
  /\ limited = [l \in Launchers |-> FALSE]

ChildAlive(l) == child[l] \in {"running", "stopping", "doomed"}
WorkerOver(l) == wk[l] \in {"exited", "escaped", "killed"}

-----------------------------------------------------------------------------
(* The lease.                                                              *)

\* open('x'): taken, or FileExistsError ends the launcher.
Acquire(l) ==
  /\ pc[l] = "idle"
  /\ IF lease = NoLauncher
       THEN /\ lease' = l
            /\ pc' = [pc EXCEPT ![l] = "monitor"]
            /\ wk' = [wk EXCEPT ![l] = "spawn"]
       ELSE /\ pc' = [pc EXCEPT ![l] = "refused"]
            /\ UNCHANGED <<lease, wk>>
  /\ UNCHANGED <<serve, limited, child, code, reason, error, stop, guard, shut, exit>>

\* The lease is removed only by the launcher whose nonce it holds.
AfterRelease(l) == IF lease = l THEN NoLauncher ELSE lease

\* telemetry.stop() and its files, then the lease; "closing": the exit status
\* of the worker is known, "failing": an exception is on its way out.
Close(l) ==
  /\ pc[l] \in {"closing", "failing"}
  /\ lease' = AfterRelease(l)
  /\ exit' = [exit EXCEPT ![l] = IF pc[l] = "failing" THEN "bad" ELSE @]
  /\ pc' = [pc EXCEPT ![l] = "done"]
  /\ UNCHANGED <<serve, limited, wk, child, code, reason, error, stop, guard,
                 shut>>

\* The operator removes the lease of a dead launcher once nothing is left of it.
ClearStale(l) ==
  /\ lease = l /\ pc[l] = "dead" /\ WorkerOver(l) /\ ~ChildAlive(l)
  /\ lease' = NoLauncher
  /\ UNCHANGED <<serve, limited, pc, wk, child, code, reason, error, stop,
                 guard, shut, exit>>

-----------------------------------------------------------------------------
(* The model process.                                                      *)

\* It ends by itself; a server that ends may have written shutdown.json.
ChildEnds(l) ==
  /\ child[l] = "running"
  /\ child' = [child EXCEPT ![l] = "dead"]
  /\ \E c \in {"zero", "other"} : code' = [code EXCEPT ![l] = c]
  /\ \E s \in {FALSE, serve[l]} : shut' = [shut EXCEPT ![l] = s]
  /\ UNCHANGED <<serve, limited, lease, pc, wk, reason, error, stop, guard, exit>>

\* lifespan: on its way out of SIGTERM the server writes shutdown.json, here
\* one that says not ready, idle, no failure and a single load.
ChildShutdown(l) ==
  /\ serve[l] /\ child[l] = "stopping" /\ ~shut[l]
  /\ shut' = [shut EXCEPT ![l] = TRUE]
  /\ UNCHANGED <<serve, limited, lease, pc, wk, child, code, reason, error,
                 stop, guard, exit>>

\* After SIGTERM it dies of it, or it was just finishing.
ChildStops(l) ==
  /\ child[l] = "stopping"
  /\ child' = [child EXCEPT ![l] = "dead"]
  /\ \E c \in {"zero", "other", "term"} : code' = [code EXCEPT ![l] = c]
  /\ UNCHANGED <<serve, limited, lease, pc, wk, reason, error, stop, guard,
                 shut, exit>>

ChildKilled(l) ==
  /\ child[l] = "doomed"
  /\ child' = [child EXCEPT ![l] = "dead"]
  /\ code' = [code EXCEPT ![l] = "other"]
  /\ UNCHANGED <<serve, limited, lease, pc, wk, reason, error, stop, guard,
                 shut, exit>>

-----------------------------------------------------------------------------
(* worker().                                                               *)

\* Popen; it may fail before there is a process.
Spawn(l) ==
  /\ wk[l] = "spawn"
  /\ \/ /\ child' = [child EXCEPT ![l] = "running"]
        /\ wk' = [wk EXCEPT ![l] = "start"]
        /\ UNCHANGED exit
     \/ /\ wk' = [wk EXCEPT ![l] = "escaped"]
        /\ exit' = [exit EXCEPT ![l] = "bad"]
        /\ UNCHANGED child
  /\ UNCHANGED <<serve, limited, lease, pc, code, reason, error, stop, guard,
                 shut>>

\* child.json is written; the try block begins.
Started(l) ==
  /\ wk[l] = "start"
  /\ wk' = [wk EXCEPT ![l] = "poll"]
  /\ UNCHANGED <<serve, limited, lease, pc, child, code, reason, error, stop,
                 guard, shut, exit>>

\* killpg(SIGTERM); a process that is gone is only reaped.
Signalled(c) == IF c = "running" THEN "stopping" ELSE c

\* A server has no timeout.
Timeout(l) == IF serve[l] THEN unknown ELSE 1

\* What the monitor may find in a round: the stop file comes before any limit.
PollReason(l, m) ==
  IF stop[l] # "none" THEN "external_stop"
  ELSE IF WslBreach(m, wsl_limits(Saved)) THEN "limit" ELSE "none"

\* A round of the monitor that finds something.
Poll(l) ==
  /\ wk[l] = "poll"
  /\ IF ~ChildAlive(l)
       THEN /\ wk' = [wk EXCEPT ![l] = "record"]
            /\ UNCHANGED <<reason, child, limited>>
       ELSE /\ \E m \in Measurements(Timeout(l)) :
                 /\ PollReason(l, m) # "none"
                 /\ reason' = [reason EXCEPT ![l] = PollReason(l, m)]
            /\ limited' = [limited EXCEPT ![l] = stop[l] # "user"]
            /\ child' = [child EXCEPT ![l] = Signalled(@)]
            /\ wk' = [wk EXCEPT ![l] = "term"]
  /\ UNCHANGED <<serve, lease, pc, code, error, stop, guard, shut, exit>>

\* A round raises (/proc or the disk cannot be read): monitor_error, and the
\* finally block ends the process.
PollFails(l) ==
  /\ l \in MayFail /\ wk[l] = "poll"
  /\ reason' = [reason EXCEPT ![l] = "limit"]
  /\ error' = [error EXCEPT ![l] = TRUE]
  /\ child' = [child EXCEPT ![l] = Signalled(@)]
  /\ wk' = [wk EXCEPT ![l] = IF ChildAlive(l) THEN "lastterm" ELSE "record"]
  /\ UNCHANGED <<serve, limited, lease, pc, code, stop, guard, shut, exit>>

\* terminate_group: the process is reaped within a wait.
Reaped(l) ==
  /\ wk[l] \in {"term", "kill", "lastterm", "lastkill"} /\ ~ChildAlive(l)
  /\ wk' = [wk EXCEPT ![l] = "record"]
  /\ UNCHANGED <<serve, limited, lease, pc, child, code, reason, error, stop,
                 guard, shut, exit>>

\* A mutant: terminate_group sends SIGTERM only.
KilledMut(c) == c
Killed(c) == "doomed"

\* The first wait of five seconds expires: SIGKILL.
TermExpires(l) ==
  /\ wk[l] \in {"term", "lastterm"} /\ ChildAlive(l)
  /\ child' = [child EXCEPT ![l] = Killed(@)]
  /\ wk' = [wk EXCEPT ![l] = IF @ = "term" THEN "kill" ELSE "lastkill"]
  /\ UNCHANGED <<serve, limited, lease, pc, code, reason, error, stop, guard,
                 shut, exit>>

\* The second wait expires: the error is kept and the finally block tries
\* again; from there, on a process that hangs, the exception leaves worker().
KillExpires(l) ==
  /\ wk[l] \in {"kill", "lastkill"} /\ ChildAlive(l)
  /\ MayHang \/ wk[l] = "kill"
  /\ IF wk[l] = "kill"
       THEN /\ wk' = [wk EXCEPT ![l] = "lastterm"]
            /\ error' = [error EXCEPT ![l] = TRUE]
            /\ UNCHANGED exit
       ELSE /\ wk' = [wk EXCEPT ![l] = "escaped"]
            /\ exit' = [exit EXCEPT ![l] = "bad"]
            /\ UNCHANGED error
  /\ UNCHANGED <<serve, limited, lease, pc, child, code, reason, stop, guard,
                 shut>>

InterruptReason(l) == IF reason[l] = "none" THEN "external_stop" ELSE reason[l]

\* A mutant: the finally block does not end the process.
AfterInterruptMut(l) == "record"
AfterInterrupt(l) == IF ChildAlive(l) THEN "lastterm" ELSE "record"

\* KeyboardInterrupt in the worker: caught in the try block, whose finally
\* block ends the process; elsewhere it leaves worker().
WorkerInterrupt(l) ==
  /\ wk[l] \in InterruptAt
  /\ IF wk[l] \in {"poll", "term", "kill"}
       THEN /\ reason' = [reason EXCEPT ![l] = InterruptReason(l)]
            /\ child' = [child EXCEPT ![l] = Signalled(@)]
            /\ wk' = [wk EXCEPT ![l] = AfterInterrupt(l)]
            /\ UNCHANGED exit
       ELSE /\ wk[l] \in {"spawn", "start", "lastterm", "lastkill", "record"}
            /\ wk' = [wk EXCEPT ![l] = "escaped"]
            /\ exit' = [exit EXCEPT ![l] = "bad"]
            /\ UNCHANGED <<reason, child>>
  /\ UNCHANGED <<serve, limited, lease, pc, code, error, stop, guard, shut>>

\* A mutant: external-stop.json is not looked at.
CleanStopMut(l) ==
  /\ serve[l] /\ reason[l] = "external_stop" /\ ~error[l]
  /\ code[l] \in {"zero", "term"} /\ shut[l]
\* clean_server_stop
CleanStop(l) ==
  /\ serve[l] /\ reason[l] = "external_stop" /\ ~error[l]
  /\ code[l] \in {"zero", "term"} /\ ~guard[l]
  /\ shut[l]

\* monitor.json and the worker's exit status.
Record(l) ==
  /\ wk[l] = "record"
  /\ exit' = [exit EXCEPT ![l] =
       IF CleanStop(l) \/ (code[l] = "zero" /\ reason[l] = "none")
         THEN "zero" ELSE "bad"]
  /\ wk' = [wk EXCEPT ![l] = "exited"]
  /\ UNCHANGED <<serve, limited, lease, pc, child, code, reason, error, stop,
                 guard, shut>>

-----------------------------------------------------------------------------
(* main() around the worker.                                               *)

Touched(l, who) == IF stop[l] = "none" THEN who ELSE stop[l]

\* The Windows monitor finds a limit reached.
GuardFires(l) ==
  /\ l \in OnWindows /\ pc[l] = "monitor" /\ ~WorkerOver(l)
  /\ LET capacity == Capacity(Adapters, Target) IN
     \E s \in Samples(capacity, Timeout(l)) :
       WindowsBreach(s, wsl_limits(Saved), capacity)
  /\ guard' = [guard EXCEPT ![l] = TRUE]
  /\ pc' = [pc EXCEPT ![l] = "touch"]
  /\ UNCHANGED <<serve, limited, lease, wk, child, code, reason, error, stop,
                 shut, exit>>

GuardStops(l) ==
  /\ pc[l] = "touch"
  /\ stop' = [stop EXCEPT ![l] = Touched(l, "guard")]
  /\ pc' = [pc EXCEPT ![l] = "monitor"]
  /\ UNCHANGED <<serve, limited, lease, wk, child, code, reason, error, guard,
                 shut, exit>>

\* Another process creates the stop file.
StopFile(l) ==
  /\ pc[l] \in {"monitor", "stopwait", "finalwait"} /\ stop[l] = "none"
  /\ stop' = [stop EXCEPT ![l] = "user"]
  /\ UNCHANGED <<serve, limited, lease, pc, wk, child, code, reason, error,
                 guard, shut, exit>>

\* KeyboardInterrupt in the Windows parent.
ParentInterrupt(l) ==
  /\ l \in OnWindows /\ pc[l] \in InterruptAt
  /\ \/ /\ pc[l] \in {"monitor", "touch"}
        /\ stop' = [stop EXCEPT ![l] = Touched(l, "user")]
        /\ pc' = [pc EXCEPT ![l] = "stopwait"]
     \/ /\ pc[l] = "stopwait"
        /\ pc' = [pc EXCEPT ![l] = IF WorkerOver(l) THEN "failing" ELSE "finalwait"]
        /\ UNCHANGED stop
     \/ /\ pc[l] = "finalwait"
        /\ pc' = [pc EXCEPT ![l] = "failing"]
        /\ UNCHANGED stop
  /\ UNCHANGED <<serve, limited, lease, wk, child, code, reason, error, guard,
                 shut, exit>>

\* The worker is over: its status, or on Linux its exception, ends main().
WorkerEnds(l) ==
  /\ pc[l] \in {"monitor", "stopwait", "finalwait"} /\ WorkerOver(l)
  /\ pc' = [pc EXCEPT ![l] =
       IF @ = "finalwait" \/ (l \notin OnWindows /\ wk[l] = "escaped")
         THEN "failing" ELSE "closing"]
  /\ UNCHANGED <<serve, limited, lease, wk, child, code, reason, error, stop,
                 guard, shut, exit>>

\* A wait of twenty seconds expires: the first one on a process that is slow to
\* die, the second one only on one that hangs.
WaitExpires(l) ==
  /\ pc[l] \in {"stopwait", "finalwait"} /\ ~WorkerOver(l)
  /\ MayHang \/ pc[l] = "stopwait"
  /\ pc' = [pc EXCEPT ![l] = IF @ = "stopwait" THEN "finalwait" ELSE "failing"]
  /\ UNCHANGED <<serve, limited, lease, wk, child, code, reason, error, stop,
                 guard, shut, exit>>

\* The launcher is killed: the lease stays, and on Windows the worker goes on.
Kill(l) ==
  /\ MayKill
  /\ pc[l] \in {"monitor", "touch", "stopwait", "finalwait", "closing", "failing"}
  /\ pc' = [pc EXCEPT ![l] = "dead"]
  /\ wk' = [wk EXCEPT ![l] = IF l \in OnWindows \/ WorkerOver(l) THEN @ ELSE "killed"]
  /\ UNCHANGED <<serve, limited, lease, child, code, reason, error, stop, guard,
                 shut, exit>>

-----------------------------------------------------------------------------
Next == \E l \in Launchers :
  \/ Acquire(l) \/ Close(l) \/ ClearStale(l)
  \/ ChildEnds(l) \/ ChildShutdown(l) \/ ChildStops(l) \/ ChildKilled(l)
  \/ Spawn(l) \/ Started(l) \/ Poll(l) \/ PollFails(l) \/ Reaped(l) \/ TermExpires(l)
  \/ KillExpires(l) \/ WorkerInterrupt(l) \/ Record(l)
  \/ GuardFires(l) \/ GuardStops(l) \/ StopFile(l) \/ ParentInterrupt(l)
  \/ WorkerEnds(l) \/ WaitExpires(l) \/ Kill(l)

Spec == Init /\ [][Next]_vars

\* The monitor looks again after a second; what it finds is not fair, except
\* that a stop file stays and an ended process stays ended.
FairPoll(l) == Poll(l) /\ (stop[l] # "none" \/ ~ChildAlive(l))

\* The launchers' own steps and waits; never the world's (Ctrl+C, limits, the
\* end of a process that nobody killed).
FairSpec ==
  /\ Spec
  /\ \A l \in Launchers :
       /\ WF_vars(Spawn(l)) /\ WF_vars(Started(l)) /\ WF_vars(FairPoll(l))
       /\ WF_vars(Reaped(l)) /\ WF_vars(TermExpires(l)) /\ WF_vars(ChildKilled(l))
       /\ WF_vars(Record(l)) /\ WF_vars(GuardStops(l)) /\ WF_vars(WorkerEnds(l))
       /\ WF_vars(Close(l))

-----------------------------------------------------------------------------
(* Properties.                                                             *)

\* A model process runs only while the launcher that started it holds the
\* lease, dead or alive: two launchers never have a model on the GPU together.
LeaseCovers == \A l \in Launchers : ChildAlive(l) => lease = l

\* A process ended by a limit is a failed run, also when it then shuts down in
\* order or the user interrupts as well: it is not taken for a clean stop and
\* its status is not zero.
LimitsNotMasked ==
  \A l \in Launchers : limited[l] => exit[l] # "zero"

\* Whatever asks a run to stop (stop file, limit, interrupt) or ends it, the
\* process is ended and the lease given back, unless the launcher is killed.
LeaseReturns ==
  \A l \in Launchers :
    (lease = l /\ (stop[l] # "none" \/ reason[l] # "none" \/ child[l] = "dead"))
      ~> (pc[l] = "dead" \/ (~ChildAlive(l) /\ lease # l))
=============================================================================
