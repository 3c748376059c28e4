--------------------------- MODULE LauncherProofs ---------------------------
(***************************************************************************)
(* For any number of launchers of both kinds: a model process runs only    *)
(* under its launcher's lease, and a limit is never taken for a clean stop. *)
(***************************************************************************)
EXTENDS Launcher, TLAPS

\* Ctrl+C arrives only where the code handles it, and no process outlives every
\* wait; without either the lease is given back too early (LauncherInterrupt.cfg).
Careful ==
  /\ ~MayHang
  /\ \A s \in {"start", "lastterm", "lastkill", "finalwait"} : s \notin InterruptAt

Holding == {"monitor", "touch", "stopwait", "finalwait", "closing", "failing"}

\* A launcher at work holds the lease, and a process that nobody waits for any
\* more is dead or its launcher is, with the lease left behind.
Held(l) ==
  /\ pc[l] \in Holding => lease = l
  /\ lease # l => ~ChildAlive(l)
  /\ pc[l] = "dead" /\ lease # l => WorkerOver(l)

\* The worker and its process.
Paired(l) ==
  /\ pc[l] \in {"idle", "refused"} => wk[l] = "none"
  /\ wk[l] \in {"none", "spawn"} => child[l] = "none"
  /\ wk[l] \in {"record", "exited", "escaped"} => ~ChildAlive(l)
  /\ wk[l] = "killed" => pc[l] = "dead"
  /\ pc[l] \in {"closing", "failing", "done"} => WorkerOver(l)

\* What a limit leaves behind, and what only a worker that came to its end has.
Blamed(l) ==
  /\ stop[l] = "guard" => guard[l]
  /\ pc[l] = "touch" => guard[l]
  /\ limited[l] => reason[l] # "none" /\ (reason[l] = "limit" \/ guard[l])
  /\ exit[l] = "zero" => wk[l] = "exited" /\ ~limited[l]

LauncherInv == TypeOK /\ \A l \in Launchers : Held(l) /\ Paired(l) /\ Blamed(l)

-----------------------------------------------------------------------------
(* What each step does.                                                    *)

\* A step of launcher l.
Step(l) ==
  \/ Acquire(l) \/ Close(l) \/ ClearStale(l)
  \/ ChildEnds(l) \/ ChildShutdown(l) \/ ChildStops(l) \/ ChildKilled(l)
  \/ Spawn(l) \/ Started(l) \/ Poll(l) \/ PollFails(l) \/ Reaped(l) \/ TermExpires(l)
  \/ KillExpires(l) \/ WorkerInterrupt(l) \/ Record(l)
  \/ GuardFires(l) \/ GuardStops(l) \/ StopFile(l) \/ ParentInterrupt(l)
  \/ WorkerEnds(l) \/ WaitExpires(l) \/ Kill(l)

\* What the three parts speak of, for launcher k, is as before.
Kept(k) ==
  /\ lease' = k <=> lease = k
  /\ pc'[k] = pc[k] /\ wk'[k] = wk[k] /\ child'[k] = child[k]
  /\ reason'[k] = reason[k] /\ stop'[k] = stop[k] /\ guard'[k] = guard[k]
  /\ exit'[k] = exit[k] /\ limited'[k] = limited[k]

Parts(l) == Held(l) /\ Paired(l) /\ Blamed(l)

\* Types are kept by every step.
LEMMA TypeStep ==
  ASSUME TypeOK, NEW l \in Launchers, Step(l)
  PROVE  TypeOK'
<1>1. CASE Acquire(l)
  BY <1>1 DEF Acquire, TypeOK, MainStates, WorkerStates
<1>2. CASE Close(l)
  BY <1>2 DEF Close, TypeOK, MainStates, AfterRelease
<1>3. CASE ClearStale(l)
  BY <1>3 DEF ClearStale, TypeOK
<1>4. CASE ChildEnds(l)
  <2>1. PICK s \in {FALSE, serve[l]} : shut' = [shut EXCEPT ![l] = s]
    BY <1>4 DEF ChildEnds
  <2>2. s \in BOOLEAN
    BY DEF TypeOK
  <2>3. shut' \in [Launchers -> BOOLEAN]
    BY <2>1, <2>2 DEF TypeOK
  <2>4. /\ child' \in [Launchers -> ChildStates]
        /\ code' \in [Launchers -> {"none", "zero", "term", "other"}]
    BY <1>4 DEF ChildEnds, TypeOK, ChildStates
  <2> QED
    BY <1>4, <2>3, <2>4 DEF ChildEnds, TypeOK
<1>5. CASE ChildShutdown(l)
  BY <1>5 DEF ChildShutdown, TypeOK
<1>6. CASE ChildStops(l)
  BY <1>6 DEF ChildStops, TypeOK, ChildStates
<1>7. CASE ChildKilled(l)
  BY <1>7 DEF ChildKilled, TypeOK, ChildStates
<1>8. CASE Spawn(l)
  BY <1>8 DEF Spawn, TypeOK, WorkerStates, ChildStates
<1>9. CASE Started(l)
  BY <1>9 DEF Started, TypeOK, WorkerStates
<1>10. CASE Poll(l)
  <2>1. limited' \in [Launchers -> BOOLEAN]
    BY <1>10 DEF Poll, TypeOK
  <2>2. /\ reason' \in [Launchers -> Reasons]
        /\ child' \in [Launchers -> ChildStates]
        /\ wk' \in [Launchers -> WorkerStates]
    BY <1>10
       DEF Poll, TypeOK, Reasons, ChildStates, WorkerStates, PollReason,
           Signalled
  <2> QED
    BY <1>10, <2>1, <2>2 DEF Poll, TypeOK
<1>11. CASE PollFails(l)
  BY <1>11 DEF PollFails, TypeOK, Reasons, ChildStates, WorkerStates, Signalled
<1>12. CASE Reaped(l)
  BY <1>12 DEF Reaped, TypeOK, WorkerStates
<1>13. CASE TermExpires(l)
  BY <1>13 DEF TermExpires, TypeOK, ChildStates, WorkerStates, Killed
<1>14. CASE KillExpires(l)
  <2>1. error' \in [Launchers -> BOOLEAN]
    BY <1>14 DEF KillExpires, TypeOK
  <2>2. /\ wk' \in [Launchers -> WorkerStates]
        /\ exit' \in [Launchers -> {"none", "zero", "bad"}]
    BY <1>14 DEF KillExpires, TypeOK, WorkerStates
  <2> QED
    BY <1>14, <2>1, <2>2 DEF KillExpires, TypeOK
<1>15. CASE WorkerInterrupt(l)
  BY <1>15
     DEF WorkerInterrupt, TypeOK, Reasons, ChildStates, WorkerStates, Signalled,
         InterruptReason, AfterInterrupt
<1>16. CASE Record(l)
  BY <1>16 DEF Record, TypeOK, WorkerStates
<1>17. CASE GuardFires(l)
  BY <1>17 DEF GuardFires, TypeOK, MainStates
<1>18. CASE GuardStops(l)
  BY <1>18 DEF GuardStops, TypeOK, MainStates, Touched
<1>19. CASE StopFile(l)
  BY <1>19 DEF StopFile, TypeOK
<1>20. CASE ParentInterrupt(l)
  BY <1>20 DEF ParentInterrupt, TypeOK, MainStates, Touched
<1>21. CASE WorkerEnds(l)
  BY <1>21 DEF WorkerEnds, TypeOK, MainStates
<1>22. CASE WaitExpires(l)
  BY <1>22 DEF WaitExpires, TypeOK, MainStates
<1>23. CASE Kill(l)
  BY <1>23 DEF Kill, TypeOK, MainStates, WorkerStates
<1> QED
  BY <1>1, <1>2, <1>3, <1>4, <1>5, <1>6, <1>7, <1>8, <1>9, <1>10, <1>11, <1>12, <1>13, <1>14, <1>15, <1>16, <1>17, <1>18, <1>19, <1>20, <1>21, <1>22, <1>23
     DEF Step

\* The other launchers are left alone, and whether they hold the lease is not changed.
LEMMA OthersKept ==
  ASSUME TypeOK, NEW l \in Launchers, Step(l), NEW k \in Launchers, k # l, Parts(l)
  PROVE  Kept(k)
<1>1. CASE Acquire(l)
  BY <1>1, LauncherAssumption DEF Acquire, TypeOK, Kept
<1>2. CASE Close(l)
  BY <1>2, LauncherAssumption DEF Close, TypeOK, Kept, AfterRelease
<1>3. CASE ClearStale(l)
  BY <1>3, LauncherAssumption DEF ClearStale, TypeOK, Kept
<1>4. CASE ChildEnds(l)
  BY <1>4, LauncherAssumption DEF ChildEnds, TypeOK, Kept
<1>5. CASE ChildShutdown(l)
  BY <1>5, LauncherAssumption DEF ChildShutdown, TypeOK, Kept
<1>6. CASE ChildStops(l)
  BY <1>6, LauncherAssumption DEF ChildStops, TypeOK, Kept
<1>7. CASE ChildKilled(l)
  BY <1>7, LauncherAssumption DEF ChildKilled, TypeOK, Kept
<1>8. CASE Spawn(l)
  BY <1>8, LauncherAssumption DEF Spawn, TypeOK, Kept
<1>9. CASE Started(l)
  BY <1>9, LauncherAssumption DEF Started, TypeOK, Kept
<1>10. CASE Poll(l)
  BY <1>10, LauncherAssumption DEF Poll, TypeOK, Kept
<1>11. CASE PollFails(l)
  BY <1>11, LauncherAssumption DEF PollFails, TypeOK, Kept
<1>12. CASE Reaped(l)
  BY <1>12, LauncherAssumption DEF Reaped, TypeOK, Kept
<1>13. CASE TermExpires(l)
  BY <1>13, LauncherAssumption DEF TermExpires, TypeOK, Kept
<1>14. CASE KillExpires(l)
  BY <1>14, LauncherAssumption DEF KillExpires, TypeOK, Kept
<1>15. CASE WorkerInterrupt(l)
  BY <1>15, LauncherAssumption DEF WorkerInterrupt, TypeOK, Kept
<1>16. CASE Record(l)
  BY <1>16, LauncherAssumption DEF Record, TypeOK, Kept
<1>17. CASE GuardFires(l)
  BY <1>17, LauncherAssumption DEF GuardFires, TypeOK, Kept
<1>18. CASE GuardStops(l)
  BY <1>18, LauncherAssumption DEF GuardStops, TypeOK, Kept
<1>19. CASE StopFile(l)
  BY <1>19, LauncherAssumption DEF StopFile, TypeOK, Kept
<1>20. CASE ParentInterrupt(l)
  BY <1>20, LauncherAssumption DEF ParentInterrupt, TypeOK, Kept
<1>21. CASE WorkerEnds(l)
  BY <1>21, LauncherAssumption DEF WorkerEnds, TypeOK, Kept
<1>22. CASE WaitExpires(l)
  BY <1>22, LauncherAssumption DEF WaitExpires, TypeOK, Kept
<1>23. CASE Kill(l)
  BY <1>23, LauncherAssumption DEF Kill, TypeOK, Kept
<1> QED
  BY <1>1, <1>2, <1>3, <1>4, <1>5, <1>6, <1>7, <1>8, <1>9, <1>10, <1>11, <1>12, <1>13, <1>14, <1>15, <1>16, <1>17, <1>18, <1>19, <1>20, <1>21, <1>22, <1>23
     DEF Step

\* A launcher's own step keeps what is said of it.
LEMMA OwnKept ==
  ASSUME Careful, TypeOK, NEW l \in Launchers, Parts(l), Step(l)
  PROVE  Parts(l)'
<1>1. CASE Acquire(l)
  BY <1>1, LauncherAssumption
     DEF Acquire, TypeOK, Careful, Parts, Held, Paired, Blamed, Holding,
         ChildAlive, WorkerOver
<1>2. CASE Close(l)
  BY <1>2, LauncherAssumption
     DEF Close, TypeOK, Careful, Parts, Held, Paired, Blamed, Holding,
         ChildAlive, WorkerOver, AfterRelease
<1>3. CASE ClearStale(l)
  BY <1>3, LauncherAssumption
     DEF ClearStale, TypeOK, Careful, Parts, Held, Paired, Blamed, Holding,
         ChildAlive, WorkerOver
<1>4. CASE ChildEnds(l)
  BY <1>4, LauncherAssumption
     DEF ChildEnds, TypeOK, Careful, Parts, Held, Paired, Blamed, Holding,
         ChildAlive, WorkerOver
<1>5. CASE ChildShutdown(l)
  BY <1>5, LauncherAssumption
     DEF ChildShutdown, TypeOK, Careful, Parts, Held, Paired, Blamed, Holding,
         ChildAlive, WorkerOver
<1>6. CASE ChildStops(l)
  BY <1>6, LauncherAssumption
     DEF ChildStops, TypeOK, Careful, Parts, Held, Paired, Blamed, Holding,
         ChildAlive, WorkerOver
<1>7. CASE ChildKilled(l)
  BY <1>7, LauncherAssumption
     DEF ChildKilled, TypeOK, Careful, Parts, Held, Paired, Blamed, Holding,
         ChildAlive, WorkerOver
<1>8. CASE Spawn(l)
  BY <1>8, LauncherAssumption
     DEF Spawn, TypeOK, Careful, Parts, Held, Paired, Blamed, Holding,
         ChildAlive, WorkerOver, MainStates
<1>9. CASE Started(l)
  BY <1>9, LauncherAssumption
     DEF Started, TypeOK, Careful, Parts, Held, Paired, Blamed, Holding,
         ChildAlive, WorkerOver
<1>10. CASE Poll(l)
  BY <1>10, LauncherAssumption
     DEF Poll, TypeOK, Careful, Parts, Held, Paired, Blamed, Holding, ChildAlive,
         WorkerOver, Signalled, PollReason
<1>11. CASE PollFails(l)
  BY <1>11, LauncherAssumption
     DEF PollFails, TypeOK, Careful, Parts, Held, Paired, Blamed, Holding,
         ChildAlive, WorkerOver, Signalled
<1>12. CASE Reaped(l)
  BY <1>12, LauncherAssumption
     DEF Reaped, TypeOK, Careful, Parts, Held, Paired, Blamed, Holding,
         ChildAlive, WorkerOver
<1>13. CASE TermExpires(l)
  BY <1>13, LauncherAssumption
     DEF TermExpires, TypeOK, Careful, Parts, Held, Paired, Blamed, Holding,
         ChildAlive, WorkerOver, Killed
<1>14. CASE KillExpires(l)
  BY <1>14, LauncherAssumption
     DEF KillExpires, TypeOK, Careful, Parts, Held, Paired, Blamed, Holding,
         ChildAlive, WorkerOver
<1>15. CASE WorkerInterrupt(l)
  BY <1>15, LauncherAssumption
     DEF WorkerInterrupt, TypeOK, Careful, Parts, Held, Paired, Blamed, Holding,
         ChildAlive, WorkerOver, Signalled, InterruptReason, AfterInterrupt
<1>16. CASE Record(l)
  BY <1>16, LauncherAssumption
     DEF Record, TypeOK, Careful, Parts, Held, Paired, Blamed, Holding,
         ChildAlive, WorkerOver, CleanStop
<1>17. CASE GuardFires(l)
  BY <1>17, LauncherAssumption
     DEF GuardFires, TypeOK, Careful, Parts, Held, Paired, Blamed, Holding,
         ChildAlive, WorkerOver
<1>18. CASE GuardStops(l)
  BY <1>18, LauncherAssumption
     DEF GuardStops, TypeOK, Careful, Parts, Held, Paired, Blamed, Holding,
         ChildAlive, WorkerOver, Touched
<1>19. CASE StopFile(l)
  BY <1>19, LauncherAssumption
     DEF StopFile, TypeOK, Careful, Parts, Held, Paired, Blamed, Holding,
         ChildAlive, WorkerOver
<1>20. CASE ParentInterrupt(l)
  BY <1>20, LauncherAssumption
     DEF ParentInterrupt, TypeOK, Careful, Parts, Held, Paired, Blamed, Holding,
         ChildAlive, WorkerOver, Touched
<1>21. CASE WorkerEnds(l)
  BY <1>21, LauncherAssumption
     DEF WorkerEnds, TypeOK, Careful, Parts, Held, Paired, Blamed, Holding,
         ChildAlive, WorkerOver
<1>22. CASE WaitExpires(l)
  BY <1>22, LauncherAssumption
     DEF WaitExpires, TypeOK, Careful, Parts, Held, Paired, Blamed, Holding,
         ChildAlive, WorkerOver
<1>23. CASE Kill(l)
  BY <1>23, LauncherAssumption
     DEF Kill, TypeOK, Careful, Parts, Held, Paired, Blamed, Holding, ChildAlive,
         WorkerOver
<1> QED
  BY <1>1, <1>2, <1>3, <1>4, <1>5, <1>6, <1>7, <1>8, <1>9, <1>10, <1>11, <1>12, <1>13, <1>14, <1>15, <1>16, <1>17, <1>18, <1>19, <1>20, <1>21, <1>22, <1>23
     DEF Step

\* A launcher that is left alone keeps what is said of it.
LEMMA KeptParts ==
  ASSUME NEW k, Parts(k), Kept(k)
  PROVE  Parts(k)'
BY DEF Parts, Held, Paired, Blamed, Kept, ChildAlive, WorkerOver

-----------------------------------------------------------------------------
(* The invariant and what follows.                                         *)

\* It holds before the first launcher takes the lease.
LEMMA LauncherStart == Init => LauncherInv
<1> SUFFICES ASSUME Init PROVE LauncherInv
  OBVIOUS
<1>1. TypeOK
  BY DEF Init, TypeOK, MainStates, WorkerStates, ChildStates, Reasons
<1>2. ASSUME NEW l \in Launchers PROVE Parts(l)
  BY <1>2, LauncherAssumption
     DEF Init, Parts, Held, Paired, Blamed, Holding, ChildAlive, WorkerOver
<1> QED
  BY <1>1, <1>2 DEF LauncherInv, Parts

\* Every step keeps it.
LEMMA LauncherNext == Careful /\ LauncherInv /\ [Next]_vars => LauncherInv'
<1> SUFFICES ASSUME Careful, LauncherInv, [Next]_vars PROVE LauncherInv'
  OBVIOUS
<1>1. TypeOK /\ \A k \in Launchers : Parts(k)
  BY DEF LauncherInv, Parts
<1>2. CASE UNCHANGED vars
  <2>1. TypeOK'
    BY <1>1, <1>2 DEF vars, TypeOK
  <2>2. ASSUME NEW k \in Launchers PROVE Parts(k)'
    BY <1>1, <1>2, KeptParts DEF vars, Kept
  <2> QED
    BY <2>1, <2>2 DEF LauncherInv, Parts
<1>3. CASE Next
  <2>1. PICK l \in Launchers : Step(l)
    BY <1>3 DEF Next, Step
  <2>2. TypeOK'
    BY <1>1, <2>1, TypeStep
  <2>3. ASSUME NEW k \in Launchers PROVE Parts(k)'
    <3>1. CASE k = l
      BY <1>1, <2>1, <3>1, OwnKept
    <3>2. CASE k # l
      BY <1>1, <2>1, <3>2, OthersKept, KeptParts
    <3> QED
      BY <3>1, <3>2
  <2> QED
    BY <2>2, <2>3 DEF LauncherInv, Parts
<1> QED
  BY <1>2, <1>3

\* The invariant holds in every behaviour (worker, terminate_group, lease, main).
THEOREM LauncherInvariance == ASSUME Careful PROVE Spec => []LauncherInv
<1>1. LauncherInv /\ [Next]_vars => LauncherInv'
  BY LauncherNext
<1> QED
  BY <1>1, LauncherStart, PTL DEF Spec

\* Whatever number of launchers there are and whoever is killed, a model process
\* runs only under the lease of its own launcher (lease, terminate_group).
THEOREM LeaseCovered == ASSUME Careful PROVE Spec => []LeaseCovers
<1>1. LauncherInv => LeaseCovers
  BY DEF LauncherInv, Held, LeaseCovers
<1> QED
  BY <1>1, LauncherInvariance, PTL

\* A run that a limit ended never reports success (clean_server_stop).
THEOREM LimitsKept == ASSUME Careful PROVE Spec => []LimitsNotMasked
<1>1. LauncherInv => LimitsNotMasked
  BY DEF LauncherInv, Blamed, LimitsNotMasked
<1> QED
  BY <1>1, LauncherInvariance, PTL

\* So two launchers never have a model on the GPU together.
COROLLARY OneModel == ASSUME Careful PROVE Spec =>
  [](\A k, l \in Launchers : ChildAlive(k) /\ ChildAlive(l) => k = l)
<1>1. LeaseCovers => \A k, l \in Launchers : ChildAlive(k) /\ ChildAlive(l) => k = l
  BY DEF LeaseCovers
<1> QED
  BY <1>1, LeaseCovered, PTL
=============================================================================
