----------------------------- MODULE MCServing -----------------------------
(* Serving on small sets of requests. *)
EXTENDS Serving, TLC

Symmetry == Permutations(Requests)

\* Of an answered request only whether its __anext__ task is still pending
\* matters later: its stage and the task's outcome feed the history that
\* NothingLeaks, ReuseIsClean and HealthCounters are about, which another run
\* checks.  The counters steer nothing.
Answered(r) == pc[r] \in {"finish", "done"}
WithoutHistory ==
  <<ready, active, persistent, users, job, gen,
    [r \in Requests |->
       IF Answered(r) THEN <<"new", anext[r] = "pending">>
                      ELSE <<stage[r], anext[r]>>],
    serverVars>>

\* The bound of the liveness run: the deadline of one request passes, while the
\* server serves, and a shutdown begins only when no request is past its
\* deadline.  Steps that fairness makes happen are not bounded.
Timed == CHOOSE r \in Requests : TRUE
FewDeadlines ==
  /\ \A r \in Requests : Expire(r) => r = Timed /\ phase = "serving"
  /\ Stop => ~expired[Timed]

LiveSpec == Init /\ [][Next /\ FewDeadlines]_vars /\ EventLoop
=============================================================================
