------------------------------- MODULE Limits -------------------------------
(***************************************************************************)
(* The limits a run is held to: what scripts/exl3_resources.py makes of    *)
(* the saved limits, what the worker of scripts/launch_runtime.py and its  *)
(* Windows parent compare them with, and which adapter the parent's        *)
(* collector (quantlab/telemetry.py) measures.  Fractions are in percent,  *)
(* sizes in GiB, times in units of the timeout.                            *)
(***************************************************************************)
EXTENDS Integers, FiniteSets

unknown == -1     \* None, an empty field, or not a finite number

-----------------------------------------------------------------------------
(* The limits of a request.                                                *)

Fractions == {"host", "gpu"}
Defaults == [host |-> 50, gpu |-> 95, ram |-> 1, disk |-> 1]

\* A value that is missing, no number or out of its range counts as the default.
Sane(k, x) == x > 0 /\ (k \in Fractions => x < 100)
wsl_limits(saved) ==
  [k \in DOMAIN Defaults |->
     IF k \in DOMAIN saved /\ Sane(k, saved[k]) THEN saved[k] ELSE Defaults[k]]

-----------------------------------------------------------------------------
(* The worker.  A measurement: the resident set of the process group, what *)
(* /proc/meminfo says or does not say, and the free disk.                  *)

rss_limit(limits, total) == (limits.host * total) \div 100

WslBreach(m, limits) ==
  \/ m.timeout # unknown /\ m.elapsed >= m.timeout
  \/ m.total # unknown /\ m.rss > rss_limit(limits, m.total)
  \/ m.available # unknown /\ m.available < limits.ram
  \/ m.disk < limits.disk

\* Without a MemTotal line the group is not limited, whatever it uses.
Measurements(timeout) ==
  [timeout : {timeout}, elapsed : {0, 1}, rss : {1, 60}, total : {unknown, 100},
   available : {unknown, 0, 40}, disk : {0, 10}]

-----------------------------------------------------------------------------
(* The Windows parent.                                                     *)

\* _select_monitored_adapter: the one adapter the user names, or the one
\* physical AMD adapter with more than 1 GiB; none if there are several.
Candidates(adapters, target) ==
  IF target # "" THEN {a \in adapters : a.name = target}
  ELSE {a \in adapters : a.amd /\ ~a.software /\ a.dedicated > 1}
Monitored(adapters, target) ==
  IF Cardinality(Candidates(adapters, target)) = 1
    THEN Candidates(adapters, target) ELSE {}
\* gpu_total_dedicated_bytes: 0 when no adapter was selected.
Capacity(adapters, target) ==
  IF Monitored(adapters, target) = {} THEN 0
  ELSE (CHOOSE a \in Monitored(adapters, target) : TRUE).dedicated

\* sample_now: each source may fail by itself; without an adapter there is no
\* query and no dedicated usage.
Samples(capacity, timeout) ==
  [timeout : {timeout}, elapsed : {0, 1}, available : {unknown, 0, 40},
   dedicated : IF capacity = 0 THEN {unknown} ELSE {unknown, 0, capacity},
   disk : {0, 10}]

WindowsBreach(s, limits, capacity) ==
  \/ s.timeout # unknown /\ s.elapsed >= s.timeout
  \/ s.available # unknown /\ s.available < limits.ram
  \/ s.dedicated # unknown /\ capacity > 0 /\ 100 * s.dedicated > limits.gpu * capacity
  \/ s.disk < limits.disk
=============================================================================
