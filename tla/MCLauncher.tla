---------------------------- MODULE MCLauncher ----------------------------
(* Launcher on two launchers. *)
EXTENDS Launcher

\* Where Ctrl+C is harmless: the try blocks of worker() and main(), and where
\* there is no model process.
Handled == {"spawn", "poll", "term", "kill", "record", "monitor", "touch",
            "stopwait"}
Anywhere == Handled \cup {"start", "lastterm", "lastkill", "finalwait"}

\* Saved by an older launcher: one limit missing, one no number.
OldLimits == [host |-> 50, gpu |-> unknown, ram |-> 2]
\* A discrete and an integrated AMD adapter, and the software renderer.
Laptop ==
  {[name |-> "discrete", amd |-> TRUE, software |-> FALSE, dedicated |-> 16],
   [name |-> "integrated", amd |-> TRUE, software |-> FALSE, dedicated |-> 1],
   [name |-> "basic", amd |-> FALSE, software |-> TRUE, dedicated |-> 0]}

\* A bound: both launchers serve or neither does; a mode only concerns its own run.
SameMode == \A l, k \in Launchers : serve[l] = serve[k]
=============================================================================
