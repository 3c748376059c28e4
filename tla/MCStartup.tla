----------------------------- MODULE MCStartup -----------------------------
(* Startup for TLC: every combination of the drafting options and of the   *)
(* kernel options, and two other options changed from their default; the   *)
(* evaluator's run is followed for its modes with and without a reference. *)
EXTENDS Evaluation

FollowedRuns ==
  {[Default(m) EXCEPT !.expected = e] : m \in Modes \ {"serve"}, e \in BOOLEAN}
=============================================================================
