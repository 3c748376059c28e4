----------------------------- MODULE Evaluation -----------------------------
(***************************************************************************)
(* The evaluator, scripts/evaluate_exl3_candidate.py, after its arguments  *)
(* are parsed: the output directory, the model (Startup), the cases of a   *)
(* mode one after another, what is measured of each                        *)
(* (scripts/exl3_timing.py), the comparison with a retained reference, and *)
(* the report that its finally block writes.                               *)
(*                                                                         *)
(* A run started by the launcher has one of the launcher's modes and no    *)
(* frozen protocol; the other modes and the protocol are given by hand.    *)
(***************************************************************************)
EXTENDS Startup, Integers, Sequences, SequencesExt

CONSTANTS
  Followed,  \* the launcher's options whose run is followed past the parsing
  Repeats,   \* runs of a speed task after its warm-up
  Limit,     \* tokens a case generates
  Drafts,    \* tokens drafted ahead
  MaxClock   \* bound: instants of a case

ASSUME EvaluationAssumption ==
  /\ Repeats \in Nat \ {0} /\ Limit \in Nat \ {0}
  /\ Drafts \in Nat /\ MaxClock \in Nat

VARIABLES
  asked,    \* mode, retained reference, frozen protocol
  phase,    \* "off", "preparing", "loading", "cases", "running", "checking",
            \* "reporting", "failing", "written" (the report is), "over"
  case,     \* the running case
  results,  \* status['results']
  files,    \* the output directory: names of cases with their result file
  report,   \* result.json
  exit

evaluation == <<asked, phase, case, results, files, report, exit>>

None == -1
Absent == [status |-> "absent", results |-> <<>>]
Torn == [status |-> "torn", results |-> <<>>]
NoCase == [sampled |-> 0, held |-> 0, clock |-> 0, log |-> <<>>, ended |-> FALSE,
           first_time |-> None, first_count |-> None, last_time |-> None]

-----------------------------------------------------------------------------
(* What is asked.                                                          *)

\* A frozen protocol that differs: in its suite or controls, in the suite's
\* cases, in the tokenizer, or in a rendered prompt.
Protocols == {"none", "same", "controls", "inventory", "tokenizer", "prompt"}
ByHand ==
  {a \in [mode : {"speed", "quality", "profile", "logprobs", "context"},
          reference : BOOLEAN, frozen : Protocols] :
     a.frozen # "none" => a.mode \in {"quality", "speed", "logprobs"}}
Asked(o) ==
  {[mode |-> o.mode, reference |-> o.expected, frozen |-> "none"]}
  \cup (IF opt = Default("speed") THEN ByHand ELSE {})

\* A case: a run of a task, to an exact length or to a stop token, its prompt
\* rendered or given as tokens.
Fixed(task, run) == [name |-> <<task, run>>, fixed |-> TRUE, rendered |-> TRUE]
Free(task) == [name |-> <<task, 0>>, fixed |-> FALSE, rendered |-> TRUE]
Tokens(task) == [name |-> <<task, 0>>, fixed |-> TRUE, rendered |-> FALSE]
FreeTokens(task) == [name |-> <<task, 0>>, fixed |-> FALSE, rendered |-> FALSE]

Warmup == <<Fixed("warmup", 0)>>
\* The warm-up of a speed task and its measured runs.
Speed(task) == [i \in 1..(Repeats + 1) |-> Fixed(task, i)]

\* The cases of a mode, in order.
Plan(mode) ==
  CASE mode = "speed" -> Warmup \o Speed("first") \o Speed("fifth")
    [] mode = "generate" -> Warmup \o <<Free("answer")>>
    [] mode = "quality" -> Warmup \o <<Free("first"), Free("fifth")>>
    [] mode = "profile" -> Warmup \o <<Fixed("profile", 1), Fixed("profile", 2)>>
    [] mode = "logprobs" -> <<Tokens("probe1"), Tokens("probe2")>>
    [] mode = "context" -> <<FreeTokens("occupied-context")>>
    [] mode = "context-speed" -> <<Tokens("occupied-coding")>>

Todo == Plan(asked.mode)[Len(results) + 1]

-----------------------------------------------------------------------------
(* Timing of a case: FirstIterationTiming.                                 *)

\* One result of iterate(): its token events share an instant.
observe(c, now, total) ==
  IF total = 0 THEN c
  ELSE [c EXCEPT !.first_time = IF @ = None THEN now ELSE @,
                 !.first_count = IF c.first_time = None THEN total ELSE @,
                 !.last_time = now]

decode_seconds(c) ==
  IF c.first_time # None /\ c.last_time > c.first_time
  THEN c.last_time - c.first_time ELSE None
decode_tokens(c, total) == total - (IF c.first_count = None THEN 0 ELSE c.first_count)

\* A case's result; the numbers measured stay with the case.
Result(c, same) == [name |-> Todo.name, tokens |-> c.sampled, same |-> same]

\* A mutant: a case that stops early is reported like the others.
AcceptedMut(r, c) == asked.reference => r.same
\* The checks after a case: the retained reference, the exact length.
Accepted(r, c) == (asked.reference => r.same) /\ (c.fixed => r.tokens = Limit)

-----------------------------------------------------------------------------
(* The run.                                                                *)

EvaluationInit ==
  /\ Init
  /\ asked = [mode |-> "none", reference |-> FALSE, frozen |-> "none"]
  /\ phase = "off" /\ case = NoCase /\ results = <<>> /\ files = {}
  /\ report = Absent /\ exit = "none"

\* A bound: a run is followed on the newest binary.
Traced == opt \in Followed /\ binary = Newest

To(p) == phase' = p /\ exit' = exit
Stop(code) == phase' = "over" /\ exit' = code

\* The protocol's controls and the candidate's files are checked before the
\* output directory is made: nothing is left behind.
Begin ==
  /\ stage = "parsed" /\ Entry(argv) = "evaluate" /\ Traced /\ phase = "off"
  /\ \E a \in Asked(argv) :
       /\ asked' = a
       /\ IF a.frozen = "controls" \/ model.files = "missing" THEN Stop("error")
                                                              ELSE To("preparing")
  /\ UNCHANGED <<vars, case, results, files, report>>

\* The directory must be new; suite and reference are read before the report
\* is begun, so what fails here leaves a directory without one.
Prepare ==
  /\ phase = "preparing"
  /\ \/ asked.frozen # "inventory" /\ To("loading")
     \/ Stop("error")
  /\ UNCHANGED <<vars, asked, case, results, files, report>>

\* The model is loaded by Startup's step; the tokenizer is compared after it.
Loaded ==
  /\ phase = "loading" /\ stage # "parsed"
  /\ IF stage = "ready" /\ asked.frozen # "tokenizer" THEN To("cases") ELSE To("failing")
  /\ UNCHANGED <<vars, asked, case, results, files, report>>

StartCase ==
  /\ phase = "cases" /\ Len(results) < Len(Plan(asked.mode))
  /\ \E room \in {TRUE, ~Todo.rendered} :
       IF room /\ ~(Todo.rendered /\ asked.frozen = "prompt")
       THEN To("running") ELSE To("failing")
  /\ case' = NoCase
  /\ UNCHANGED <<vars, asked, results, files, report>>

\* iterate() returns after a prefill chunk, or after a token and the drafts
\* accepted behind it; an event may hold tokens back, the last one holds none.
\* A case without exact length ends at a stop token; the check after the case
\* allows for an engine that ends one early anyway.
\* The log is a history of the case: when, how many tokens, and how many so far.
Iterate ==
  /\ phase = "running" /\ ~case.ended
  /\ \E n \in 0..(Drafts + 1), stopped \in BOOLEAN, dt \in {0, 1} :
       LET sampled == case.sampled + n
           ends == stopped \/ sampled = Limit
           now == case.clock + dt
       IN
       /\ n = 0 => case.sampled = 0 /\ ~stopped /\ dt = 1
       /\ sampled <= Limit /\ now <= MaxClock
       /\ \E total \in (IF ends THEN {case.held + n} ELSE 0..(case.held + n)) :
            case' = observe(
              [case EXCEPT !.sampled = sampled, !.held = @ + n - total, !.ended = ends,
                           !.clock = now,
                           !.log = Append(@, [at |-> now, total |-> total,
                                              upto |-> sampled - (case.held + n - total)])],
              now, total)
  /\ UNCHANGED <<vars, asked, phase, results, files, report, exit>>

\* The result is kept and written before it is checked.
FinishCase ==
  /\ phase = "running" /\ case.ended
  /\ \E same \in {TRUE, ~asked.reference} : results' = Append(results, Result(case, same))
  /\ files' = files \cup {Todo.name}
  /\ To("checking")
  /\ UNCHANGED <<vars, asked, case, report>>

CheckCase ==
  /\ phase = "checking"
  /\ IF Accepted(Last(results), Plan(asked.mode)[Len(results)])
     THEN To("cases") ELSE To("failing")
  /\ case' = NoCase
  /\ UNCHANGED <<vars, asked, results, files, report>>

AllDone ==
  /\ phase = "cases" /\ Len(results) = Len(Plan(asked.mode))
  /\ To("reporting")
  /\ UNCHANGED <<vars, asked, case, results, files, report>>

\* Anything in the try block may raise: a file that cannot be written, a token
\* outside the vocabulary, logits that are not finite, memory.
Raise ==
  /\ phase \in {"loading", "cases", "running", "checking"}
  /\ To("failing")
  /\ case' = NoCase
  /\ UNCHANGED <<vars, asked, results, files, report>>

\* The finally block; writing may fail, for a number JSON does not have too.
WriteReport ==
  /\ phase \in {"reporting", "failing"}
  /\ LET status == IF phase = "reporting" THEN "completed" ELSE "failed" IN
     \/ report' = [status |-> status, results |-> results] /\ To("written")
     \/ report' \in {Absent, Torn} /\ Stop("error")
  /\ UNCHANGED <<vars, asked, case, results, files>>

\* After the report the log is closed and the interpreter ends, or the exception
\* goes on; closing may fail too, and the report stays as it is.
Exit ==
  /\ phase = "written"
  /\ \/ report.status = "completed" /\ Stop("success")
     \/ Stop("error")
  /\ UNCHANGED <<vars, asked, case, results, files, report>>

\* The worker ends the process at any time.
KillRun ==
  /\ phase \notin {"off", "over"}
  /\ report' \in IF phase \in {"reporting", "failing"} THEN {Absent, Torn} ELSE {report}
  /\ Stop("killed")
  /\ case' = NoCase
  /\ UNCHANGED <<vars, asked, results, files>>

\* Startup's step, which the evaluator reaches when its directory is made.
LoadNow ==
  /\ stage = "parsed"
  /\ Entry(argv) = "evaluate" /\ Traced => phase = "loading"
  /\ Load
  /\ UNCHANGED evaluation

SetNow == (\E f \in DOMAIN Values : Set(f)) /\ UNCHANGED evaluation
LaunchNow == Launch /\ UNCHANGED evaluation
ParseNow == Parse /\ UNCHANGED evaluation

EvaluationNext ==
  \/ SetNow \/ LaunchNow \/ ParseNow \/ LoadNow
  \/ Begin \/ Prepare \/ Loaded \/ StartCase \/ Iterate \/ FinishCase \/ CheckCase
  \/ AllDone \/ Raise \/ WriteReport \/ Exit \/ KillRun

EvaluationSpec ==
  EvaluationInit /\ [][EvaluationNext]_<<vars, evaluation>>

-----------------------------------------------------------------------------
(* Properties.                                                             *)

\* The decode numbers of a case are those of all iterations that emitted tokens
\* but the first, whatever was held back or accepted at once, with no rate when
\* they all share one instant.
RatesExact ==
  LET log == case.log
      emitting == {i \in DOMAIN log : log[i].total > 0}
  IN
  \E first, last \in emitting :
    /\ \A i \in emitting : first <= i /\ i <= last
    /\ decode_tokens(case, Last(results).tokens) = log[Len(log)].upto - log[first].upto
    /\ decode_seconds(case) =
         IF log[last].at > log[first].at THEN log[last].at - log[first].at ELSE None

\* What a reader of result.json and of the exit code may rely on: "completed"
\* means every case of the mode in order, each with its own file, of the exact
\* length asked for and equal to the retained reference; a process that says
\* success has left such a report (not the other way round: it may still fail or
\* be killed after writing it); and the decode numbers of a case are exact.
ReportHonest ==
  /\ report.status = "completed" =>
       LET plan == Plan(asked.mode) IN
       /\ Len(report.results) = Len(plan)
       /\ \A i \in DOMAIN plan :
            /\ report.results[i].name = plan[i].name /\ plan[i].name \in files
            /\ plan[i].fixed => report.results[i].tokens = Limit
            /\ asked.reference => report.results[i].same
  /\ exit = "success" => report.status = "completed"
  /\ phase = "checking" => RatesExact
=============================================================================
