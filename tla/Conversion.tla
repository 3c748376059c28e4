----------------------------- MODULE Conversion -----------------------------
(***************************************************************************)
(* One conversion job of scripts/run_exl3_conversion.py over the vendored  *)
(* converter: modules are quantised in order, each against the activations *)
(* of the packed modules before it; the packed modules, the checkpoint and *)
(* the compiled candidate are files, and the process may be killed at any  *)
(* point and started again with --resume.                                  *)
(*                                                                         *)
(* A packed module is the run that made it, the version of the pinned      *)
(* inputs it was made from and the activations it was made against, as the *)
(* runs of the modules they came through: two runs never give the same     *)
(* bytes, so whatever must match is seen not to.  A file is absent, torn   *)
(* (a writer was killed in it) or whole.                                   *)
(***************************************************************************)
EXTENDS Naturals, Sequences

CONSTANTS N,         \* modules of the model; the head is the last
          MaxRuns,   \* bound: processes started on the job
          MaxEdits   \* bound: changes of the pinned inputs

ASSUME ConversionAssumption == N \in Nat \ {0} /\ MaxRuns \in Nat /\ MaxEdits \in Nat

VARIABLES world,      \* version of source, calibration, code and extension
          args,       \* args.json of the work directory
          identity,   \* conversion_identity.json
          ckpt, ckptOld, ckptNew,   \* the checkpoint directories
          packed,     \* qtensors/
          text,       \* shards of the output directory
          conf,       \* "none", "config" (config.json) or "all" (and
                      \* quantization_config.json) of the output directory
          finished,   \* the last compile_model of the job returned
          pc,         \* where the process is; "idle" without one
          run,        \* number of the last process
          mine,       \* version its identity was computed from
          act,        \* its activations, as the runs they came through
          next,       \* next shard to write
          drifted     \* processes whose inputs changed while they ran

disk == <<args, identity, ckpt, ckptOld, ckptNew, packed, text, conf>>
memory == <<pc, run, mine, act, next>>
conversion == <<world, disk, memory, finished, drifted>>

Modules == 1..N
None == [is |-> "none"]
Torn == [is |-> "torn"]
Whole(f) == f.is = "whole"
Checkpoint(a) == [is |-> "whole", act |-> a]
Identity(w) == [is |-> "whole", of |-> w]
PackedModule(m) == [is |-> "whole", run |-> run, src |-> world, act |-> act]

Init ==
    /\ world = 0 /\ args = None /\ identity = None
    /\ ckpt = None /\ ckptOld = None /\ ckptNew = None
    /\ packed = [m \in Modules |-> None] /\ text = [m \in Modules |-> None]
    /\ conf = "none" /\ finished = FALSE
    /\ pc = "idle" /\ run = 0 /\ mine = 0 /\ act = <<>> /\ next = 1 /\ drifted = {}

(***************************************************************************)
(* Starting: a fresh job takes empty directories only; a resumed one reads *)
(* args.json and the checkpoint and must find its identity unchanged.      *)
(***************************************************************************)
Untouched == args = None /\ ckpt = None /\ text = [m \in Modules |-> None] /\ conf = "none"

Starts == pc = "idle" /\ run < MaxRuns /\ run' = run + 1 /\ mine' = world /\ next' = 1

Fresh ==
    /\ Starts /\ Untouched
    /\ ckpt' = Torn                              \* prepare_env: empty directories
    /\ pc' = "args" /\ act' = <<>>
    /\ UNCHANGED <<world, args, identity, ckptOld, ckptNew, packed, text, conf, finished, drifted>>

SaveArgs ==
    /\ pc = "args"
    /\ args' = [is |-> "whole"] /\ pc' = "job"
    /\ UNCHANGED <<world, identity, ckpt, ckptOld, ckptNew, packed, text, conf, finished, run, mine, act, next, drifted>>

SaveJob ==
    /\ pc = "job"
    /\ ckpt' = Checkpoint(<<>>) /\ pc' = "freeze"
    /\ UNCHANGED <<world, args, identity, ckptOld, ckptNew, packed, text, conf, finished, run, mine, act, next, drifted>>

Freeze ==
    /\ pc = "freeze"
    /\ identity' = Identity(mine) /\ pc' = "module"
    /\ UNCHANGED <<world, args, ckpt, ckptOld, ckptNew, packed, text, conf, finished, run, mine, act, next, drifted>>

SameIdentityMut(w) == Whole(identity)
SameIdentity(w) == identity = Identity(w)

\* prepare_env makes the directories before the checkpoint is looked for
FoundMut(c) == IF Whole(c) THEN c ELSE Checkpoint(<<>>)
Found(c) == IF c = None THEN Torn ELSE c

Resume ==
    /\ Starts /\ Whole(args)
    /\ ckpt' = Found(ckpt)
    /\ LET starts == Whole(ckpt) /\ SameIdentity(world)
       IN /\ pc' = IF starts THEN "module" ELSE "idle"
          /\ act' = IF starts THEN ckpt.act ELSE <<>>
    /\ UNCHANGED <<world, args, identity, ckptOld, ckptNew, packed, text, conf, finished, drifted>>

(***************************************************************************)
(* The loop over the modules, and the checkpoint after one of them: the    *)
(* new one is written beside the old, then two renames put it in place.    *)
(***************************************************************************)
Current == Len(act) + 1
RedoMut(m) == ~Whole(packed[m])
Redo(m) == TRUE                    \* the loop looks at next_module_idx only

Quantize ==
    /\ pc = "module" /\ Current \in Modules
    /\ packed' = IF Redo(Current) THEN [packed EXCEPT ![Current] = PackedModule(Current)] ELSE packed
    /\ pc' = "advance"
    /\ UNCHANGED <<world, args, identity, ckpt, ckptOld, ckptNew, text, conf, finished, run, mine, act, next, drifted>>

Advance ==
    /\ pc = "advance"
    /\ act' = Append(act, packed[Current].run)
    /\ pc' \in {"module", "write"}               \* the interval since the last one
    /\ UNCHANGED <<world, disk, finished, run, mine, next, drifted>>

WriteNew ==
    /\ pc = "write"
    /\ ckptNew' = Checkpoint(act) /\ pc' = "clear"
    /\ UNCHANGED <<world, args, identity, ckpt, ckptOld, packed, text, conf, finished, run, mine, act, next, drifted>>

ClearOld ==
    /\ pc = "clear"
    /\ ckptOld' = None /\ pc' = "away"
    /\ UNCHANGED <<world, args, identity, ckpt, ckptNew, packed, text, conf, finished, run, mine, act, next, drifted>>

MoveAway ==
    /\ pc = "away"
    /\ ckptOld' = ckpt /\ ckpt' = None /\ pc' = "place"
    /\ UNCHANGED <<world, args, identity, ckptNew, packed, text, conf, finished, run, mine, act, next, drifted>>

Place ==
    /\ pc = "place"
    /\ ckpt' = ckptNew /\ ckptNew' = None /\ pc' = "module"
    /\ UNCHANGED <<world, args, identity, ckptOld, packed, text, conf, finished, run, mine, act, next, drifted>>

(***************************************************************************)
(* compile_model: the shards, then config.json, then                       *)
(* quantization_config.json, over whatever the directory holds.            *)
(***************************************************************************)
Compile ==
    /\ pc = "module" /\ Current > N
    /\ pc' = "shards" /\ finished' = FALSE
    /\ UNCHANGED <<world, disk, run, mine, act, next, drifted>>

Shard ==
    /\ pc = "shards" /\ next \in Modules /\ Whole(packed[next])
    /\ text' = [text EXCEPT ![next] = packed[next]]
    /\ next' = next + 1
    /\ UNCHANGED <<world, args, identity, ckpt, ckptOld, ckptNew, packed, conf, finished, pc, run, mine, act, drifted>>

Config ==
    /\ pc = "shards" /\ next > N
    /\ conf' = (IF conf = "all" THEN "all" ELSE "config") /\ pc' = "last"
    /\ UNCHANGED <<world, args, identity, ckpt, ckptOld, ckptNew, packed, text, finished, run, mine, act, next, drifted>>

QuantizationConfig ==
    /\ pc = "last"
    /\ conf' = "all" /\ finished' = TRUE /\ pc' = "idle" /\ act' = <<>>
    /\ UNCHANGED <<world, args, identity, ckpt, ckptOld, ckptNew, packed, text, run, mine, next, drifted>>

(***************************************************************************)
(* The process is killed (or an exception ends it): the file it is writing *)
(* is torn, or not touched yet.  The pinned inputs may change at any time. *)
(***************************************************************************)
Crash == \E torn \in BOOLEAN :
    LET Left(f, at) == IF torn /\ pc = at THEN Torn ELSE f
        At(m, at) == torn /\ pc = at /\ m = (IF at = "module" THEN Current ELSE next)
    IN /\ pc # "idle"
       /\ args' = Left(args, "args") /\ identity' = Left(identity, "freeze")
       /\ ckpt' = Left(ckpt, "job") /\ ckptNew' = Left(ckptNew, "write")
       /\ ckptOld' = IF ckptOld = None THEN None ELSE Left(ckptOld, "clear")
       /\ packed' = [m \in Modules |-> IF At(m, "module") THEN Torn ELSE packed[m]]
       /\ text' = [m \in Modules |-> IF At(m, "shards") THEN Torn ELSE text[m]]
       /\ conf' = IF torn /\ pc = "shards" /\ next > N THEN "none" ELSE conf
       /\ pc' = "idle" /\ act' = <<>> /\ next' = 1
       /\ UNCHANGED <<world, finished, run, mine, drifted>>

Edit ==
    /\ world < MaxEdits
    /\ world' = world + 1
    /\ drifted' = IF pc = "idle" THEN drifted ELSE drifted \union {run}
    /\ UNCHANGED <<disk, memory, finished>>

\* what an operator does when the process was killed between the two renames
Latest == IF Whole(ckpt) THEN ckpt ELSE IF Whole(ckptNew) THEN ckptNew ELSE ckptOld

Restore ==
    /\ pc = "idle" /\ ~Whole(ckpt) /\ Whole(Latest)
    /\ ckpt' = Latest
    /\ IF Whole(ckptNew) THEN ckptNew' = None /\ UNCHANGED ckptOld
                         ELSE ckptOld' = None /\ UNCHANGED ckptNew
    /\ UNCHANGED <<world, args, identity, packed, text, conf, finished, memory, drifted>>

Convert ==
    \/ Fresh \/ SaveArgs \/ SaveJob \/ Freeze \/ Resume
    \/ Quantize \/ Advance \/ WriteNew \/ ClearOld \/ MoveAway \/ Place
    \/ Compile \/ Shard \/ Config \/ QuantizationConfig

Next == Convert \/ Crash \/ Edit \/ Restore
Spec == Init /\ [][Next]_conversion

(***************************************************************************)
(* Properties.                                                             *)
(***************************************************************************)
Files == {None, Torn}
TypeOK ==
    /\ world \in 0..MaxEdits /\ run \in 0..MaxRuns /\ mine \in 0..MaxEdits
    /\ \A c \in {ckpt, ckptOld, ckptNew} : c \in Files \/ c \in [is : {"whole"}, act : Seq(1..MaxRuns)]
    /\ \A m \in Modules : \A f \in {packed[m], text[m]} :
          f \in Files \/ f \in [is : {"whole"}, run : 1..MaxRuns, src : 0..MaxEdits, act : Seq(1..MaxRuns)]

Chained(shards) == \A m \in Modules :
    /\ Whole(shards[m])
    /\ \A i \in 1..(m - 1) : shards[m].act[i] = shards[i].run

\* Every module of the candidate comes from the inputs pinned when the job began,
\* unless they changed under the process that made it (freeze_identity).
OneIdentity == finished =>
    \A m \in Modules : text[m].run \in drifted \/ identity = Identity(text[m].src)

\* What has been checkpointed is never lost: of the three directories one holds a
\* whole checkpoint, and no step leaves only an older one (the two renames).
Reached == IF Whole(Latest) THEN Len(Latest.act) ELSE 0
CheckpointSurvives == [][Reached' >= Reached]_conversion
=============================================================================
