--------------------------- MODULE PipelineProofs ---------------------------
(***************************************************************************)
(* For any number of modules, processes and edits: a finished candidate is *)
(* of one identity and one model, and no step of a job, a crash included,  *)
(* loses what had been checkpointed.  For any number of packagers beside   *)
(* it: what a complete report says of the package, and what a final report *)
(* says of the final package, is so.  And for a recovery of its head: the  *)
(* rows are those of the files its manifest names.                         *)
(***************************************************************************)
EXTENDS HeadRecovery, Packaging, SequenceTheorems, TLAPS

(* The conversion and its checkpoints.                                      *)

Starting == {"args", "job", "freeze"}
Looping == {"module", "advance", "write", "clear", "away", "place"}
Compiling == {"shards", "last"}

Checkpoints == [is : {"whole"}, act : Seq(Nat)]
PackedModules == [is : {"whole"}, run : Nat, src : Nat, act : Seq(Nat)]

Typed ==
  /\ world \in Nat /\ run \in Nat /\ mine \in Nat /\ next \in Nat
  /\ act \in Seq(Nat) /\ finished \in BOOLEAN /\ drifted \subseteq Nat
  /\ pc \in {"idle"} \cup Starting \cup Looping \cup Compiling
  /\ args \in {None, Torn, [is |-> "whole"]}
  /\ identity \in {None, Torn} \cup [is : {"whole"}, of : Nat]
  /\ \A c \in {ckpt, ckptOld, ckptNew} : c \in {None, Torn} \cup Checkpoints
  /\ packed \in [Modules -> {None, Torn} \cup PackedModules]
  /\ text \in [Modules -> {None, Torn} \cup PackedModules]
  /\ pc = "advance" => Current \in Modules /\ Whole(packed[Current])

\* Nothing is packed, compiled or set aside before the arguments are saved and
\* the identity is frozen.
Early ==
  /\ args = None \/ pc \in Starting =>
       /\ \A m \in Modules : ~Whole(packed[m]) /\ ~Whole(text[m])
       /\ ~Whole(ckptOld) /\ ~Whole(ckptNew)
  /\ args = None => pc \in {"idle", "args"} /\ ~Whole(ckpt)
  /\ pc \in {"args", "job"} => ckpt = Torn

\* A process at work has the frozen identity, unless its inputs changed under it.
Pinned ==
  /\ pc # "idle" => run \in drifted \/ world = mine
  /\ pc \in Looping \cup Compiling => identity = Identity(mine)
  /\ \A m \in Modules : \A f \in {packed[m], text[m]} :
       Whole(f) => f.run \in drifted \/ identity = Identity(f.src)

\* The shards compiled so far, all of them once the job is finished.
Compiled ==
  /\ pc \in Starting \cup Looping => next = 1
  /\ pc \in Compiling => ~finished
  /\ pc = "shards" => \A m \in Modules : m < next => Whole(text[m])
  /\ finished \/ pc = "last" => \A m \in Modules : Whole(text[m])

\* While a process works there is a whole checkpoint no further than it is.
Saved ==
  /\ pc \in ({"freeze"} \cup Looping \cup Compiling) \ {"place"} =>
       Whole(ckpt) /\ Len(ckpt.act) <= Len(act)
  /\ pc \in {"clear", "away", "place"} => ckptNew = Checkpoint(act)
  /\ pc = "place" => ckpt = None

\* The modules that the activations a came through are the packed ones, each made
\* against those before it.
Behind(a) == \A i \in 1..Len(a) :
  /\ i \in Modules /\ Whole(packed[i]) /\ a[i] = packed[i].run
  /\ \A j \in 1..(i - 1) : packed[i].act[j] = a[j]

\* So it is for a process at work and for the checkpoint the next one starts from.
Linked ==
  /\ pc \in Starting => act = <<>>
  /\ pc \in Looping \cup Compiling => Behind(act)
  /\ pc = "advance" => packed[Current].act = act
  /\ Whole(Latest) => Behind(Latest.act)

\* What is compiled is what is packed, in the end all of it.
Mirrored ==
  /\ pc \in Compiling => Len(act) >= N
  /\ pc = "shards" => \A m \in Modules : m < next => text[m] = packed[m]
  /\ pc = "last" => text = packed
  /\ finished => Chained(text)

ConversionInv == Typed /\ Early /\ Pinned /\ Compiled /\ Saved /\ Linked /\ Mirrored

-----------------------------------------------------------------------------
(* What each step keeps.                                                   *)

\* Types are kept.
LEMMA TypedStep ==
  ASSUME Typed, Next
  PROVE  Typed'
<1> USE ConversionAssumption DEF Typed, Checkpoints, PackedModules, Starting,
        Looping, Compiling, None, Torn, Checkpoint, Identity, Current, Whole
<1>1. CASE Fresh
  BY <1>1 DEF Fresh, Starts, Untouched
<1>2. CASE SaveArgs
  BY <1>2 DEF SaveArgs
<1>3. CASE SaveJob
  BY <1>3 DEF SaveJob, Checkpoint
<1>4. CASE Freeze
  BY <1>4 DEF Freeze, Identity
<1>5. CASE Resume
  <2>1. /\ Whole(ckpt) => ckpt.act \in Seq(Nat)
        /\ Found(ckpt) \in {None, Torn} \cup Checkpoints
    BY DEF Found
  <2>2. act' \in Seq(Nat) /\ pc' \in {"idle", "module"}
    BY <1>5, <2>1 DEF Resume
  <2>3. run' \in Nat /\ mine' \in Nat /\ next' \in Nat
    BY <1>5 DEF Resume, Starts
  <2> QED
    BY <1>5, <2>1, <2>2, <2>3 DEF Resume
<1>6. CASE Quantize
  BY <1>6 DEF Quantize, Current, Redo, PackedModule
<1>7. CASE Advance
  BY <1>7 DEF Advance, Current, disk
<1>8. CASE WriteNew
  BY <1>8 DEF WriteNew, Checkpoint
<1>9. CASE ClearOld
  BY <1>9 DEF ClearOld
<1>10. CASE MoveAway
  BY <1>10 DEF MoveAway
<1>11. CASE Place
  BY <1>11 DEF Place
<1>12. CASE Compile
  BY <1>12 DEF Compile, disk, Current
<1>13. CASE Shard
  BY <1>13 DEF Shard
<1>14. CASE Config
  BY <1>14 DEF Config
<1>15. CASE QuantizationConfig
  BY <1>15 DEF QuantizationConfig
<1>16. CASE Crash
  BY <1>16 DEF Crash
<1>17. CASE Edit
  BY <1>17 DEF Edit, disk, memory
<1>18. CASE Restore
  BY <1>18 DEF Restore, Latest, memory
<1> QED
  BY <1>1, <1>2, <1>3, <1>4, <1>5, <1>6, <1>7, <1>8, <1>9, <1>10, <1>11,
     <1>12, <1>13, <1>14, <1>15, <1>16, <1>17, <1>18 DEF Next, Convert

\* Until the job is set up there is nothing to lose.
LEMMA EarlyStep ==
  ASSUME Typed, Early, Next
  PROVE  Early'
<1> USE DEF Typed, Early, Whole, Starting, Looping, Compiling, None, Torn
<1>1. CASE Fresh
  BY <1>1 DEF Fresh, Starts, Untouched
<1>2. CASE SaveArgs
  BY <1>2 DEF SaveArgs
<1>3. CASE SaveJob
  BY <1>3 DEF SaveJob, Checkpoint
<1>4. CASE Freeze
  BY <1>4 DEF Freeze, Identity
<1>5. CASE Resume
  BY <1>5 DEF Resume, Starts, SameIdentity, Found
<1>6. CASE Quantize
  BY <1>6 DEF Quantize, Current, Redo, PackedModule
<1>7. CASE Advance
  BY <1>7 DEF Advance, Current, disk
<1>8. CASE WriteNew
  BY <1>8 DEF WriteNew, Checkpoint
<1>9. CASE ClearOld
  BY <1>9 DEF ClearOld
<1>10. CASE MoveAway
  BY <1>10 DEF MoveAway
<1>11. CASE Place
  BY <1>11 DEF Place
<1>12. CASE Compile
  BY <1>12 DEF Compile, disk, Current
<1>13. CASE Shard
  BY <1>13 DEF Shard
<1>14. CASE Config
  BY <1>14 DEF Config
<1>15. CASE QuantizationConfig
  BY <1>15 DEF QuantizationConfig
<1>16. CASE Crash
  BY <1>16 DEF Crash
<1>17. CASE Edit
  BY <1>17 DEF Edit, disk, memory
<1>18. CASE Restore
  BY <1>18 DEF Restore, Latest, memory
<1> QED
  BY <1>1, <1>2, <1>3, <1>4, <1>5, <1>6, <1>7, <1>8, <1>9, <1>10, <1>11,
     <1>12, <1>13, <1>14, <1>15, <1>16, <1>17, <1>18 DEF Next, Convert

\* Every module in a file has the identity of the job.
LEMMA PinnedStep ==
  ASSUME Typed, Early, Pinned, Next
  PROVE  Pinned'
<1> USE DEF Typed, Early, Pinned, Whole, Identity, Starting, Looping,
        Compiling, None, Torn
<1>1. CASE Fresh
  BY <1>1 DEF Fresh, Starts, Untouched
<1>2. CASE SaveArgs
  BY <1>2 DEF SaveArgs
<1>3. CASE SaveJob
  BY <1>3 DEF SaveJob, Checkpoint
<1>4. CASE Freeze
  BY <1>4 DEF Freeze, Identity
<1>5. CASE Resume
  BY <1>5 DEF Resume, Starts, SameIdentity, Found
<1>6. CASE Quantize
  BY <1>6 DEF Quantize, Current, Redo, PackedModule
<1>7. CASE Advance
  BY <1>7 DEF Advance, Current, disk
<1>8. CASE WriteNew
  BY <1>8 DEF WriteNew, Checkpoint
<1>9. CASE ClearOld
  BY <1>9 DEF ClearOld
<1>10. CASE MoveAway
  BY <1>10 DEF MoveAway
<1>11. CASE Place
  BY <1>11 DEF Place
<1>12. CASE Compile
  BY <1>12 DEF Compile, disk, Current
<1>13. CASE Shard
  BY <1>13 DEF Shard
<1>14. CASE Config
  BY <1>14 DEF Config
<1>15. CASE QuantizationConfig
  BY <1>15 DEF QuantizationConfig
<1>16. CASE Crash
  BY <1>16 DEF Crash
<1>17. CASE Edit
  BY <1>17 DEF Edit, disk, memory
<1>18. CASE Restore
  BY <1>18 DEF Restore, Latest, memory
<1> QED
  BY <1>1, <1>2, <1>3, <1>4, <1>5, <1>6, <1>7, <1>8, <1>9, <1>10, <1>11,
     <1>12, <1>13, <1>14, <1>15, <1>16, <1>17, <1>18 DEF Next, Convert

\* A finished candidate has every shard.
LEMMA CompiledStep ==
  ASSUME Typed, Early, Compiled, Next
  PROVE  Compiled'
<1> USE ConversionAssumption DEF Typed, Early, Compiled, Whole, Modules,
        Starting, Looping, Compiling, None, Torn
<1>1. CASE Fresh
  BY <1>1 DEF Fresh, Starts, Untouched
<1>2. CASE SaveArgs
  BY <1>2 DEF SaveArgs
<1>3. CASE SaveJob
  BY <1>3 DEF SaveJob, Checkpoint
<1>4. CASE Freeze
  BY <1>4 DEF Freeze, Identity
<1>5. CASE Resume
  BY <1>5 DEF Resume, Starts, SameIdentity, Found
<1>6. CASE Quantize
  BY <1>6 DEF Quantize, Current, Redo, PackedModule
<1>7. CASE Advance
  BY <1>7 DEF Advance, Current, disk
<1>8. CASE WriteNew
  BY <1>8 DEF WriteNew, Checkpoint
<1>9. CASE ClearOld
  BY <1>9 DEF ClearOld
<1>10. CASE MoveAway
  BY <1>10 DEF MoveAway
<1>11. CASE Place
  BY <1>11 DEF Place
<1>12. CASE Compile
  BY <1>12 DEF Compile, disk, Current
<1>13. CASE Shard
  BY <1>13 DEF Shard
<1>14. CASE Config
  BY <1>14 DEF Config
<1>15. CASE QuantizationConfig
  BY <1>15 DEF QuantizationConfig
<1>16. CASE Crash
  BY <1>16 DEF Crash
<1>17. CASE Edit
  BY <1>17 DEF Edit, disk, memory
<1>18. CASE Restore
  BY <1>18 DEF Restore, Latest, memory
<1> QED
  BY <1>1, <1>2, <1>3, <1>4, <1>5, <1>6, <1>7, <1>8, <1>9, <1>10, <1>11,
     <1>12, <1>13, <1>14, <1>15, <1>16, <1>17, <1>18 DEF Next, Convert

\* The checkpoint is behind the process, and the next one with it.
LEMMA SavedStep ==
  ASSUME Typed, Early, Saved, Next
  PROVE  Saved'
<1> USE DEF Typed, Saved, Whole, Checkpoint, Checkpoints, Starting, Looping,
        Compiling, None, Torn
<1>1. CASE Fresh
  BY <1>1 DEF Fresh, Starts, Untouched
<1>2. CASE SaveArgs
  BY <1>2 DEF SaveArgs
<1>3. CASE SaveJob
  BY <1>3 DEF SaveJob, Checkpoint
<1>4. CASE Freeze
  BY <1>4 DEF Freeze, Identity
<1>5. CASE Resume
  BY <1>5 DEF Resume, Starts, SameIdentity, Found
<1>6. CASE Quantize
  BY <1>6 DEF Quantize, Current, Redo, PackedModule
<1>7. CASE Advance
  BY <1>7 DEF Advance, Current, disk
<1>8. CASE WriteNew
  BY <1>8 DEF WriteNew, Checkpoint
<1>9. CASE ClearOld
  BY <1>9 DEF ClearOld
<1>10. CASE MoveAway
  BY <1>10 DEF MoveAway
<1>11. CASE Place
  BY <1>11 DEF Place
<1>12. CASE Compile
  BY <1>12 DEF Compile, disk, Current
<1>13. CASE Shard
  BY <1>13 DEF Shard
<1>14. CASE Config
  BY <1>14 DEF Config
<1>15. CASE QuantizationConfig
  BY <1>15 DEF QuantizationConfig
<1>16. CASE Crash
  BY <1>16 DEF Crash
<1>17. CASE Edit
  BY <1>17 DEF Edit, disk, memory
<1>18. CASE Restore
  BY <1>18 DEF Restore, Latest, memory
<1> QED
  BY <1>1, <1>2, <1>3, <1>4, <1>5, <1>6, <1>7, <1>8, <1>9, <1>10, <1>11,
     <1>12, <1>13, <1>14, <1>15, <1>16, <1>17, <1>18 DEF Next, Convert

\* What has been checkpointed is not lost.
LEMMA ReachedStep ==
  ASSUME Typed, Early, Saved, Next
  PROVE  Reached' >= Reached
<1> USE DEF Typed, Early, Saved, Whole, Reached, Latest, Checkpoint,
        Checkpoints, Starting, Looping, Compiling, None, Torn
<1>1. CASE Fresh
  BY <1>1 DEF Fresh, Starts, Untouched
<1>2. CASE SaveArgs
  BY <1>2 DEF SaveArgs
<1>3. CASE SaveJob
  BY <1>3 DEF SaveJob, Checkpoint
<1>4. CASE Freeze
  BY <1>4 DEF Freeze, Identity
<1>5. CASE Resume
  BY <1>5 DEF Resume, Starts, SameIdentity, Found
<1>6. CASE Quantize
  BY <1>6 DEF Quantize, Current, Redo, PackedModule
<1>7. CASE Advance
  BY <1>7 DEF Advance, Current, disk
<1>8. CASE WriteNew
  BY <1>8 DEF WriteNew, Checkpoint
<1>9. CASE ClearOld
  BY <1>9 DEF ClearOld
<1>10. CASE MoveAway
  BY <1>10 DEF MoveAway
<1>11. CASE Place
  BY <1>11 DEF Place
<1>12. CASE Compile
  BY <1>12 DEF Compile, disk, Current
<1>13. CASE Shard
  BY <1>13 DEF Shard
<1>14. CASE Config
  BY <1>14 DEF Config
<1>15. CASE QuantizationConfig
  BY <1>15 DEF QuantizationConfig
<1>16. CASE Crash
  BY <1>16 DEF Crash
<1>17. CASE Edit
  BY <1>17 DEF Edit, disk, memory
<1>18. CASE Restore
  BY <1>18 DEF Restore, Latest, memory
<1> QED
  BY <1>1, <1>2, <1>3, <1>4, <1>5, <1>6, <1>7, <1>8, <1>9, <1>10, <1>11,
     <1>12, <1>13, <1>14, <1>15, <1>16, <1>17, <1>18 DEF Next, Convert

\* The modules behind a process and behind its checkpoint are chained.
LEMMA LinkedStep ==
  ASSUME Typed, Early, Saved, Linked, Next
  PROVE  Linked'
<1> USE ConversionAssumption DEF Typed, Early, Saved, Linked, Behind, Latest,
        Current, Whole, Modules, Checkpoint, Checkpoints, PackedModules,
        Starting, Looping, Compiling, None, Torn
<1>1. CASE Fresh
  BY <1>1 DEF Fresh, Starts, Untouched
<1>2. CASE SaveArgs
  BY <1>2 DEF SaveArgs
<1>3. CASE SaveJob
  BY <1>3 DEF SaveJob, Checkpoint
<1>4. CASE Freeze
  BY <1>4 DEF Freeze, Identity
<1>5. CASE Resume
  BY <1>5 DEF Resume, Starts, SameIdentity, Found
<1>6. CASE Quantize
  BY <1>6 DEF Quantize, Current, Redo, PackedModule
<1>7. CASE Advance
  BY <1>7 DEF Advance, Current, disk
<1>8. CASE WriteNew
  BY <1>8 DEF WriteNew, Checkpoint
<1>9. CASE ClearOld
  BY <1>9 DEF ClearOld
<1>10. CASE MoveAway
  BY <1>10 DEF MoveAway
<1>11. CASE Place
  BY <1>11 DEF Place
<1>12. CASE Compile
  BY <1>12 DEF Compile, disk, Current
<1>13. CASE Shard
  BY <1>13 DEF Shard
<1>14. CASE Config
  BY <1>14 DEF Config
<1>15. CASE QuantizationConfig
  BY <1>15 DEF QuantizationConfig
<1>16. CASE Crash
  BY <1>16 DEF Crash
<1>17. CASE Edit
  BY <1>17 DEF Edit, disk, memory
<1>18. CASE Restore
  BY <1>18 DEF Restore, Latest, memory
<1> QED
  BY <1>1, <1>2, <1>3, <1>4, <1>5, <1>6, <1>7, <1>8, <1>9, <1>10, <1>11,
     <1>12, <1>13, <1>14, <1>15, <1>16, <1>17, <1>18 DEF Next, Convert

\* What is compiled is what is packed.
LEMMA MirroredStep ==
  ASSUME Typed, Early, Linked, Compiled, Mirrored, Next
  PROVE  Mirrored'
<1> USE ConversionAssumption DEF Typed, Early, Linked, Mirrored, Compiled,
        Behind, Chained, Current, Whole, Modules, Starting, Looping,
        Compiling, None, Torn
<1>1. CASE Fresh
  BY <1>1 DEF Fresh, Starts, Untouched
<1>2. CASE SaveArgs
  BY <1>2 DEF SaveArgs
<1>3. CASE SaveJob
  BY <1>3 DEF SaveJob, Checkpoint
<1>4. CASE Freeze
  BY <1>4 DEF Freeze, Identity
<1>5. CASE Resume
  BY <1>5 DEF Resume, Starts, SameIdentity, Found
<1>6. CASE Quantize
  BY <1>6 DEF Quantize, Current, Redo, PackedModule
<1>7. CASE Advance
  BY <1>7 DEF Advance, Current, disk
<1>8. CASE WriteNew
  BY <1>8 DEF WriteNew, Checkpoint
<1>9. CASE ClearOld
  BY <1>9 DEF ClearOld
<1>10. CASE MoveAway
  BY <1>10 DEF MoveAway
<1>11. CASE Place
  BY <1>11 DEF Place
<1>12. CASE Compile
  BY <1>12 DEF Compile, disk, Current
<1>13. CASE Shard
  BY <1>13 DEF Shard
<1>14. CASE Config
  BY <1>14 DEF Config
<1>15. CASE QuantizationConfig
  <2>1. pc = "last" /\ Behind(act) /\ N \in Nat /\ Len(act) \in Nat /\ Len(act) >= N
    BY <1>15 DEF QuantizationConfig
  <2>2. ASSUME NEW m \in Modules
        PROVE  /\ Whole(packed[m])
               /\ \A i \in 1..(m - 1) : packed[m].act[i] = packed[i].run
    <3>1. m \in 1..Len(act) /\ \A i \in 1..(m - 1) : i \in 1..Len(act)
      BY <2>1
    <3> QED
      BY <2>1, <3>1
  <2>3. Chained(packed)
    BY <2>2
  <2> QED
    BY <1>15, <2>1, <2>3 DEF QuantizationConfig
<1>16. CASE Crash
  BY <1>16 DEF Crash
<1>17. CASE Edit
  BY <1>17 DEF Edit, disk, memory
<1>18. CASE Restore
  BY <1>18 DEF Restore, Latest, memory
<1> QED
  BY <1>1, <1>2, <1>3, <1>4, <1>5, <1>6, <1>7, <1>8, <1>9, <1>10, <1>11,
     <1>12, <1>13, <1>14, <1>15, <1>16, <1>17, <1>18 DEF Next, Convert

-----------------------------------------------------------------------------
(* The invariant and what follows.                                         *)

\* It holds of a new job.
LEMMA ConversionStart == Init => ConversionInv
<1> SUFFICES ASSUME Init PROVE ConversionInv
  OBVIOUS
<1>1. Typed
  <2>1. <<>> \in Seq(Nat) /\ 0 \in Nat /\ 1 \in Nat /\ {} \subseteq Nat
    OBVIOUS
  <2>2. \A c \in {ckpt, ckptOld, ckptNew} : c = None
    BY DEF Init
  <2>3. pc = "idle" /\ finished = FALSE
    BY DEF Init
  <2> QED
    BY <2>1, <2>2, <2>3 DEF Init, Typed, Starting, Looping, Compiling
<1>2. Early /\ Pinned
  BY DEF Init, Early, Pinned, Whole, None, Starting, Looping, Compiling
<1>3. Compiled /\ Saved
  BY DEF Init, Compiled, Saved, Starting, Looping, Compiling
<1>4. Linked /\ Mirrored
  BY DEF Init, Linked, Mirrored, Latest, Whole, None, Starting, Looping, Compiling
<1> QED
  BY <1>1, <1>2, <1>3, <1>4 DEF ConversionInv

\* Every step keeps it.
LEMMA ConversionNext == ConversionInv /\ [Next]_conversion => ConversionInv'
<1> SUFFICES ASSUME ConversionInv, [Next]_conversion PROVE ConversionInv'
  OBVIOUS
<1>1. CASE Next
  BY <1>1, TypedStep, EarlyStep, PinnedStep, CompiledStep, SavedStep,
     LinkedStep, MirroredStep DEF ConversionInv
<1>2. CASE UNCHANGED conversion
  <2>1. Typed' /\ Early' /\ Pinned'
    BY <1>2 DEF conversion, disk, memory, ConversionInv, Typed, Early, Pinned, Current
  <2>2. Compiled' /\ Saved'
    BY <1>2 DEF conversion, disk, memory, ConversionInv, Compiled, Saved
  <2>3. Linked' /\ Mirrored'
    BY <1>2 DEF conversion, disk, memory, ConversionInv, Linked, Behind, Latest,
                Mirrored, Current
  <2> QED
    BY <2>1, <2>2, <2>3 DEF ConversionInv
<1> QED
  BY <1>1, <1>2

\* The invariant holds of every job (run_exl3_conversion, convert_model, compile).
THEOREM ConversionInvariance == Spec => []ConversionInv
BY ConversionStart, ConversionNext, PTL DEF Spec

\* Every module of a finished candidate comes from the inputs pinned when its job
\* began, unless they changed under the process that made it (freeze_identity).
THEOREM FinishedOfOneIdentity == Spec => []OneIdentity
<1>1. ConversionInv => OneIdentity
  BY DEF ConversionInv, Compiled, Pinned, OneIdentity
<1> QED
  BY <1>1, ConversionInvariance, PTL

\* A finished candidate is one model: however often the job was killed and resumed,
\* every module in it was quantised against the activations of the very modules
\* that are in it (the loop of convert_model.main, its checkpoints, compile_model).
THEOREM FinishedOfOneModel == Spec => [](finished => Chained(text))
<1>1. ConversionInv => (finished => Chained(text))
  BY DEF ConversionInv, Mirrored
<1> QED
  BY <1>1, ConversionInvariance, PTL

\* No step, crash included, leaves only an older checkpoint than there was (the
\* two renames of convert_model.main).
THEOREM CheckpointsKept == Spec => CheckpointSurvives
<1>1. ConversionInv /\ [Next]_conversion => [Reached' >= Reached]_conversion
  BY ReachedStep DEF ConversionInv
<1> QED
  BY <1>1, ConversionInvariance, PTL DEF Spec, CheckpointSurvives

-----------------------------------------------------------------------------
(* The packaging.                                                           *)

Shards == [Modules -> Files \cup PackedModules]
PStates == {"idle", "audit", "copy", "config", "reaudit", "report", "over"}
MStates == {"idle", "inventory", "donor", "directory", "copy", "config", "reverify",
            "report", "over"}

DirectoriesMade ==
  [is : {"directory"}, shards : Shards, conf : {None} \cup Configs, marker : BOOLEAN]

Directed ==
  /\ ppc \in [Packagers -> PStates] /\ mpc \in MStates
  /\ seen \in [Packagers -> Shards] /\ steady \in [Packagers -> BOOLEAN]
  /\ manifest \in Shards /\ spoiled \in BOOLEAN
  /\ pkg \in {None} \cup DirectoriesMade
  /\ report \in {None, Torn, Incomplete}
                \cup [is : {"complete"}, shards : Shards, steady : BOOLEAN]

\* What a steady packager has audited are the shards of a finished candidate.
Audited ==
  /\ \A p \in Packagers :
       /\ ppc[p] \in {"idle", "over"} => seen[p] = NoShards
       /\ steady[p] /\ ppc[p] = "audit" =>
            Chained(text) /\ \A m \in Modules : seen[p][m] \in {None, text[m]}
       /\ steady[p] /\ Made(p) => Chained(seen[p])
  /\ report.is = "complete" /\ report.steady => Chained(report.shards)

\* One packager at most has made the directory, and none has once the report is
\* complete: nothing but a change from outside reaches what was audited again.
Written ==
  /\ \A p, q \in Packagers : Made(p) /\ Made(q) => p = q
  /\ \A p \in Packagers :
       /\ Made(p) => pkg # None /\ report.is # "complete"
       /\ ppc[p] \in {"reaudit", "report"} => pkg.conf # None
       /\ ppc[p] = "report" => ~pkg.marker /\ (spoiled \/ pkg.shards = seen[p])
  /\ report.is = "complete" =>
       pkg # None /\ pkg.conf # None /\ ~pkg.marker /\ (spoiled \/ pkg.shards = report.shards)

\* A call of package_mimo_mtp.py starts from a complete report, and what it has
\* checked stays so.
Final ==
  /\ mpc \notin {"idle", "over"} => report.is = "complete" /\ manifest = report.shards
  /\ mpc \in {"donor", "directory", "copy", "config", "reverify", "report"} =>
       check_target_config(pkg.conf)
  /\ mpc \in {"directory", "copy", "config", "reverify", "report"} => DonorOk(mdonor)
  /\ mpc = "report" =>
       final.shards = manifest /\ final.donor = mdonor /\ final.conf = WithMtp(pkg.conf)
  /\ freport.is = "complete" => mpc = "over" /\ report.is = "complete" /\ FinalAsReported

PackagingInv == ConversionInv /\ Directed /\ Audited /\ Written /\ Final

-----------------------------------------------------------------------------
(* What each step keeps.                                                   *)

\* Every step of the packaging is one of the conversion, or leaves it alone.
LEMMA ConversionUnder == [PackagingNext]_pipeline => [Next]_conversion
BY DEF PackagingNext, Meanwhile, pipeline

\* A configuration that is written is one, and whole.
LEMMA Configured == OutputConfigs \subseteq Configs /\ None \notin Configs
<1>1. ASSUME NEW A, NEW M, 0 \in M,
             NEW c \in [architectures : A, text : BOOLEAN, vision : BOOLEAN, mtp : M, exl3 : BOOLEAN]
      PROVE  [c EXCEPT !.mtp = 0, !.exl3 = TRUE]
                \in [architectures : A, text : BOOLEAN, vision : BOOLEAN, mtp : M, exl3 : BOOLEAN]
  BY <1>1
<1>2. 0 \in -1..1
  OBVIOUS
<1>3. \A c \in Configs : OutputConfig(c) \in Configs
  BY <1>1, <1>2, Zenon DEF OutputConfig, Configs
<1>4. ASSUME NEW c \in Configs PROVE c # None
  <2>1. DOMAIN c = {"architectures", "text", "vision", "mtp", "exl3"}
    BY DEF Configs
  <2>2. DOMAIN None = {"is"}
    BY DEF None
  <2>3. "text" \in DOMAIN c /\ "text" \notin DOMAIN None
    BY <2>1, <2>2
  <2> QED
    BY <2>3
<1> QED
  BY <1>3, <1>4 DEF OutputConfigs

\* A shard is in one of three states.
LEMMA ShardStates ==
  /\ None \in Files \cup PackedModules /\ Torn \in Files \cup PackedModules
  /\ Other \in Files \cup PackedModules /\ NoShards \in Shards
  /\ Directory \in DirectoriesMade
  /\ Typed => text \in Shards /\ finished \in BOOLEAN
  /\ \A s \in Shards : \A m, f : f \in Files \cup PackedModules \/ m \notin Modules =>
       [s EXCEPT ![m] = f] \in Shards
  /\ \A s \in Shards, m \in Modules : s[m] \in Files \cup PackedModules
<1>1. None \in Files \cup PackedModules /\ Torn \in Files \cup PackedModules
  BY DEF Files
<1>2. Other \in Files \cup PackedModules
  <2>1. 0 \in Nat /\ <<>> \in Seq(Nat)
    OBVIOUS
  <2> QED
    BY <2>1 DEF PackedModules, Other
<1>3. Typed => text \in Shards /\ finished \in BOOLEAN
  BY DEF Typed, Files, Shards
<1>4. ASSUME NEW s \in Shards, NEW m, NEW f,
             f \in Files \cup PackedModules \/ m \notin Modules
      PROVE  [s EXCEPT ![m] = f] \in Shards
  BY <1>4 DEF Shards
<1>5. \A s \in Shards, m \in Modules : s[m] \in Files \cup PackedModules
  BY DEF Shards
<1>6. NoShards \in Shards
  BY <1>1 DEF NoShards, Shards
<1>7. Directory \in DirectoriesMade
  BY <1>6 DEF DirectoriesMade, Directory
<1> QED
  BY <1>1, <1>2, <1>3, <1>4, <1>5, <1>6, <1>7

\* Fields of the directory, one written at a time.
LEMMA Rewritten ==
  ASSUME NEW d \in DirectoriesMade, NEW c \in {None} \cup Configs,
         NEW s \in Shards, NEW b \in BOOLEAN
  PROVE  /\ [d EXCEPT !.conf = c] \in DirectoriesMade
         /\ [d EXCEPT !.shards = s] \in DirectoriesMade
         /\ [d EXCEPT !.marker = b] \in DirectoriesMade
<1>1. [d EXCEPT !.conf = c] = [is |-> d.is, shards |-> d.shards, conf |-> c, marker |-> d.marker]
  BY DEF DirectoriesMade
<1>2. [d EXCEPT !.shards = s] = [is |-> d.is, shards |-> s, conf |-> d.conf, marker |-> d.marker]
  BY DEF DirectoriesMade
<1>3. [d EXCEPT !.marker = b] = [is |-> d.is, shards |-> d.shards, conf |-> d.conf, marker |-> b]
  BY DEF DirectoriesMade
<1> QED
  BY <1>1, <1>2, <1>3 DEF DirectoriesMade

\* Types are kept.
LEMMA DirectedStep ==
  ASSUME Typed, Typed', Directed, Written, PackagingNext
  PROVE  Directed'
<1> USE ShardStates, Configured, Rewritten DEF Directed, PStates, MStates,
        None, Torn, Incomplete
<1>1. ASSUME NEW p \in Packagers, Exl3(p), UNCHANGED conversion
      PROVE  Directed'
  <2> USE <1>1 DEF conversion, disk, mtp, exl3, To, Made, Forget
  <2>0. UNCHANGED <<mtp, donor, spoiled>>
    BY DEF Exl3
  <2> USE <2>0
  <2>10. CASE Fail(p)
    <3>1. Made(p) => pkg \in DirectoriesMade
      BY DEF Written
    <3> QED
      BY <2>10, <3>1 DEF Fail
  <2>1. CASE Check(p)
    BY <2>1, <2>10 DEF Check, Misplaced, NewPaths
  <2>2. CASE Audit1(p)
    <3> DEFINE m == NextOf(seen[p])
    <3>1. [seen[p] EXCEPT ![m] = text[m]] \in Shards
      OBVIOUS
    <3>2. [seen EXCEPT ![p][m] = text[m]] \in [Packagers -> Shards]
      BY <3>1
    <3> QED
      BY <2>2, <2>10, <3>2 DEF Audit1
  <2>3. CASE MakeDirectory(p)
    <3>1. CASE pkg' = Directory /\ To(p, "copy") /\ UNCHANGED <<seen, steady, report>>
      BY <2>3, <3>1 DEF MakeDirectory
    <3> QED
      BY <2>3, <2>10, <3>1 DEF MakeDirectory
  <2>4. CASE Copy(p)
    <3>1. pkg \in DirectoriesMade /\ pkg.shards \in Shards
      BY <2>4 DEF Copy, Written, DirectoriesMade
    <3> DEFINE m == NextOf(pkg.shards)
               s == [pkg.shards EXCEPT ![m] = text[m]]
    <3>2. s \in Shards /\ [pkg EXCEPT !.shards = s] \in DirectoriesMade
      BY <3>1
    <3>3. [pkg EXCEPT !.shards[m] = text[m]] = [pkg EXCEPT !.shards = s]
      BY <3>1 DEF DirectoriesMade
    <3> QED
      BY <2>4, <2>10, <3>2, <3>3 DEF Copy
  <2>5. CASE WriteConfig(p)
    <3>1. pkg \in DirectoriesMade
      BY <2>5 DEF WriteConfig, Written
    <3>2. PICK c \in Configs : pkg' = [pkg EXCEPT !.conf = c]
      BY <2>5 DEF WriteConfig
    <3>3. pkg' \in DirectoriesMade
      BY <3>1, <3>2
    <3> QED
      BY <2>5, <3>3 DEF WriteConfig
  <2>6. CASE Reaudit(p)
    BY <2>6, <2>10 DEF Reaudit, Copied
  <2>7. CASE Report(p)
    <3>1. [is |-> "complete", shards |-> seen[p], steady |-> steady[p]]
            \in [is : {"complete"}, shards : Shards, steady : BOOLEAN]
      OBVIOUS
    <3>2. seen' \in [Packagers -> Shards] /\ steady' \in [Packagers -> BOOLEAN]
      BY <2>7, <2>10 DEF Report
    <3> QED
      BY <2>7, <2>10, <3>1, <3>2 DEF Report
  <2>8. CASE Errs(p)
    BY <2>8, <2>10 DEF Errs
  <2>9. CASE Killed(p)
    <3> DEFINE m == NextOf(pkg.shards)
               s == [pkg.shards EXCEPT ![m] = Torn]
    <3>1. ppc[p] = "copy" => pkg \in DirectoriesMade /\ pkg.shards \in Shards
      BY DEF Written, DirectoriesMade
    <3>2. ppc[p] = "copy" => s \in Shards /\ [pkg EXCEPT !.shards = s] \in DirectoriesMade
      BY <3>1
    <3>3. ppc[p] = "copy" => [pkg EXCEPT !.shards[m] = Torn] = [pkg EXCEPT !.shards = s]
      BY <3>1 DEF DirectoriesMade
    <3> QED
      BY <2>9, <3>2, <3>3 DEF Killed, Working
  <2> QED
    BY <2>1, <2>2, <2>3, <2>4, <2>5, <2>6, <2>7, <2>8, <2>9 DEF Exl3
<1>2. ASSUME Mtp, UNCHANGED conversion
      PROVE  Directed'
  <2> USE <1>2 DEF conversion, disk, exl3, MGo, MFail, MForget
  <2>0. UNCHANGED <<exl3, donor, spoiled>>
    BY DEF Mtp
  <2> USE <2>0
  <2>1. CASE MStart
    BY <2>1 DEF MStart
  <2>2. CASE MInventory
    BY <2>2 DEF MInventory, AsManifest
  <2>3. CASE MDonor
    BY <2>3 DEF MDonor
  <2>4. CASE MDirectory
    BY <2>4 DEF MDirectory
  <2>5. CASE MCopy
    BY <2>5 DEF MCopy
  <2>6. CASE MConfig
    BY <2>6 DEF MConfig
  <2>7. CASE MReverify
    BY <2>7 DEF MReverify, Reverified
  <2>8. CASE MReport
    BY <2>8 DEF MReport
  <2>9. CASE MErrs
    BY <2>9 DEF MErrs
  <2>10. CASE MKilled
    BY <2>10 DEF MKilled, MWorking
  <2> QED
    BY <2>1, <2>2, <2>3, <2>4, <2>5, <2>6, <2>7, <2>8, <2>9, <2>10 DEF Mtp
<1>3. CASE Spoil /\ UNCHANGED conversion
  <2>1. ASSUME NEW m \in Modules, pkg # None, pkg' = [pkg EXCEPT !.shards[m] = Other]
        PROVE  pkg' \in DirectoriesMade
    <3> DEFINE s == [pkg.shards EXCEPT ![m] = Other]
    <3>1. pkg \in DirectoriesMade /\ pkg.shards \in Shards
      BY <2>1 DEF DirectoriesMade
    <3>2. s \in Shards /\ [pkg EXCEPT !.shards = s] \in DirectoriesMade
      BY <3>1
    <3>3. [pkg EXCEPT !.shards[m] = Other] = [pkg EXCEPT !.shards = s]
      BY <3>1 DEF DirectoriesMade
    <3> QED
      BY <2>1, <3>2, <3>3
  <2> QED
    BY <1>3, <2>1 DEF Spoil, Filled, mtp, conversion, disk
<1>4. CASE RemoveLeft /\ UNCHANGED conversion
  BY <1>4 DEF RemoveLeft, Working, mtp, conversion, disk, Made
<1>5. CASE Meanwhile
  BY <1>5 DEF Meanwhile, mtp
<1> QED
  BY <1>1, <1>2, <1>3, <1>4, <1>5 DEF PackagingNext

\* What a steady packager audits is a finished candidate, while it audits it.
LEMMA AuditedStep ==
  ASSUME ConversionInv, Directed, Directed', Audited, PackagingNext
  PROVE  Audited'
<1> USE DEF Directed, PStates, Audited, NoShards, None, Torn, Incomplete
<1>1. ASSUME NEW p \in Packagers, Exl3(p), UNCHANGED conversion
      PROVE  Audited'
  <2> USE <1>1 DEF conversion, disk, mtp, exl3, To, Made, Forget
  <2>0. UNCHANGED <<mtp, donor, spoiled>>
    BY DEF Exl3
  <2> USE <2>0
  <2>10. CASE Fail(p)
    BY <2>10 DEF Fail
  <2>1. CASE Check(p)
    BY <2>1, <2>10 DEF Check, Misplaced, NewPaths, ConversionInv, Mirrored
  <2>2. CASE Audit1(p)
    <3> DEFINE m == NextOf(seen[p])
    <3>1. seen[p] \in Shards /\ seen'[p] \in Shards
      BY <2>2, <2>10 DEF Audit1
    <3>2. CASE seen' = [seen EXCEPT ![p][m] = text[m]] /\ UNCHANGED <<ppc, steady, pkg, report>>
      <4>1. \A q \in Packagers : q # p => seen'[q] = seen[q]
        BY <3>2
      <4>2. seen'[p] = [seen[p] EXCEPT ![m] = text[m]]
        BY <3>2
      <4>3. \A i \in Modules : seen'[p][i] \in {seen[p][i], text[i]}
        BY <3>1, <4>2 DEF Shards
      <4> QED
        BY <2>2, <3>2, <4>1, <4>3 DEF Audit1
    <3> QED
      BY <2>2, <2>10, <3>2 DEF Audit1
  <2>3. CASE MakeDirectory(p)
    <3>1. CASE pkg' = Directory /\ To(p, "copy") /\ UNCHANGED <<seen, steady, report>>
      <4>1. steady[p] => Chained(text) /\ \A m \in Modules : seen[p][m] = text[m]
        BY <2>3 DEF MakeDirectory, Filled
      <4>2. steady[p] => Chained(seen[p])
        BY <4>1, ConversionAssumption DEF Chained, Modules
      <4> QED
        BY <2>3, <3>1, <4>2 DEF MakeDirectory
    <3> QED
      BY <2>3, <2>10, <3>1 DEF MakeDirectory
  <2>4. CASE Copy(p)
    BY <2>4, <2>10 DEF Copy
  <2>5. CASE WriteConfig(p)
    BY <2>5, <2>10 DEF WriteConfig
  <2>6. CASE Reaudit(p)
    BY <2>6, <2>10 DEF Reaudit, Copied
  <2>7. CASE Report(p)
    BY <2>7, <2>10 DEF Report
  <2>8. CASE Errs(p)
    BY <2>8, <2>10 DEF Errs
  <2>9. CASE Killed(p)
    BY <2>9, <2>10 DEF Killed, Working
  <2> QED
    BY <2>1, <2>2, <2>3, <2>4, <2>5, <2>6, <2>7, <2>8, <2>9 DEF Exl3
<1>2. CASE Mtp /\ UNCHANGED conversion
  BY <1>2 DEF Mtp, exl3, conversion, disk, Made
<1>3. CASE Spoil /\ UNCHANGED conversion
  BY <1>3 DEF Spoil, Filled, mtp, conversion, disk, Made
<1>4. CASE RemoveLeft /\ UNCHANGED conversion
  BY <1>4 DEF RemoveLeft, Working, mtp, conversion, disk, Made
<1>5. CASE Meanwhile
  BY <1>5 DEF Meanwhile, mtp, Made
<1> QED
  BY <1>1, <1>2, <1>3, <1>4, <1>5 DEF PackagingNext

\* What has been audited again is not touched.
LEMMA WrittenStep ==
  ASSUME Directed, Directed', Written, PackagingNext
  PROVE  Written'
<1> USE Configured DEF Directed, PStates, Written, None, Torn, Incomplete
<1>1. ASSUME NEW p \in Packagers, Exl3(p), UNCHANGED conversion
      PROVE  Written'
  <2> USE <1>1 DEF conversion, disk, mtp, exl3, To, Made, Forget
  <2>0. UNCHANGED <<mtp, donor, spoiled>>
    BY DEF Exl3
  <2> USE <2>0
  <2>10. CASE Fail(p)
    BY <2>10 DEF Fail
  <2>1. CASE Check(p)
    BY <2>1, <2>10 DEF Check, Misplaced, NewPaths
  <2>2. CASE Audit1(p)
    BY <2>2, <2>10 DEF Audit1
  <2>3. CASE MakeDirectory(p)
    BY <2>3, <2>10 DEF MakeDirectory, Directory, Filled
  <2>4. CASE Copy(p)
    <3>1. pkg \in DirectoriesMade
      BY <2>4 DEF Copy
    <3>2. ASSUME NEW m, NEW f PROVE [pkg EXCEPT !.shards[m] = f] # None
      BY <3>1 DEF DirectoriesMade
    <3> QED
      BY <2>4, <2>10, <3>2 DEF Copy
  <2>5. CASE WriteConfig(p)
    <3>1. pkg \in DirectoriesMade
      BY <2>5 DEF WriteConfig
    <3>2. PICK c \in Configs : pkg' = [pkg EXCEPT !.conf = c]
      BY <2>5 DEF WriteConfig
    <3>3. pkg' # None /\ pkg'.conf # None
      BY <3>1, <3>2 DEF DirectoriesMade
    <3> QED
      BY <2>5, <3>3 DEF WriteConfig
  <2>6. CASE Reaudit(p)
    <3>1. pkg \in DirectoriesMade
      BY <2>6 DEF Reaudit
    <3>2. Copied(p) => pkg.shards = seen[p]
      BY <3>1 DEF Copied, DirectoriesMade, Shards
    <3> QED
      BY <2>6, <2>10, <3>2 DEF Reaudit
  <2>7. CASE Report(p)
    BY <2>7, <2>10 DEF Report
  <2>8. CASE Errs(p)
    BY <2>8, <2>10 DEF Errs
  <2>9. CASE Killed(p)
    BY <2>9, <2>10 DEF Killed, Working
  <2> QED
    BY <2>1, <2>2, <2>3, <2>4, <2>5, <2>6, <2>7, <2>8, <2>9 DEF Exl3
<1>2. CASE Mtp /\ UNCHANGED conversion
  BY <1>2 DEF Mtp, exl3, conversion, disk, Made
<1>3. CASE Spoil /\ UNCHANGED conversion
  <2>1. ASSUME NEW m, pkg # None
        PROVE  /\ [pkg EXCEPT !.shards[m] = Other] # None
               /\ [pkg EXCEPT !.shards[m] = Other].conf = pkg.conf
               /\ [pkg EXCEPT !.shards[m] = Other].marker = pkg.marker
    BY <2>1 DEF DirectoriesMade
  <2> QED
    BY <1>3, <2>1 DEF Spoil, mtp, Made
<1>4. CASE RemoveLeft /\ UNCHANGED conversion
  BY <1>4 DEF RemoveLeft, Working, mtp, conversion, disk, Made
<1>5. CASE Meanwhile
  BY <1>5 DEF Meanwhile, mtp, Made
<1> QED
  BY <1>1, <1>2, <1>3, <1>4, <1>5 DEF PackagingNext

\* A final report is of what the first reports and the donor checked.
LEMMA FinalStep ==
  ASSUME Directed, Written, Final, PackagingNext
  PROVE  Final'
<1> USE Configured DEF Directed, PStates, MStates, Written, Final,
        FinalAsReported, None, Torn, Incomplete
<1>1. ASSUME NEW p \in Packagers, Exl3(p), UNCHANGED conversion
      PROVE  Final'
  <2> USE <1>1 DEF conversion, disk, mtp, exl3, To, Made, Forget
  <2>0. UNCHANGED <<mtp, donor, spoiled>>
    BY DEF Exl3
  <2> USE <2>0
  <2>10. CASE Fail(p)
    BY <2>10 DEF Fail
  <2>1. CASE Check(p)
    BY <2>1, <2>10 DEF Check, Misplaced, NewPaths
  <2>2. CASE Audit1(p)
    BY <2>2, <2>10 DEF Audit1
  <2>3. CASE MakeDirectory(p)
    BY <2>3, <2>10 DEF MakeDirectory, Directory, Filled
  <2>4. CASE Copy(p)
    BY <2>4, <2>10 DEF Copy
  <2>5. CASE WriteConfig(p)
    BY <2>5, <2>10 DEF WriteConfig
  <2>6. CASE Reaudit(p)
    BY <2>6, <2>10 DEF Reaudit, Copied
  <2>7. CASE Report(p)
    BY <2>7, <2>10 DEF Report
  <2>8. CASE Errs(p)
    BY <2>8, <2>10 DEF Errs
  <2>9. CASE Killed(p)
    BY <2>9, <2>10 DEF Killed, Working
  <2> QED
    BY <2>1, <2>2, <2>3, <2>4, <2>5, <2>6, <2>7, <2>8, <2>9 DEF Exl3
<1>2. ASSUME Mtp, UNCHANGED conversion
      PROVE  Final'
  <2> USE <1>2 DEF conversion, disk, exl3, MGo, MFail, MForget, Made
  <2>0. UNCHANGED <<exl3, donor, spoiled>>
    BY DEF Mtp
  <2> USE <2>0
  <2>1. CASE MStart
    BY <2>1 DEF MStart
  <2>2. CASE MInventory
    BY <2>2 DEF MInventory, AsManifest
  <2>3. CASE MDonor
    BY <2>3 DEF MDonor
  <2>4. CASE MDirectory
    BY <2>4 DEF MDirectory
  <2>5. CASE MCopy
    BY <2>5 DEF MCopy
  <2>6. CASE MConfig
    BY <2>6 DEF MConfig, WithMtp
  <2>7. CASE MReverify
    BY <2>7 DEF MReverify, Reverified
  <2>8. CASE MReport
    <3>1. report.is = "complete" /\ manifest = report.shards /\ pkg.conf \in Configs
      BY <2>8 DEF MReport, DirectoriesMade
    <3>2. WithMtp(pkg.conf).mtp = 1 /\ "moe" \notin WithMtp(pkg.conf).architectures
      BY <2>8, <3>1 DEF MReport, WithMtp, check_target_config, Configs
    <3> QED
      BY <2>8, <3>1, <3>2 DEF MReport
  <2>9. CASE MErrs
    BY <2>9 DEF MErrs
  <2>10. CASE MKilled
    BY <2>10 DEF MKilled, MWorking
  <2> QED
    BY <2>1, <2>2, <2>3, <2>4, <2>5, <2>6, <2>7, <2>8, <2>9, <2>10 DEF Mtp
<1>3. CASE Spoil /\ UNCHANGED conversion
  <2>1. ASSUME NEW m, pkg # None
        PROVE  [pkg EXCEPT !.shards[m] = Other].conf = pkg.conf
    BY <2>1 DEF DirectoriesMade
  <2> QED
    BY <1>3, <2>1 DEF Spoil, mtp
<1>4. CASE RemoveLeft /\ UNCHANGED conversion
  BY <1>4 DEF RemoveLeft, Working, mtp, conversion, disk, Made
<1>5. CASE Meanwhile
  BY <1>5 DEF Meanwhile, mtp
<1> QED
  BY <1>1, <1>2, <1>3, <1>4, <1>5 DEF PackagingNext

-----------------------------------------------------------------------------
(* The invariant and what follows.                                         *)

\* It holds before anything is packaged.
LEMMA PackagingStart == Init /\ PackagingInit => PackagingInv
<1> SUFFICES ASSUME Init, PackagingInit PROVE PackagingInv
  OBVIOUS
<1>1. ConversionInv
  BY ConversionStart
<1>2. Directed /\ Audited
  BY ShardStates DEF PackagingInit, Directed, Audited, PStates, MStates, None, Made
<1>3. Written /\ Final
  BY DEF PackagingInit, Written, Final, None, Made
<1> QED
  BY <1>1, <1>2, <1>3 DEF PackagingInv

\* Every step keeps it.
LEMMA PackagingStep == PackagingInv /\ [PackagingNext]_pipeline => PackagingInv'
<1> SUFFICES ASSUME PackagingInv, [PackagingNext]_pipeline PROVE PackagingInv'
  OBVIOUS
<1>1. ConversionInv'
  BY ConversionUnder, ConversionNext DEF PackagingInv
<1>2. CASE PackagingNext
  BY <1>1, <1>2, DirectedStep, AuditedStep, WrittenStep, FinalStep
     DEF PackagingInv, ConversionInv
<1>3. CASE UNCHANGED pipeline
  <2>1. Directed' /\ Audited'
    BY <1>3 DEF PackagingInv, pipeline, packaging, exl3, mtp, conversion, disk,
                Directed, Audited, Made
  <2>2. Written' /\ Final'
    BY <1>3 DEF PackagingInv, pipeline, packaging, exl3, mtp, Written, Final, Made,
                FinalAsReported
  <2> QED
    BY <1>1, <2>1, <2>2 DEF PackagingInv
<1> QED
  BY <1>2, <1>3

\* The invariant holds of every packaging (package_mimo_exl3.run, package_mimo_mtp.run).
THEOREM PackagingInvariance == PackagingSpec => []PackagingInv
BY PackagingStart, PackagingStep, PTL DEF PackagingSpec

\* A complete report tells the truth about its directory, with any number of calls
\* aimed at it, any of which may fail or be killed, and a candidate rewritten while it
\* is copied (run, _verify_output of package_mimo_exl3.py).
THEOREM ReportsTruthful == PackagingSpec => []ReportTruthful
<1>1. PackagingInv => ReportTruthful
  BY DEF PackagingInv, Written, Directed, ReportTruthful
<1> QED
  BY <1>1, PackagingInvariance, PTL

\* A package of a finished candidate that nothing wrote to during the audit is one
\* model (audit_text_candidate, and the job that made the candidate).
THEOREM PackagesChained == PackagingSpec => []PackageChained
<1>1. PackagingInv => PackageChained
  BY DEF PackagingInv, Audited, PackageChained
<1> QED
  BY <1>1, PackagingInvariance, PTL

\* A final package holds the weights of the first report and the donor that was
\* checked, whatever was changed before, between or after the checks (package_mimo_mtp.run).
THEOREM FinalsAsReported == PackagingSpec => []FinalAsReported
<1>1. PackagingInv => FinalAsReported
  BY DEF PackagingInv, Final, FinalAsReported
<1> QED
  BY <1>1, PackagingInvariance, PTL

-----------------------------------------------------------------------------
(* The recovery of the head, beside a conversion that may be resumed.       *)

Identities == {None, Torn} \cup [is : {"whole"}, of : Nat]
ModuleFiles == [Modules -> {None, Torn} \cup PackedModules]
AuditsMade == [is : {"whole"}, ckpt : Checkpoints, packed : ModuleFiles, identity : Identities]
Claims == [head : PackedModules, ckpt : Checkpoints]
RowsMade == [is : {"rows"}, head : PackedModules, state : Checkpoints]
RowsDone == [is : {"whole"}, head : PackedModules, state : Checkpoints, claim : Claims]
Copies == [is : {"copy"}, state : Checkpoints, header : {Plan}]
Assemblies ==
  [is : {"whole"}, from : Checkpoints, claim : Checkpoints, header : {Plan}, act : Seq(Nat)]

RecordsTyped ==
  /\ rpc \in {"idle", "verify", "forward", "finish"}
  /\ apc \in {"idle", "copy", "stream", "complete"} /\ raced \in BOOLEAN
  /\ audit \in {None} \cup AuditsMade /\ evidence \in {None} \cup AuditsMade
  /\ rows \in {None, Part} \cup RowsMade \cup RowsDone
  /\ asm \in {None, Part} \cup Copies \cup Assemblies
  /\ hashed \in {None} \cup Checkpoints
  /\ rpc # "idle" => evidence \in AuditsMade
  /\ rpc \in {"verify", "forward"} => rows = Part
  /\ rpc = "finish" => rows \in RowsMade
  /\ apc # "idle" => hashed \in Checkpoints /\ rows \in RowsDone
  /\ apc \in {"stream", "complete"} => asm \in Copies

\* The modules in front of the head that the activations a came through are the
\* packed ones; of the head a promoted checkpoint may know another run.
Drawn(a) == \A i \in 1..Len(a) :
  i \in Modules /\ (i < N => Whole(packed[i]) /\ a[i] = packed[i].run)

DrawnAll ==
  /\ pc \in Starting => act = <<>>
  /\ pc \in Looping \cup Compiling => Drawn(act)
  /\ pc = "advance" => packed[Current].act = act
  /\ Whole(Latest) => Drawn(Latest.act)

\* A head of the last process was made against the checkpoint in front of it.
HeadDrawn ==
  Whole(packed[N]) =>
    /\ packed[N].run <= run
    /\ packed[N].run = run =>
         /\ pc \notin Starting
         /\ pc \in Looping \cup Compiling =>
              Len(act) = N \/ (pc = "advance" /\ Len(act) = N - 1)
         /\ Whole(Latest) /\ Len(Latest.act) = N - 1 => packed[N].act = Latest.act

\* The head an audit saw is of a process that has ended.  While it lies there as it
\* was, so does the checkpoint, unless an assembled one took its place.
SameHead(a) == Whole(packed[N]) /\ packed[N].run = a.packed[N].run
HeadAudited ==
  \A a \in {audit, evidence} : Whole(a) =>
    /\ Whole(a.packed[N]) /\ Len(a.ckpt.act) = N - 1 /\ a.packed[N].act = a.ckpt.act
    /\ a.packed[N].run <= run /\ (pc # "idle" => a.packed[N].run < run)
    /\ SameHead(a) =>
         /\ packed[N] = a.packed[N]
         /\ pc \in {"idle", "module"} \cup Compiling
         /\ Whole(ckpt) /\ (ckpt = a.ckpt \/ Len(ckpt.act) = N)
         /\ pc = "module" => act = ckpt.act

\* Rows computed from anything else are never signed.
Computed ==
  /\ rpc = "finish" /\ SameHead(evidence) =>
       /\ rows.head = evidence.packed[N]
       /\ rows.state = evidence.ckpt \/ Len(ckpt.act) = N
  /\ Whole(rows) =>
       rows.head = rows.claim.head /\ rows.state = rows.claim.ckpt
       /\ rows.head.act = rows.state.act

\* The checkpoint that was hashed is the one that is copied, unless it was replaced.
Assembled ==
  /\ apc # "idle" =>
       Len(hashed.act) = N - 1 /\ hashed.act = rows.head.act /\ (raced \/ hashed = ckpt)
  /\ apc = "copy" => asm = Part
  /\ apc \in {"stream", "complete"} => raced \/ asm.state = hashed
  /\ apc = "complete" \/ Whole(asm) => read_header(Plan, EndOf(Plan))
  /\ Whole(asm) =>
       /\ Whole(rows) /\ asm.act = Append(asm.claim.act, rows.head.run)
       /\ Len(asm.claim.act) = N - 1 /\ asm.claim.act = rows.head.act
       /\ raced \/ asm.from = asm.claim

ConversionPart == Typed /\ Early /\ Pinned /\ Compiled /\ Saved /\ DrawnAll /\ HeadDrawn
RecoveryInv == ConversionPart /\ RecordsTyped /\ HeadAudited /\ Computed /\ Assembled

\* What lies in front of the head, while modules are quantised.
LEMMA DrawnStep ==
  ASSUME Typed, Early, Saved, DrawnAll, Next
  PROVE  DrawnAll'
<1> USE ConversionAssumption DEF Typed, Early, Saved, DrawnAll, Drawn, Latest,
        Current, Whole, Modules, Checkpoint, Checkpoints, PackedModules,
        Starting, Looping, Compiling, None, Torn
<1>1. CASE Fresh
  BY <1>1 DEF Fresh, Starts, Untouched
<1>2. CASE SaveArgs
  BY <1>2 DEF SaveArgs
<1>3. CASE SaveJob
  BY <1>3 DEF SaveJob, Checkpoint
<1>4. CASE Freeze
  BY <1>4 DEF Freeze, Identity
<1>5. CASE Resume
  BY <1>5 DEF Resume, Starts, SameIdentity, Found
<1>6. CASE Quantize
  BY <1>6 DEF Quantize, Current, Redo, PackedModule
<1>7. CASE Advance
  BY <1>7 DEF Advance, Current, disk
<1>8. CASE WriteNew
  BY <1>8 DEF WriteNew, Checkpoint
<1>9. CASE ClearOld
  BY <1>9 DEF ClearOld
<1>10. CASE MoveAway
  BY <1>10 DEF MoveAway
<1>11. CASE Place
  BY <1>11 DEF Place
<1>12. CASE Compile
  BY <1>12 DEF Compile, disk, Current
<1>13. CASE Shard
  BY <1>13 DEF Shard
<1>14. CASE Config
  BY <1>14 DEF Config
<1>15. CASE QuantizationConfig
  BY <1>15 DEF QuantizationConfig
<1>16. CASE Crash
  BY <1>16 DEF Crash
<1>17. CASE Edit
  BY <1>17 DEF Edit, disk, memory
<1>18. CASE Restore
  BY <1>18 DEF Restore, Latest, memory
<1> QED
  BY <1>1, <1>2, <1>3, <1>4, <1>5, <1>6, <1>7, <1>8, <1>9, <1>10, <1>11,
     <1>12, <1>13, <1>14, <1>15, <1>16, <1>17, <1>18 DEF Next, Convert

\* What a head of the last process was made against.
LEMMA HeadStep ==
  ASSUME Typed, Early, Saved, DrawnAll, HeadDrawn, Next
  PROVE  HeadDrawn'
<1> USE ConversionAssumption DEF Typed, Early, Saved, DrawnAll, Drawn, HeadDrawn, Latest,
        Current, Whole, Modules, Checkpoint, Checkpoints, PackedModules,
        Starting, Looping, Compiling, None, Torn
<1>1. CASE Fresh
  BY <1>1 DEF Fresh, Starts, Untouched
<1>2. CASE SaveArgs
  BY <1>2 DEF SaveArgs
<1>3. CASE SaveJob
  BY <1>3 DEF SaveJob, Checkpoint
<1>4. CASE Freeze
  BY <1>4 DEF Freeze, Identity
<1>5. CASE Resume
  BY <1>5 DEF Resume, Starts, SameIdentity, Found
<1>6. CASE Quantize
  <2>1. /\ pc = "module" /\ Len(act) + 1 \in Modules /\ Whole(ckpt) /\ Len(ckpt.act) <= Len(act)
        /\ packed' = [packed EXCEPT ![Len(act) + 1] = PackedModule(Len(act) + 1)]
        /\ pc' = "advance" /\ run' = run /\ act' = act /\ Latest' = Latest /\ Latest = ckpt
        /\ act \in Seq(Nat) /\ ckpt.act \in Seq(Nat)
    BY <1>6 DEF Quantize, Redo
  <2>2. CASE Len(act) + 1 = N
    <3>1. packed'[N] = PackedModule(N)
      BY <2>1, <2>2
    <3>2. Len(ckpt.act) = N - 1 => ckpt.act = act
      <4> SUFFICES ASSUME Len(ckpt.act) = N - 1 PROVE ckpt.act = act
        OBVIOUS
      <4>1. Drawn(act) /\ Drawn(ckpt.act) /\ Len(act) = Len(ckpt.act)
        BY <2>1, <2>2
      <4>2. \A i \in 1..Len(act) : i < N /\ act[i] = packed[i].run /\ ckpt.act[i] = packed[i].run
        BY <2>1, <2>2, <4>1
      <4> QED BY <2>1, <4>1, <4>2, SeqEqual
    <3> QED BY <2>1, <2>2, <3>1, <3>2 DEF PackedModule
  <2>3. CASE Len(act) + 1 # N
    <3>1. packed'[N] = packed[N] /\ Len(act) # N
      BY <2>1, <2>3
    <3> QED BY <2>1, <2>3, <3>1
  <2> QED BY <2>2, <2>3
<1>7. CASE Advance
  BY <1>7 DEF Advance, Current, disk
<1>8. CASE WriteNew
  BY <1>8 DEF WriteNew, Checkpoint
<1>9. CASE ClearOld
  BY <1>9 DEF ClearOld
<1>10. CASE MoveAway
  BY <1>10 DEF MoveAway
<1>11. CASE Place
  BY <1>11 DEF Place
<1>12. CASE Compile
  BY <1>12 DEF Compile, disk, Current
<1>13. CASE Shard
  BY <1>13 DEF Shard
<1>14. CASE Config
  BY <1>14 DEF Config
<1>15. CASE QuantizationConfig
  BY <1>15 DEF QuantizationConfig
<1>16. CASE Crash
  BY <1>16 DEF Crash
<1>17. CASE Edit
  BY <1>17 DEF Edit, disk, memory
<1>18. CASE Restore
  BY <1>18 DEF Restore, Latest, memory
<1> QED
  BY <1>1, <1>2, <1>3, <1>4, <1>5, <1>6, <1>7, <1>8, <1>9, <1>10, <1>11,
     <1>12, <1>13, <1>14, <1>15, <1>16, <1>17, <1>18 DEF Next, Convert

\* What was audited, while a conversion is at work.
LEMMA HeadAuditedStep ==
  ASSUME Typed, Early, Saved, HeadDrawn, RecordsTyped, HeadAudited, UNCHANGED <<audit, evidence>>, Next
  PROVE  HeadAudited'
<1> SUFFICES ASSUME NEW a \in {audit, evidence}, Whole(a)
               PROVE  /\ a.packed[N].run <= run' /\ (pc' # "idle" => a.packed[N].run < run')
                      /\ Whole(packed'[N]) /\ packed'[N].run = a.packed[N].run =>
                           /\ packed'[N] = a.packed[N]
                           /\ pc' \in {"idle", "module"} \cup Compiling
                           /\ Whole(ckpt') /\ (ckpt' = a.ckpt \/ Len(ckpt'.act) = N)
                           /\ pc' = "module" => act' = ckpt'.act
  BY DEF HeadAudited, SameHead, Whole
<1>0. PICK h : h = a.packed[N]
  OBVIOUS
<1>19. /\ h.run \in Nat /\ h.run <= run /\ (pc # "idle" => h.run < run) /\ Len(a.ckpt.act) = N - 1
       /\ Whole(packed[N]) /\ packed[N].run = h.run =>
            /\ packed[N] = h /\ pc \in {"idle", "module"} \cup Compiling
            /\ Whole(ckpt) /\ (ckpt = a.ckpt \/ Len(ckpt.act) = N)
            /\ pc = "module" => act = ckpt.act
  <2>1. a \in AuditsMade
    BY DEF RecordsTyped, Whole, None
  <2>2. a.packed[N] \in {None, Torn} \cup PackedModules /\ Whole(a.packed[N])
    BY <2>1, ConversionAssumption DEF AuditsMade, ModuleFiles, HeadAudited, Modules
  <2>3. h.run \in Nat
    BY <1>0, <2>2 DEF None, Torn, Whole, PackedModules
  <2> QED BY <1>0, <2>3 DEF HeadAudited, SameHead
<1> SUFFICES /\ h.run <= run' /\ (pc' # "idle" => h.run < run')
             /\ Whole(packed'[N]) /\ packed'[N].run = h.run =>
                  /\ packed'[N] = h /\ pc' \in {"idle", "module"} \cup Compiling
                  /\ Whole(ckpt') /\ (ckpt' = a.ckpt \/ Len(ckpt'.act) = N)
                  /\ pc' = "module" => act' = ckpt'.act
  BY <1>0
<1> USE ConversionAssumption, <1>19 DEF Typed, Early, Saved, Latest,
        Current, Whole, Modules, Checkpoint, Checkpoints, PackedModules,
        Starting, Looping, Compiling, None, Torn
<1>1. CASE Fresh
  BY <1>1 DEF Fresh, Starts, Untouched
<1>2. CASE SaveArgs
  BY <1>2 DEF SaveArgs
<1>3. CASE SaveJob
  BY <1>3 DEF SaveJob, Checkpoint
<1>4. CASE Freeze
  BY <1>4 DEF Freeze, Identity
<1>5. CASE Resume
  BY <1>5 DEF Resume, Starts, Found
<1>6. CASE Quantize
  <2>1. /\ pc = "module" /\ Len(act) + 1 \in Modules
        /\ packed' = [packed EXCEPT ![Len(act) + 1] = PackedModule(Len(act) + 1)]
        /\ pc' = "advance" /\ run' = run
    BY <1>6 DEF Quantize, Redo
  <2>2. ASSUME Whole(packed'[N]), packed'[N].run = h.run
        PROVE  FALSE
    <3>1. Len(act) + 1 # N
      BY <2>1, <2>2 DEF PackedModule
    <3>2. packed'[N] = packed[N]
      BY <2>1, <3>1
    <3>3. act = ckpt.act /\ (ckpt = a.ckpt \/ Len(ckpt.act) = N)
      BY <2>1, <2>2, <3>2
    <3> QED BY <2>1, <3>1, <3>3
  <2> QED BY <2>1, <2>2
<1>7. CASE Advance
  BY <1>7 DEF Advance, Current, disk
<1>8. CASE WriteNew
  BY <1>8 DEF WriteNew, Checkpoint
<1>9. CASE ClearOld
  BY <1>9 DEF ClearOld
<1>10. CASE MoveAway
  BY <1>10 DEF MoveAway
<1>11. CASE Place
  BY <1>11 DEF Place
<1>12. CASE Compile
  BY <1>12 DEF Compile, disk, Current
<1>13. CASE Shard
  BY <1>13 DEF Shard
<1>14. CASE Config
  BY <1>14 DEF Config
<1>15. CASE QuantizationConfig
  BY <1>15 DEF QuantizationConfig
<1>16. CASE Crash
  BY <1>16 DEF Crash
<1>17. CASE Edit
  BY <1>17 DEF Edit, disk, memory
<1>18. CASE Restore
  BY <1>18 DEF Restore, Latest, memory
<1> QED
  BY <1>1, <1>2, <1>3, <1>4, <1>5, <1>6, <1>7, <1>8, <1>9, <1>10, <1>11,
     <1>12, <1>13, <1>14, <1>15, <1>16, <1>17, <1>18 DEF Next, Convert

\* What the recovery and the assembly leave of the conversion: everything.
LEMMA ConversionApart ==
  ASSUME ConversionPart, UNCHANGED conversion
  PROVE  ConversionPart'
<1> USE DEF conversion, disk, memory, ConversionPart
<1>1. Typed' /\ Early' /\ Pinned'
  BY DEF Typed, Early, Pinned, Current
<1>2. Compiled' /\ Saved'
  BY DEF Compiled, Saved
<1>3. Latest' = Latest
  BY DEF Latest
<1>4. DrawnAll' /\ HeadDrawn'
  BY <1>3 DEF DrawnAll, Drawn, Current, HeadDrawn
<1> QED BY <1>1, <1>2, <1>4

\* A conversion at work changes nothing the recovery and the assembly keep for
\* themselves.
LEMMA KindsBeside ==
  ASSUME RecordsTyped, UNCHANGED <<audit, rpc, evidence, rows, apc, hashed, asm>>, raced' \in BOOLEAN
  PROVE  RecordsTyped'
BY DEF RecordsTyped

\* A packed head is another one, or torn, after it was quantised again or a crash.
LEMMA HeadReplaced ==
  ASSUME ConversionPart, Next
  PROVE  \/ packed'[N] = packed[N] \/ ~Whole(packed'[N])
         \/ pc # "idle" /\ packed'[N].run = run
<1> USE ConversionAssumption DEF ConversionPart, Typed, Modules
<1>1. CASE Quantize
  BY <1>1 DEF Quantize, Redo, PackedModule, Current
<1>2. CASE Crash
  <2>1. packed'[N] = Torn \/ packed'[N] = packed[N]
    BY <1>2 DEF Crash
  <2> QED BY <2>1 DEF Torn, Whole
<1>3. CASE Next /\ ~Quantize /\ ~Crash
  BY <1>3 DEF Next, Convert, Fresh, SaveArgs, SaveJob, Freeze, Resume, Advance, WriteNew,
              ClearOld, MoveAway, Place, Compile, Shard, Config, QuantizationConfig, Edit,
              Restore, disk, memory
<1> QED BY <1>1, <1>2, <1>3

\* A checkpoint that is whole lies still until a new one is written, which a process
\* does after it has advanced.
LEMMA CheckpointStill ==
  ASSUME Next, Whole(ckpt), pc \in {"idle", "module", "shards", "last"}
  PROVE  ckpt' = ckpt
<1> USE DEF Whole, None
<1>1. CASE Crash
  BY <1>1 DEF Crash
<1>2. CASE Fresh \/ Resume \/ Restore
  BY <1>2 DEF Fresh, Untouched, Resume, Found, Restore
<1>3. CASE Next /\ ~Crash /\ ~Fresh /\ ~Resume /\ ~Restore
  BY <1>3 DEF Next, Convert, SaveArgs, SaveJob, Freeze, Quantize, Advance, WriteNew,
              ClearOld, MoveAway, Place, Compile, Shard, Config, QuantizationConfig, Edit, disk
<1> QED BY <1>1, <1>2, <1>3

\* The rows are computed while modules are quantised: where the head is no longer the
\* one that was audited, it never will be again.
LEMMA ComputedStep ==
  ASSUME ConversionPart, RecordsTyped, HeadAudited, HeadAudited', Computed, Next,
         UNCHANGED <<audit, rpc, evidence, rows>>
  PROVE  Computed'
<1>1. ASSUME rpc = "finish", SameHead(evidence)' PROVE SameHead(evidence)
  <2>1. Whole(evidence) /\ evidence' = evidence
    BY <1>1 DEF RecordsTyped, AuditsMade, Whole
  <2>2. Whole(packed'[N]) /\ packed'[N].run = evidence.packed[N].run
    BY <1>1, <2>1 DEF SameHead
  <2>3. pc # "idle" => evidence.packed[N].run < run /\ evidence.packed[N].run \in Int
    <3>1. Whole(evidence.packed[N]) /\ (pc # "idle" => evidence.packed[N].run < run)
      BY <2>1 DEF HeadAudited
    <3>2. evidence.packed \in ModuleFiles /\ N \in Modules
      BY <2>1, ConversionAssumption DEF RecordsTyped, AuditsMade, None, Whole, Modules
    <3>3. evidence.packed[N] \in PackedModules
      BY <3>1, <3>2 DEF ModuleFiles, None, Torn, Whole
    <3> QED BY <3>1, <3>3 DEF PackedModules
  <2>4. packed'[N] = packed[N]
    BY <2>2, <2>3, HeadReplaced
  <2> QED BY <2>2, <2>4 DEF SameHead
<1>2. ASSUME rpc = "finish", SameHead(evidence), Len(ckpt.act) = N PROVE Len(ckpt'.act) = N
  <2>1. Whole(evidence)
    BY <1>2 DEF RecordsTyped, AuditsMade, Whole
  <2>2. Whole(ckpt) /\ pc \in {"idle", "module"} \cup Compiling
    BY <1>2, <2>1 DEF HeadAudited
  <2> QED BY <1>2, <2>2, CheckpointStill DEF Compiling
<1> QED BY <1>1, <1>2 DEF Computed

\* A checkpoint that is replaced while an assembly is at work is seen.
LEMMA AssembledStep ==
  ASSUME Assembled, Converting(Next)
  PROVE  Assembled'
BY DEF Assembled, Converting

\* Which of the kinds of file are whole.
LEMMA KindsApart ==
  /\ ~Whole(None) /\ ~Whole(Torn) /\ ~Whole(Part) /\ None # Part /\ Part # None
  /\ \A x \in RowsMade : ~Whole(x) /\ x # None /\ x # Part
  /\ \A x \in Copies : ~Whole(x) /\ x # None /\ x # Part
  /\ \A x \in RowsDone \cup Assemblies \cup AuditsMade \cup Checkpoints \cup PackedModules :
       Whole(x) /\ x # None /\ x # Part
BY DEF Whole, None, Torn, Part, RowsMade, RowsDone, Copies, Assemblies, AuditsMade,
       Checkpoints, PackedModules

\* What the files hold.
LEMMA Holdings ==
  /\ \A x \in RowsMade \cup RowsDone : x.head \in PackedModules /\ x.state \in Checkpoints
  /\ \A x \in RowsDone : x.claim.ckpt \in Checkpoints /\ x.claim.head \in PackedModules
  /\ \A x \in Copies : x.state \in Checkpoints /\ x.header = Plan
  /\ \A x \in Assemblies : x.claim \in Checkpoints /\ x.act \in Seq(Nat) /\ x.header = Plan
  /\ \A x \in AuditsMade : x.ckpt \in Checkpoints /\ x.packed \in ModuleFiles
  /\ \A x \in Checkpoints : x.act \in Seq(Nat)
  /\ \A x \in PackedModules : x.run \in Nat /\ x.act \in Seq(Nat)
BY DEF RowsMade, RowsDone, Claims, Copies, Assemblies, AuditsMade, Checkpoints, PackedModules

\* What the recovery and the assembly make is of its kind.
LEMMA KindsStep ==
  ASSUME ConversionPart, RecordsTyped, HeadAudited, Recover
  PROVE  RecordsTyped'
<1> USE KindsApart, Holdings DEF RecordsTyped
<1>0. /\ Whole(ckpt) => ckpt \in Checkpoints
      /\ Whole(packed[N]) => packed[N] \in PackedModules
  BY ConversionAssumption DEF ConversionPart, Typed, Modules
<1>1. CASE Audit
  <2>1. audit' \in AuditsMade
    BY <1>1, <1>0 DEF Audit, BeforeHead, AuditsMade, ModuleFiles, Identities, ConversionPart, Typed
  <2> QED BY <1>1, <2>1 DEF Audit
<1>2. CASE RecoverStart
  BY <1>2 DEF RecoverStart
<1>3. CASE RecoverVerify
  BY <1>3 DEF RecoverVerify
<1>4. CASE Forward
  <2>1. CASE Whole(ckpt) /\ Whole(packed[N])
    <3>1. rows' \in RowsMade
      BY <1>4, <1>0, <2>1 DEF Forward, RowsMade
    <3> QED BY <1>4, <2>1, <3>1 DEF Forward
  <2>2. CASE ~(Whole(ckpt) /\ Whole(packed[N]))
    BY <1>4, <2>2 DEF Forward
  <2> QED BY <2>1, <2>2
<1>5. CASE RecoverFinish
  <2>1. CASE StillAudited
    <3>1. rows' \in RowsDone
      <4>1. evidence.packed[N] \in PackedModules
        BY <1>5, <1>0, <2>1 DEF StillAudited, RecoverFinish, BeforeHead, HeadAudited
      <4> QED BY <1>5, <2>1, <4>1 DEF RecoverFinish, RowsDone, Claims
    <3> QED BY <1>5, <3>1 DEF RecoverFinish
  <2>2. CASE ~StillAudited
    BY <1>5, <2>2 DEF RecoverFinish
  <2> QED BY <2>1, <2>2
<1>6. CASE RecoverEnds
  BY <1>6 DEF RecoverEnds
<1>7. CASE AssembleStart
  <2>1. rows \in RowsDone /\ ckpt \in Checkpoints
    BY <1>7, <1>0 DEF AssembleStart, ManifestOk, BeforeHead
  <2> QED BY <1>7, <2>1 DEF AssembleStart
<1>8. CASE AssembleCopy
  <2>1. CASE Whole(ckpt)
    <3>1. asm' \in Copies
      BY <1>8, <1>0, <2>1 DEF AssembleCopy, Copies
    <3> QED BY <1>8, <2>1, <3>1 DEF AssembleCopy
  <2>2. CASE ~Whole(ckpt)
    BY <1>8, <2>2 DEF AssembleCopy
  <2> QED BY <2>1, <2>2
<1>9. CASE AssembleStream
  BY <1>9 DEF AssembleStream
<1>10. CASE AssembleComplete
  <2>1. asm' \in Assemblies
    <3>1. asm \in Copies /\ hashed \in Checkpoints /\ rows \in RowsDone
      BY <1>10 DEF AssembleComplete
    <3>2. Append(hashed.act, rows.head.run) \in Seq(Nat)
      BY <3>1
    <3> QED BY <1>10, <3>1, <3>2 DEF AssembleComplete, Assemblies
  <2> QED BY <1>10, <2>1 DEF AssembleComplete
<1>11. CASE AssembleEnds
  BY <1>11 DEF AssembleEnds
<1>12. CASE OtherRows
  BY <1>12 DEF OtherRows
<1>13. CASE OtherJob
  <2>1. Foreign \in RowsDone
    BY ConversionAssumption DEF Foreign, RowsDone, Claims, Checkpoints, PackedModules, Checkpoint
  <2> QED BY <1>13, <2>1 DEF OtherJob
<1>14. CASE OtherOutput
  BY <1>14 DEF OtherOutput
<1>15. CASE Promote
  BY <1>15 DEF Promote
<1> QED
  BY <1>1, <1>2, <1>3, <1>4, <1>5, <1>6, <1>7, <1>8,
     <1>9, <1>10, <1>11, <1>12, <1>13, <1>14, <1>15 DEF Recover

\* What was audited, while files are audited, recovered and assembled.
LEMMA HeadAuditedRecovered ==
  ASSUME ConversionPart, RecordsTyped, HeadAudited, Assembled, Recover
  PROVE  HeadAudited'
<1> USE DEF HeadAudited, SameHead, conversion, disk, memory
<1>1. CASE Audit
  <2>1. Whole(packed[N]) /\ packed[N].run = run /\ pc = "idle" /\ Whole(ckpt) /\ Len(ckpt.act) = N - 1
    BY <1>1, ConversionAssumption DEF Audit, BeforeHead, AllPacked, Modules
  <2>2. packed[N].act = ckpt.act /\ packed[N].run <= run
    BY <2>1 DEF ConversionPart, HeadDrawn, Latest
  <2> QED BY <1>1, <2>1, <2>2 DEF Audit, Whole
<1>2. CASE RecoverStart
  BY <1>2 DEF RecoverStart
<1>3. CASE RecoverVerify
  BY <1>3 DEF RecoverVerify
<1>4. CASE Forward
  BY <1>4 DEF Forward
<1>5. CASE RecoverFinish
  BY <1>5 DEF RecoverFinish
<1>6. CASE RecoverEnds
  BY <1>6 DEF RecoverEnds
<1>7. CASE AssembleStart
  BY <1>7 DEF AssembleStart
<1>8. CASE AssembleCopy
  BY <1>8 DEF AssembleCopy
<1>9. CASE AssembleStream
  BY <1>9 DEF AssembleStream
<1>10. CASE AssembleComplete
  BY <1>10 DEF AssembleComplete
<1>11. CASE AssembleEnds
  BY <1>11 DEF AssembleEnds
<1>12. CASE OtherRows
  BY <1>12 DEF OtherRows
<1>13. CASE OtherJob
  BY <1>13 DEF OtherJob
<1>14. CASE OtherOutput
  BY <1>14 DEF OtherOutput
<1>15. CASE Promote
  <2>1. ckpt' = Checkpoint(asm.act) /\ Whole(asm) /\ pc = "idle"
    BY <1>15 DEF Promote
  <2>2. asm.claim \in Checkpoints /\ rows \in RowsDone
    BY <2>1, KindsApart, Holdings DEF RecordsTyped, Assembled
  <2>3. asm.act = Append(asm.claim.act, rows.head.run) /\ Len(asm.claim.act) = N - 1
    BY <2>1 DEF Assembled
  <2>4. Len(asm.act) = N
    BY <2>2, <2>3, Holdings, ConversionAssumption
  <2>5. Whole(ckpt') /\ ckpt'.act = asm.act
    BY <2>1 DEF Checkpoint, Whole
  <2> QED BY <1>15, <2>1, <2>4, <2>5 DEF Promote, memory
<1> QED
  BY <1>1, <1>2, <1>3, <1>4, <1>5, <1>6, <1>7, <1>8,
     <1>9, <1>10, <1>11, <1>12, <1>13, <1>14, <1>15 DEF Recover

\* What a recovery signs was computed from the files it names.
LEMMA ComputedRecovered ==
  ASSUME ConversionPart, RecordsTyped, HeadAudited, Computed, Assembled, Recover
  PROVE  Computed'
<1> USE KindsApart DEF RecordsTyped, Computed, conversion, disk, memory
<1>1. CASE Audit
  BY <1>1 DEF Audit, SameHead
<1>2. CASE RecoverStart
  <2>1. ~Whole(rows') /\ rpc' # "finish"
    BY <1>2 DEF RecoverStart
  <2> QED BY <2>1
<1>3. CASE RecoverVerify
  BY <1>3 DEF RecoverVerify
<1>4. CASE Forward
  <2>1. CASE Whole(ckpt) /\ Whole(packed[N])
    <3>1. rows'.head = packed[N] /\ rows'.state = ckpt /\ rows'.is = "rows"
      BY <1>4, <2>1 DEF Forward
    <3>2. SameHead(evidence) => packed[N] = evidence.packed[N] /\ (ckpt = evidence.ckpt \/ Len(ckpt.act) = N)
      BY <1>4 DEF Forward, HeadAudited
    <3>3. SameHead(evidence)' <=> SameHead(evidence)
      BY <1>4 DEF Forward, SameHead
    <3>4. ckpt' = ckpt /\ evidence' = evidence
      BY <1>4 DEF Forward
    <3>5. ~Whole(rows')
      BY <3>1 DEF Whole
    <3> QED BY <3>1, <3>2, <3>3, <3>4, <3>5
  <2>2. CASE ~(Whole(ckpt) /\ Whole(packed[N]))
    BY <1>4, <2>2 DEF Forward
  <2> QED BY <2>1, <2>2
<1>5. CASE RecoverFinish
  <2>1. CASE StillAudited
    <3>1. /\ rows'.head = rows.head /\ rows'.state = rows.state
          /\ rows'.claim.head = evidence.packed[N] /\ rows'.claim.ckpt = evidence.ckpt
      BY <1>5, <2>1 DEF RecoverFinish
    <3>2. Whole(evidence) /\ Whole(evidence.packed[N]) /\ evidence.packed[N].act = evidence.ckpt.act
      BY <1>5 DEF RecoverFinish, HeadAudited
    <3>3. SameHead(evidence) /\ Len(ckpt.act) # N
      BY <2>1, <3>2, ConversionAssumption DEF StillAudited, SameHead, BeforeHead
    <3>4. rows.head = evidence.packed[N] /\ rows.state = evidence.ckpt
      BY <1>5, <3>3 DEF RecoverFinish
    <3> QED BY <1>5, <3>1, <3>2, <3>4 DEF RecoverFinish
  <2>2. CASE ~StillAudited
    BY <1>5, <2>2 DEF RecoverFinish
  <2> QED BY <2>1, <2>2
<1>6. CASE RecoverEnds
  BY <1>6 DEF RecoverEnds
<1>7. CASE AssembleStart
  BY <1>7 DEF AssembleStart, SameHead
<1>8. CASE AssembleCopy
  BY <1>8 DEF AssembleCopy
<1>9. CASE AssembleStream
  BY <1>9 DEF AssembleStream
<1>10. CASE AssembleComplete
  BY <1>10 DEF AssembleComplete
<1>11. CASE AssembleEnds
  BY <1>11 DEF AssembleEnds
<1>12. CASE OtherRows
  <2>1. rows' = None /\ rpc' = "idle"
    BY <1>12 DEF OtherRows
  <2> QED BY <2>1
<1>13. CASE OtherJob
  <2>1. rows' = Foreign /\ rpc' = "idle"
    BY <1>13 DEF OtherJob
  <2>2. Foreign.head = Foreign.claim.head /\ Foreign.state = Foreign.claim.ckpt
        /\ Foreign.head.act = Foreign.state.act
    BY DEF Foreign, Checkpoint
  <2> QED BY <2>1, <2>2
<1>14. CASE OtherOutput
  BY <1>14 DEF OtherOutput, SameHead
<1>15. CASE Promote
  <2>1. ckpt' = Checkpoint(asm.act) /\ Whole(asm) /\ packed' = packed /\ UNCHANGED <<rpc, evidence, rows>>
    BY <1>15 DEF Promote
  <2>2. asm.claim \in Checkpoints /\ rows \in RowsDone
    BY <2>1, KindsApart, Holdings DEF Assembled
  <2>3. rpc # "finish"
    BY <2>2
  <2> QED BY <2>1, <2>3
<1> QED
  BY <1>1, <1>2, <1>3, <1>4, <1>5, <1>6, <1>7, <1>8,
     <1>9, <1>10, <1>11, <1>12, <1>13, <1>14, <1>15 DEF Recover

\* What is copied is what was hashed.
LEMMA AssembledRecovered ==
  ASSUME ConversionPart, RecordsTyped, HeadAudited, Computed, Assembled, Recover
  PROVE  Assembled'
<1> USE KindsApart DEF Assembled, RecordsTyped, conversion, disk, memory
<1>1. CASE Audit
  BY <1>1 DEF Audit
<1>2. CASE RecoverStart
  <2>1. apc = "idle" /\ ~Whole(asm)
    BY <1>2 DEF RecoverStart
  <2> QED BY <1>2, <2>1 DEF RecoverStart
<1>3. CASE RecoverVerify
  BY <1>3 DEF RecoverVerify
<1>4. CASE Forward
  <2>1. apc = "idle" /\ ~Whole(asm)
    <3>1. ~Whole(rows)
      BY <1>4 DEF Forward
    <3> QED BY <3>1
  <2> QED BY <1>4, <2>1 DEF Forward
<1>5. CASE RecoverFinish
  BY <1>5 DEF RecoverFinish
<1>6. CASE RecoverEnds
  BY <1>6 DEF RecoverEnds
<1>7. CASE AssembleStart
  <2>1. rows \in RowsDone /\ Whole(rows) /\ hashed' = ckpt /\ ckpt' = ckpt /\ rows' = rows
        /\ asm' = Part /\ apc' = "copy" /\ Len(ckpt.act) = N - 1 /\ ckpt = rows.claim.ckpt
    BY <1>7 DEF AssembleStart, ManifestOk, MatchesManifest, BeforeHead, conversion, disk
  <2>2. ckpt.act = rows.head.act
    BY <2>1 DEF Computed
  <2> QED BY <2>1, <2>2
<1>8. CASE AssembleCopy
  <2>1. CASE Whole(ckpt)
    <3>1. asm'.state = ckpt /\ asm'.is = "copy" /\ apc' = "stream" /\ apc = "copy"
      BY <1>8, <2>1 DEF AssembleCopy
    <3>2. ~Whole(asm')
      BY <3>1 DEF Whole
    <3> QED BY <1>8, <3>1, <3>2 DEF AssembleCopy
  <2>2. CASE ~Whole(ckpt)
    BY <1>8, <2>2 DEF AssembleCopy
  <2> QED BY <2>1, <2>2
<1>9. CASE AssembleStream
  BY <1>9 DEF AssembleStream
<1>10. CASE AssembleComplete
  <2>1. /\ asm' = [is |-> "whole", from |-> asm.state, claim |-> hashed, header |-> asm.header,
                  act |-> Append(hashed.act, rows.head.run)]
        /\ apc' = "idle" /\ apc = "complete" /\ rows' = rows /\ raced' = raced
    BY <1>10 DEF AssembleComplete
  <2>2. asm'.from = asm.state /\ asm'.claim = hashed /\ asm'.act = Append(hashed.act, rows.head.run)
    BY <2>1
  <2> QED BY <2>1, <2>2
<1>11. CASE AssembleEnds
  BY <1>11 DEF AssembleEnds
<1>12. CASE OtherRows
  <2>1. asm' = None /\ apc' = "idle"
    BY <1>12 DEF OtherRows
  <2> QED BY <2>1
<1>13. CASE OtherJob
  <2>1. ~Whole(asm) /\ asm' = asm /\ apc' = "idle"
    BY <1>13 DEF OtherJob
  <2> QED BY <2>1
<1>14. CASE OtherOutput
  <2>1. asm' = None /\ apc' = "idle"
    BY <1>14 DEF OtherOutput
  <2> QED BY <2>1
<1>15. CASE Promote
  BY <1>15 DEF Promote
<1> QED
  BY <1>1, <1>2, <1>3, <1>4, <1>5, <1>6, <1>7, <1>8,
     <1>9, <1>10, <1>11, <1>12, <1>13, <1>14, <1>15 DEF Recover

\* A promotion puts the checkpoint behind the head that was assembled from the one in
\* front of it.
LEMMA Promoted ==
  ASSUME RecoveryInv, Promote
  PROVE  ConversionPart'
<1> USE DEF RecoveryInv, ConversionPart
<1>1. /\ pc = "idle" /\ Whole(asm) /\ ckpt = asm.claim /\ ckptOld' = ckpt
      /\ ckpt' = Checkpoint(asm.act)
      /\ UNCHANGED <<world, args, identity, ckptNew, packed, text, conf, finished, memory, drifted>>
  BY DEF Promote
<1>2. /\ asm \in Assemblies /\ ckpt \in Checkpoints /\ rows \in RowsDone
      /\ asm.act = Append(ckpt.act, rows.head.run) /\ Len(ckpt.act) = N - 1
  BY <1>1, KindsApart, Holdings DEF RecordsTyped, Assembled
<1>3. /\ ckpt.act \in Seq(Nat) /\ asm.act \in Seq(Nat) /\ Len(asm.act) = N
      /\ \A i \in 1 .. N - 1 : asm.act[i] = ckpt.act[i]
  BY <1>2, Holdings, ConversionAssumption
<1>4. ckpt' \in Checkpoints /\ Whole(ckpt') /\ ckpt'.act = asm.act /\ Whole(ckpt) /\ args # None
  BY <1>1, <1>2, <1>3, KindsApart DEF Checkpoint, Checkpoints, Early
<1>5. Typed' /\ Early'
  BY <1>1, <1>2, <1>4 DEF Typed, Early, memory, Current, Starting
<1>6. Pinned' /\ Compiled' /\ Saved'
  BY <1>1 DEF Pinned, Compiled, Saved, memory, Starting, Looping, Compiling
<1>7. Latest = ckpt /\ Latest' = ckpt'
  BY <1>4 DEF Latest
<1>8. DrawnAll'
  <2>1. Drawn(ckpt.act)
    BY <1>4, <1>7 DEF DrawnAll
  <2>2. \A i \in 1 .. N : i \in Modules /\ (i < N => Whole(packed[i]) /\ asm.act[i] = packed[i].run)
    BY <1>2, <1>3, <2>1, ConversionAssumption DEF Drawn, Modules
  <2>3. Drawn(asm.act)'
    BY <1>1, <1>3, <2>2, asm' = asm DEF Drawn, Promote
  <2> QED BY <1>1, <1>4, <1>7, <2>2, <1>3 DEF DrawnAll, Drawn, memory, Starting, Looping, Compiling
<1>9. HeadDrawn'
  BY <1>1, <1>3, <1>4, <1>7, ConversionAssumption DEF HeadDrawn, memory, Starting, Looping, Compiling
<1> QED BY <1>5, <1>6, <1>8, <1>9

\* It holds at the start.
LEMMA RecoveryStart == Init /\ RecoveryInit => RecoveryInv
<1> SUFFICES ASSUME Init, RecoveryInit PROVE RecoveryInv
  OBVIOUS
<1>1. Typed /\ Early /\ Pinned /\ Compiled /\ Saved
  BY ConversionStart DEF ConversionInv
<1>2. DrawnAll /\ HeadDrawn
  BY ConversionAssumption
     DEF Init, DrawnAll, Drawn, HeadDrawn, Latest, Whole, None, Starting, Looping, Compiling, Modules
<1>3. RecordsTyped
  BY DEF RecoveryInit, RecordsTyped
<1>4. HeadAudited /\ Computed /\ Assembled
  BY DEF RecoveryInit, HeadAudited, Computed, Assembled, Whole, None
<1> QED BY <1>1, <1>2, <1>3, <1>4 DEF RecoveryInv, ConversionPart

\* Every step keeps it, of the conversion, the recovery and the assembly.
LEMMA RecoveryStep == RecoveryInv /\ [RecoveryNext]_work => RecoveryInv'
<1> SUFFICES ASSUME RecoveryInv, [RecoveryNext]_work PROVE RecoveryInv'
  OBVIOUS
<1> USE DEF RecoveryInv
<1>1. CASE Recover
  <2>1. ConversionPart'
    <3>1. CASE Promote
      BY <3>1, Promoted
    <3>2. CASE ~Promote
      <4>1. UNCHANGED conversion
        BY <1>1, <3>2 DEF Recover, Audit, RecoverStart, RecoverVerify, Forward, RecoverFinish,
           RecoverEnds, AssembleStart, AssembleCopy, AssembleStream, AssembleComplete,
           AssembleEnds, OtherRows, OtherJob, OtherOutput
      <4> QED BY <4>1, ConversionApart
    <3> QED BY <3>1, <3>2
  <2>2. RecordsTyped' /\ HeadAudited' /\ Computed' /\ Assembled'
    BY <1>1, KindsStep, HeadAuditedRecovered, ComputedRecovered, AssembledRecovered
  <2> QED BY <2>1, <2>2
<1>2. CASE Converting(Next)
  <2>1. /\ Next /\ UNCHANGED <<audit, rpc, evidence, rows, apc, hashed, asm>>
        /\ raced' \in BOOLEAN
    BY <1>2 DEF Converting, RecordsTyped
  <2>2. ConversionPart'
    BY <2>1, TypedStep, EarlyStep, PinnedStep, CompiledStep, SavedStep, DrawnStep, HeadStep
       DEF ConversionPart
  <2>3. RecordsTyped'
    BY <2>1, KindsBeside
  <2>4. HeadAudited'
    BY <2>1, HeadAuditedStep DEF ConversionPart
  <2>5. Computed' /\ Assembled'
    BY <1>2, <2>1, <2>4, ComputedStep, AssembledStep
  <2> QED BY <2>2, <2>3, <2>4, <2>5
<1>3. CASE UNCHANGED work
  <2>1. UNCHANGED conversion /\ UNCHANGED recovery
    BY <1>3 DEF work
  <2>2. ConversionPart'
    BY <2>1, ConversionApart
  <2>3. RecordsTyped'
    BY <2>1 DEF recovery, RecordsTyped
  <2>4. HeadAudited' /\ Computed' /\ Assembled'
    BY <2>1 DEF recovery, HeadAudited, Computed, Assembled, SameHead, conversion, disk, memory
  <2> QED BY <2>2, <2>3, <2>4
<1> QED BY <1>1, <1>2, <1>3 DEF RecoveryNext

\* The invariant holds of every recovery beside every conversion.
THEOREM RecoveryInvariance == RecoverySpec => []RecoveryInv
BY RecoveryStart, RecoveryStep, PTL DEF RecoverySpec

\* The rows of a completed recovery were computed from the checkpoint and the packed
\* head whose hashes their manifest gives, though a conversion may have been resumed
\* while they were computed (recover_mimo_head.main).
THEOREM RowsOfTheirManifest == RecoverySpec => []RowsExact
<1>1. RecoveryInv => RowsExact
  BY DEF RecoveryInv, Computed, RowsExact
<1> QED BY <1>1, RecoveryInvariance, PTL

\* An assembled checkpoint is a file its readers accept, and holds the rows of the
\* checkpoint its manifest names, behind which the recovered rows belong, unless that
\* one was replaced while it was copied (assemble_checkpoint).
THEOREM AssembliesExact == RecoverySpec => []AssemblyExact
<1>1. RecoveryInv => AssemblyExact
  <2> SUFFICES ASSUME RecoveryInv, Whole(asm)
               PROVE  /\ read_header(asm.header, EndOf(asm.header))
                      /\ \A row \in 1 .. Rows : asm.header[row].bytes = SizeOf(row)
                      /\ raced \/ (asm.from = asm.claim /\ asm.claim.act = rows.head.act)
    BY DEF AssemblyExact
  <2>1. asm.header = Plan
    BY KindsApart, Holdings DEF RecoveryInv, RecordsTyped
  <2>2. \A row \in 1 .. Rows : Plan[row].bytes = SizeOf(row)
    BY DEF Plan
  <2>3. read_header(Plan, EndOf(Plan))
    BY DEF RecoveryInv, Assembled
  <2>4. raced \/ (asm.from = asm.claim /\ asm.claim.act = rows.head.act)
    BY DEF RecoveryInv, Assembled
  <2> QED BY <2>1, <2>2, <2>3, <2>4, Zenon
<1> QED BY <1>1, RecoveryInvariance, PTL

\* Recovery, assembly and promotion leave a finished candidate of one identity
\* (freeze_identity).
THEOREM RecoveredOneIdentity == RecoverySpec => []OneIdentity
<1>1. RecoveryInv => OneIdentity
  BY DEF RecoveryInv, ConversionPart, Compiled, Pinned, OneIdentity
<1> QED BY <1>1, RecoveryInvariance, PTL

\* Nor does a promotion, or anything else beside the conversion, leave an older
\* checkpoint than there was.
THEOREM RecoveredCheckpointsKept == RecoverySpec => CheckpointSurvives
<1>1. RecoveryInv /\ [RecoveryNext]_work => [Reached' >= Reached]_conversion
  <2> SUFFICES ASSUME RecoveryInv, [RecoveryNext]_work PROVE Reached' >= Reached \/ UNCHANGED conversion
    OBVIOUS
  <2>1. CASE Converting(Next)
    BY <2>1, ReachedStep DEF Converting, RecoveryInv, ConversionPart
  <2>2. CASE Promote
    <3>1. /\ Whole(asm) /\ ckpt = asm.claim /\ ckpt' = Checkpoint(asm.act)
      BY <2>2 DEF Promote
    <3>2. /\ asm \in Assemblies /\ ckpt \in Checkpoints /\ rows \in RowsDone
          /\ asm.act = Append(ckpt.act, rows.head.run) /\ Len(ckpt.act) = N - 1
      BY <3>1, KindsApart, Holdings DEF RecoveryInv, RecordsTyped, Assembled
    <3>3. Len(asm.act) = N
      BY <3>2, Holdings, ConversionAssumption
    <3>4. Whole(ckpt) /\ Whole(ckpt') /\ ckpt'.act = asm.act
      BY <3>1, <3>2, KindsApart DEF Checkpoint, Whole
    <3>5. Reached = N - 1 /\ Reached' = N
      BY <3>2, <3>3, <3>4 DEF Reached, Latest
    <3> QED BY <3>5, ConversionAssumption
  <2>3. CASE Recover /\ ~Promote
    BY <2>3 DEF Recover, Audit, RecoverStart, RecoverVerify, Forward, RecoverFinish,
       RecoverEnds, AssembleStart, AssembleCopy, AssembleStream, AssembleComplete,
       AssembleEnds, OtherRows, OtherJob, OtherOutput
  <2>4. CASE UNCHANGED work
    BY <2>4 DEF work
  <2> QED BY <2>1, <2>2, <2>3, <2>4 DEF RecoveryNext
<1> QED BY <1>1, RecoveryInvariance, PTL DEF RecoverySpec, CheckpointSurvives
=============================================================================
