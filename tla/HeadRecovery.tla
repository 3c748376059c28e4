---------------------------- MODULE HeadRecovery ----------------------------
(***************************************************************************)
(* What happens to a conversion killed after it saved the packed head and  *)
(* before it advanced the activations through it: a coordinator audits the *)
(* work directory, recover_mimo_head.py computes the missing rows from the *)
(* checkpoint and the packed head, assemble_mimo_head_checkpoint.py builds *)
(* a checkpoint behind the head from them, and the coordinator promotes    *)
(* it.  Nothing stops a conversion from being resumed meanwhile.           *)
(***************************************************************************)
EXTENDS Conversion, Safetensors

VARIABLES audit,    \* verification.json and the manifest of packed modules
          rpc, evidence, rows,  \* the recovery, the audit it read, its output directory
          apc, hashed, asm,  \* the assembly, the checkpoint it hashed, its output
          raced     \* the checkpoint was replaced under the last assembly

recovery == <<audit, rpc, evidence, rows, apc, hashed, asm, raced>>
work == <<conversion, recovery>>

Part == [is |-> "part"]

RecoveryInit == audit = None /\ rpc = "idle" /\ evidence = None /\ rows = None /\ apc = "idle" /\ hashed = None
                /\ asm = None /\ raced = FALSE

(***************************************************************************)
(* The audit, by hand: the last attempt saved the head and was killed, the *)
(* checkpoint is the one in front of the head, every packed module is      *)
(* there; the files' hashes are written down.                              *)
(***************************************************************************)
BeforeHead(c) == Whole(c) /\ Len(c.act) = N - 1             \* check_job, _validate_job
AllPacked == \A m \in Modules : Whole(packed[m])            \* check_packed_manifest

Audit ==
    /\ pc = "idle" /\ BeforeHead(ckpt) /\ AllPacked /\ packed[N].run = run
    /\ audit' = [is |-> "whole", ckpt |-> ckpt, packed |-> packed, identity |-> identity]
    /\ UNCHANGED <<conversion, rpc, evidence, rows, apc, hashed, asm, raced>>

(***************************************************************************)
(* recover_mimo_head.py: verify, forward, verify again, then the           *)
(* completion file.                                                        *)
(***************************************************************************)
RecoverStart ==
    /\ rpc = "idle" /\ rows = None
    /\ ckptNew = None /\ BeforeHead(ckpt) /\ Whole(audit)
    /\ rows' = Part /\ evidence' = audit /\ rpc' = "verify"
    /\ UNCHANGED <<conversion, audit, apc, hashed, asm, raced>>

AsAudited == ckpt = evidence.ckpt /\ packed = evidence.packed /\ identity = evidence.identity
SamePinned == SameIdentity(world)          \* source_identity and the code hashes

RecoverVerify ==
    /\ rpc = "verify"
    /\ rpc' = IF AsAudited /\ SamePinned THEN "forward" ELSE "idle"
    /\ UNCHANGED <<conversion, audit, evidence, rows, apc, hashed, asm, raced>>

Forward ==
    /\ rpc = "forward"
    /\ IF Whole(ckpt) /\ Whole(packed[N])
       THEN rows' = [is |-> "rows", head |-> packed[N], state |-> ckpt] /\ rpc' = "finish"
       ELSE rpc' = "idle" /\ UNCHANGED rows
    /\ UNCHANGED <<conversion, audit, evidence, apc, hashed, asm, raced>>

StillAuditedMut == identity = evidence.identity
StillAudited == identity = evidence.identity /\ packed[N] = evidence.packed[N] /\ BeforeHead(ckpt)

RecoverFinish ==
    /\ rpc = "finish" /\ rpc' = "idle"
    /\ rows' = IF StillAudited
               THEN [is |-> "whole", head |-> rows.head, state |-> rows.state,
                     claim |-> [head |-> evidence.packed[N], ckpt |-> evidence.ckpt]]
               ELSE rows
    /\ UNCHANGED <<conversion, audit, evidence, apc, hashed, asm, raced>>

RecoverEnds ==                                       \* killed, or an exception
    /\ rpc # "idle" /\ rpc' = "idle"
    /\ UNCHANGED <<conversion, audit, evidence, rows, apc, hashed, asm, raced>>

(***************************************************************************)
(* assemble_checkpoint: hash every input, make the directory, copy, stream *)
(* source and copy again, then the completion file.  An input is opened by *)
(* name each time.                                                         *)
(***************************************************************************)
NewDirectory == asm = None                           \* _validate_dirs, os.mkdir
ManifestOk == Whole(rows)                            \* _validate_manifest
MatchesManifestMut == BeforeHead(ckpt)
MatchesManifest == ckpt = rows.claim.ckpt

AssembleStart ==
    /\ apc = "idle" /\ NewDirectory /\ ManifestOk /\ BeforeHead(ckpt) /\ MatchesManifest
    /\ asm' = Part /\ apc' = "copy" /\ hashed' = ckpt /\ raced' = FALSE
    /\ UNCHANGED <<conversion, audit, rpc, evidence, rows>>

AssembleCopy ==
    /\ apc = "copy"
    /\ IF Whole(ckpt) THEN asm' = [is |-> "copy", state |-> ckpt, header |-> Plan] /\ apc' = "stream"
                      ELSE apc' = "idle" /\ UNCHANGED asm
    /\ UNCHANGED <<conversion, audit, rpc, evidence, rows, hashed, raced>>

AssembleStream ==
    /\ apc = "stream"
    /\ apc' = IF read_header(asm.header, EndOf(Plan)) /\ asm.header = Plan /\ ckpt = asm.state
              THEN "complete" ELSE "idle"
    /\ UNCHANGED <<conversion, audit, rpc, evidence, rows, hashed, asm, raced>>

AssembleComplete ==
    /\ apc = "complete" /\ apc' = "idle"
    /\ asm' = [is |-> "whole", from |-> asm.state, claim |-> hashed, header |-> asm.header,
               act |-> Append(hashed.act, rows.head.run)]
    /\ UNCHANGED <<conversion, audit, rpc, evidence, rows, hashed, raced>>

AssembleEnds ==
    /\ apc # "idle" /\ apc' = "idle"
    /\ UNCHANGED <<conversion, audit, rpc, evidence, rows, hashed, asm, raced>>

\* by hand: another output directory, rows of another job (its runs count as 0),
\* and the promotion of the assembled checkpoint in place of the one it was made from
Foreign ==
    LET a == [i \in 1..(N - 1) |-> 0]
        head == [is |-> "whole", run |-> 0, src |-> 0, act |-> a]
    IN [is |-> "whole", head |-> head, state |-> Checkpoint(a), claim |-> [head |-> head, ckpt |-> Checkpoint(a)]]

OtherJob == rpc = "idle" /\ apc = "idle" /\ rows = None /\ rows' = Foreign
            /\ UNCHANGED <<conversion, audit, rpc, evidence, apc, hashed, asm, raced>>
OtherRows == rpc = "idle" /\ apc = "idle" /\ rows # None /\ rows' = None /\ asm' = None
             /\ UNCHANGED <<conversion, audit, rpc, evidence, apc, hashed, raced>>
OtherOutput == apc = "idle" /\ asm # None /\ asm' = None
               /\ UNCHANGED <<conversion, audit, rpc, evidence, rows, apc, hashed, raced>>

Promote ==
    /\ pc = "idle" /\ Whole(asm) /\ ckpt = asm.claim
    /\ ckptOld' = ckpt /\ ckpt' = Checkpoint(asm.act)
    /\ raced' = (raced \/ apc # "idle")
    /\ UNCHANGED <<world, args, identity, ckptNew, packed, text, conf, finished, memory, drifted,
                   audit, rpc, evidence, rows, apc, hashed, asm>>

Recover ==
    \/ Audit \/ RecoverStart \/ RecoverVerify \/ Forward \/ RecoverFinish \/ RecoverEnds
    \/ AssembleStart \/ AssembleCopy \/ AssembleStream \/ AssembleComplete \/ AssembleEnds
    \/ OtherRows \/ OtherJob \/ OtherOutput \/ Promote

Converting(A) == A /\ raced' = (raced \/ (apc # "idle" /\ ckpt' # ckpt))
                 /\ UNCHANGED <<audit, rpc, evidence, rows, apc, hashed, asm>>

RecoveryNext == Recover \/ Converting(Next)
RecoverySpec == Init /\ RecoveryInit /\ [][RecoveryNext]_work

\* The rows of a completed recovery were computed from the checkpoint and the packed
\* head whose hashes their manifest gives, though a conversion may have been resumed
\* while they were computed (the second look at head, identity and job in main).
RowsExact == Whole(rows) => rows.head = rows.claim.head /\ rows.state = rows.claim.ckpt

\* An assembled checkpoint is a file its readers accept, with every row at its size; it
\* holds the rows of the checkpoint its manifest and its own record name, and the
\* recovered rows belong behind that very checkpoint, unless the checkpoint was replaced
\* while it was being copied (assemble_checkpoint).
AssemblyExact == Whole(asm) =>
    /\ read_header(asm.header, EndOf(asm.header))
    /\ \A row \in 1..Rows : asm.header[row].bytes = SizeOf(row)
    /\ raced \/ (asm.from = asm.claim /\ asm.claim.act = rows.head.act)
=============================================================================
