------------------------------ MODULE Packaging ------------------------------
(***************************************************************************)
(* From a compiled candidate to a package: package_mimo_exl3.py joins the  *)
(* text shards with the vision weights and reports what it wrote;          *)
(* package_mimo_mtp.py copies that package beside the weights of a donor   *)
(* and reports in turn.  Both read their inputs more than once, by name,   *)
(* while a conversion may be writing the candidate, another packager may   *)
(* be aimed at the same output, and any call may fail or be the last.      *)
(***************************************************************************)
EXTENDS Conversion, PackageInputs

CONSTANTS Packagers,    \* calls of package_mimo_exl3.py with one output and report
          Donors        \* what a donor directory can be like

VARIABLES ppc, seen,    \* each packager: where it is, the shards it audited
          steady,       \* ghost: the last compile_model had returned when its audit began,
                        \* and no shard of the candidate has changed during the audit
          pkg, report,  \* its output directory and report
          mpc, manifest, mdonor, final, freport,  \* the same for package_mimo_mtp.py
          donor, spoiled, \* the donor directory; the package or donor was overwritten
          stray         \* a refused call left its report among the weights it was given

exl3 == <<ppc, seen, steady, pkg, report>>
mtp == <<mpc, manifest, mdonor, final, freport>>
packaging == <<exl3, mtp, donor, spoiled, stray>>
pipeline == <<conversion, packaging>>

Incomplete == [is |-> "incomplete"]
NoShards == [m \in Modules |-> None]
Directory == [is |-> "directory", shards |-> NoShards, conf |-> None, marker |-> FALSE]

PackagingInit ==
    /\ ppc = [p \in Packagers |-> "idle"] /\ seen = [p \in Packagers |-> NoShards]
    /\ steady = [p \in Packagers |-> FALSE] /\ pkg = None /\ report = None
    /\ mpc = "idle" /\ manifest = NoShards /\ mdonor = "none" /\ final = None /\ freport = None
    /\ donor = "audited" /\ spoiled = FALSE /\ stray = FALSE

To(p, s) == ppc' = [ppc EXCEPT ![p] = s]
Filled(shards) == {m \in Modules : shards[m] # None}
NextOf(shards) == IF Filled(shards) = Modules THEN 0
                  ELSE CHOOSE m \in Modules \ Filled(shards) : \A i \in 1..(m - 1) : i \in Filled(shards)

(***************************************************************************)
(* package_mimo_exl3.run.                                                  *)
(***************************************************************************)
NewPaths == report = None /\ pkg = None                 \* check_paths

\* A failure writes the marker if this call made the directory, and a report if there
\* is none.
Made(p) == ppc[p] \in {"copy", "config", "reaudit", "report"}

Forget(p) == seen' = [seen EXCEPT ![p] = NoShards] /\ steady' = [steady EXCEPT ![p] = FALSE]

Fail(p) ==
    /\ To(p, "over")
    /\ pkg' = IF Made(p) THEN [pkg EXCEPT !.marker = TRUE] ELSE pkg
    /\ report' = IF report = None THEN Incomplete ELSE report
    /\ Forget(p)

\* Refused for where its paths lie: the report, not the one the calls share, is written
\* all the same.
Misplaced(p, call) ==
    /\ ~call.ok /\ To(p, "over")
    /\ stray' = (stray \/ call.inside)
    /\ UNCHANGED <<seen, steady, pkg, report>>

Check(p) ==
    /\ ppc[p] = "idle"
    /\ \/ \E call \in Exl3Calls : Misplaced(p, call)
       \/ \E source \in Sources :
              /\ IF NewPaths /\ conf # "none" /\ source
                 THEN /\ To(p, "audit") /\ steady' = [steady EXCEPT ![p] = finished]
                      /\ UNCHANGED <<seen, pkg, report>>
                 ELSE Fail(p)
              /\ UNCHANGED stray

\* One shard: a torn one has offsets its length does not cover (inspect_shard);
\* the embedding, in the first, must be the source's (audit_text_candidate).
Sound(f) == Whole(f)
SameEmbedding(m, f) == m = 1 => f.src = world

Audit1(p) ==
    LET m == NextOf(seen[p]) IN
    /\ ppc[p] = "audit" /\ m # 0
    /\ \E rated \in Rated :
         IF rated /\ Sound(text[m]) /\ SameEmbedding(m, text[m])
         THEN seen' = [seen EXCEPT ![p][m] = text[m]] /\ UNCHANGED <<ppc, steady, pkg, report>>
         ELSE Fail(p)

MakeDirectory(p) ==
    /\ ppc[p] = "audit" /\ Filled(seen[p]) = Modules
    /\ \E piloted \in Piloted, planned \in Planned :
         IF piloted /\ planned /\ pkg = None
         THEN pkg' = Directory /\ To(p, "copy") /\ UNCHANGED <<seen, steady, report>>
         ELSE Fail(p)

Copy(p) ==
    LET m == NextOf(pkg.shards) IN
    /\ ppc[p] = "copy"
    /\ \E copyable \in Copyable :
         IF (IF m = 0 THEN ~copyable ELSE text[m] = None) THEN Fail(p)
         ELSE IF m = 0 THEN To(p, "config") /\ UNCHANGED <<seen, steady, pkg, report>>
         ELSE pkg' = [pkg EXCEPT !.shards[m] = text[m]] /\ UNCHANGED <<ppc, seen, steady, report>>

WriteConfig(p) ==
    /\ ppc[p] = "config" /\ To(p, "reaudit")
    /\ \E c \in OutputConfigs : pkg' = [pkg EXCEPT !.conf = c]
    /\ UNCHANGED <<seen, steady, report>>

CopiedMut(p) == \A m \in Modules : Sound(pkg.shards[m])
Copied(p) == \A m \in Modules : Sound(pkg.shards[m]) /\ pkg.shards[m] = seen[p][m]

Reaudit(p) ==
    /\ ppc[p] = "reaudit"
    /\ IF Copied(p) /\ ~pkg.marker
       THEN To(p, "report") /\ UNCHANGED <<seen, steady, pkg, report>>
       ELSE Fail(p)

Report(p) ==
    /\ ppc[p] = "report"
    /\ IF report = None
       THEN /\ To(p, "over") /\ Forget(p) /\ UNCHANGED pkg
            /\ report' = [is |-> "complete", shards |-> seen[p], steady |-> steady[p]]
       ELSE Fail(p)

Working(p) == ppc[p] \notin {"idle", "over"}

Errs(p) == Working(p) /\ Fail(p)                        \* an OSError anywhere

Killed(p) ==
    /\ Working(p) /\ To(p, "over")
    /\ \/ UNCHANGED <<pkg, report>>
       \/ /\ ppc[p] = "copy" /\ NextOf(pkg.shards) # 0
          /\ pkg' = [pkg EXCEPT !.shards[NextOf(pkg.shards)] = Torn] /\ UNCHANGED report
       \/ ppc[p] = "report" /\ report = None /\ report' = Torn /\ UNCHANGED pkg
    /\ Forget(p)

Exl3(p) ==
    /\ \/ Check(p)
       \/ /\ \/ Audit1(p) \/ MakeDirectory(p) \/ Copy(p) \/ WriteConfig(p) \/ Reaudit(p)
             \/ Report(p) \/ Errs(p) \/ Killed(p)
          /\ UNCHANGED stray
    /\ UNCHANGED <<mtp, donor, spoiled>>

(***************************************************************************)
(* package_mimo_mtp.run.  The target manifest lists the files of a         *)
(* complete report; the donor directory must be whole, of the target's     *)
(* geometry, with its tokenizer or the one audited pair.                   *)
(***************************************************************************)
CompleteDonor(d) == d # "incomplete"        \* validate_donor_manifest, _files
SameGeometry(d) == d # "geometry"           \* compare_geometry
SameTokenizer(d) == d # "tokenizer"         \* compare_tokenizers
TensorsOk(d) == d # "tensors"               \* validate_donor_tensors
Finite(d) == d # "infinite"                 \* check_bf16_finite
DonorOk(d) == CompleteDonor(d) /\ SameGeometry(d) /\ SameTokenizer(d) /\ TensorsOk(d) /\ Finite(d)

MGo(s) == mpc' = s
MForget == manifest' = NoShards /\ mdonor' = "none"
MFail ==
    /\ MGo("over") /\ freport' = (IF freport = None THEN Incomplete ELSE freport)
    /\ MForget /\ UNCHANGED final

MStart ==
    /\ mpc = "idle" /\ report.is = "complete" /\ pkg # None
    /\ \/ MGo("inventory") /\ manifest' = report.shards
       \/ \E ok \in MtpCalls : ~ok /\ MGo("over") /\ UNCHANGED manifest   \* and no report
    /\ UNCHANGED <<mdonor, final, freport>>

inspect_shard(f) == Whole(f)
AsManifest ==
    /\ pkg.shards = manifest /\ ~pkg.marker /\ check_target_config(pkg.conf)
    /\ \A m \in Modules : inspect_shard(pkg.shards[m])
WithMtp(c) == [c EXCEPT !.mtp = 1]                      \* build_output_config

MInventory ==
    /\ mpc = "inventory"
    /\ \E listed \in Listed :
         IF listed /\ AsManifest THEN MGo("donor") /\ UNCHANGED <<manifest, mdonor, final, freport>> ELSE MFail

MDonor ==
    /\ mpc = "donor"
    /\ IF DonorOk(donor) THEN mdonor' = donor /\ MGo("directory") /\ UNCHANGED <<manifest, final, freport>>
                         ELSE MFail

MDirectory ==
    /\ mpc = "directory" /\ MGo("copy")
    /\ final' = [is |-> "directory", shards |-> NoShards, conf |-> None, donor |-> "none"]
    /\ UNCHANGED <<manifest, mdonor, freport>>

MCopy ==
    LET m == NextOf(final.shards) IN
    /\ mpc = "copy"
    /\ IF m = 0 THEN final' = [final EXCEPT !.donor = donor] /\ MGo("config")
                ELSE final' = [final EXCEPT !.shards[m] = pkg.shards[m]] /\ UNCHANGED mpc
    /\ UNCHANGED <<manifest, mdonor, freport>>

MConfig ==
    /\ mpc = "config" /\ MGo("reverify") /\ final' = [final EXCEPT !.conf = WithMtp(pkg.conf)]
    /\ UNCHANGED <<manifest, mdonor, freport>>

ReverifiedMut == pkg.shards = manifest
Reverified ==
    /\ pkg.shards = manifest /\ final.shards = manifest
    /\ final.donor = mdonor /\ final.conf = WithMtp(pkg.conf)

MReverify ==
    /\ mpc = "reverify"
    /\ IF Reverified THEN MGo("report") /\ UNCHANGED <<manifest, mdonor, final, freport>> ELSE MFail

MReport ==
    /\ mpc = "report" /\ MGo("over")
    /\ freport' = [is |-> "complete", shards |-> manifest, donor |-> mdonor]
    /\ MForget /\ UNCHANGED final

MWorking == mpc \notin {"idle", "over"}
MErrs == MWorking /\ MFail
MKilled ==
    /\ MWorking /\ MGo("over")
    /\ \/ UNCHANGED <<final, freport>>
       \/ /\ mpc = "copy" /\ NextOf(final.shards) # 0
          /\ final' = [final EXCEPT !.shards[NextOf(final.shards)] = Torn] /\ UNCHANGED freport
       \/ mpc = "report" /\ freport' = Torn /\ UNCHANGED final
    /\ MForget

Mtp ==
    /\ \/ MStart \/ MInventory \/ MDonor \/ MDirectory \/ MCopy \/ MConfig \/ MReverify \/ MReport
       \/ MErrs \/ MKilled
    /\ UNCHANGED <<exl3, donor, spoiled, stray>>

(***************************************************************************)
(* Around them: a file of the package or the donor directory is changed,   *)
(* once; what a failed call left is removed; the conversion goes on.       *)
(***************************************************************************)
Other == [is |-> "whole", run |-> 0, src |-> 0, act |-> <<>>]

Spoil ==
    /\ ~spoiled /\ spoiled' = TRUE
    /\ \/ pkg # None /\ donor' = donor
          /\ \E m \in Filled(pkg.shards) : pkg' = [pkg EXCEPT !.shards[m] = Other]
       \/ donor' \in Donors /\ pkg' = pkg
    /\ UNCHANGED <<ppc, seen, steady, report, mtp, stray>>

RemoveLeft ==
    /\ \A p \in Packagers : ~Working(p)
    /\ report # None /\ report.is # "complete"
    /\ pkg' = None /\ report' = None
    /\ UNCHANGED <<ppc, seen, steady, mtp, donor, spoiled, stray>>

Meanwhile ==
    /\ Next
    /\ steady' = [p \in Packagers |-> steady[p] /\ (ppc[p] = "audit" => text' = text)]
    /\ UNCHANGED <<ppc, seen, pkg, report, mtp, donor, spoiled, stray>>

PackagingNext ==
    \/ ((\E p \in Packagers : Exl3(p)) \/ Mtp \/ Spoil \/ RemoveLeft) /\ UNCHANGED conversion
    \/ Meanwhile

PackagingSpec == Init /\ PackagingInit /\ [][PackagingNext]_pipeline

\* A complete report tells the truth about the directory it stands for: every shard
\* written whole and the one that was audited, the configuration there and no marker,
\* though another call may have been aimed at it, the candidate may have been
\* rewritten while it was copied and earlier calls may have failed (run).
ReportTruthful == (report.is = "complete" /\ ~spoiled) =>
    pkg # None /\ pkg.conf # None /\ ~pkg.marker /\ pkg.shards = report.shards

\* A package reported complete, from a candidate whose last compile_model had returned
\* when the audit began and that nothing wrote to during the audit, is one model
\* converted from one set of inputs, whatever was killed and resumed before.
PackageChained == (report.is = "complete" /\ report.steady) => Chained(report.shards)

\* A final package reported complete holds the weights the first report lists and the
\* donor that was checked, though either directory may have been changed before,
\* between or after the checks (reverify_output).
FinalAsReported == freport.is = "complete" =>
    /\ final.conf.mtp = 1 /\ "moe" \notin final.conf.architectures
    /\ final.shards = report.shards
    /\ final.donor = freport.donor /\ DonorOk(final.donor)

\* Packaging "fails closed before writing output whenever expected inputs are missing
\* or incomplete": what is reported complete came from a completed conversion.
OnlyCompleted == report.is = "complete" => report.steady

\* Packaging "never modifies inputs": no report lands in a directory a call reads.
InputsUntouched == ~stray
=============================================================================
