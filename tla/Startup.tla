------------------------------ MODULE Startup ------------------------------
(***************************************************************************)
(* From a command line to a ready model: the option checks and the child   *)
(* command line of scripts/launch_runtime.py, the checks of the child      *)
(* (serve_exl3.py, generate_multimodal.py, evaluate_exl3_candidate.py),    *)
(* the native capabilities a verified binary exports                       *)
(* (methods/exl3/optimizations.py, compat.py), and the path a projection   *)
(* of so many rows then takes.                                             *)
(*                                                                         *)
(* An option is a field of a record.  A numeric option is in the range its *)
(* check allows or "bad"; options that are checked alike share a field.    *)
(* The files they name are the same for the launcher and its child.        *)
(***************************************************************************)
EXTENDS Naturals

CONSTANT MaxOptions   \* options changed from their default, one by one

ASSUME StartupAssumption == MaxOptions \in Nat

VARIABLES
  stage,   \* "typing", "refused", "spawned", "childrefused", "parsed", "ready",
           \* "failed", "failedlate": before or after the weights were loaded
  opt,     \* the launcher's options
  given,   \* how many of them were changed one by one
  argv,    \* the child's options
  binary,  \* what the registered binary exports
  model,   \* what the checkpoint is like
  native   \* what was configured of the native features

vars == <<stage, opt, given, argv, binary, model, native>>

-----------------------------------------------------------------------------
(* Options.                                                                *)

Modes == {"serve", "generate", "context-speed", "speed"}

\* Sampling stands for seven options: greedy by top_k = 1, random, with
\* penalties, "tiny" with a negative one that prints with an exponent, or out of
\* range; port also for the request timeout; "serving" for the other options of
\* serve mode.  A dashed alias is one a parser takes for an option.  Images are
\* as many as are allowed, one more, not there, or not decodable.  The model and
\* the output may be nested as written, or only once links are followed.
Values == [
  spec |-> {"unset", "none", "draft-mtp"}, mtp |-> {"unset", "0", "2"},
  dtype |-> {"fp16", "bf16"}, verify |-> {"default", "rowwise"},
  fusions |-> {"off", "gdn", "gdn-mlp"}, attention |-> BOOLEAN,
  graph |-> BOOLEAN, cachemtp |-> {"off", "fc"}, shortlist |-> BOOLEAN,
  embedding |-> BOOLEAN, gpudraft |-> BOOLEAN, metadata |-> BOOLEAN,
  confidence |-> {"unset", "ok", "bad"}, greedy |-> BOOLEAN,
  kv |-> {"unset", "f16", "q8", "aster5"}, k |-> {"unset", "f16", "q8", "aster5"},
  v |-> {"unset", "f16", "q8", "aster5"}, policy |-> {"unset", "good", "bad"},
  mmproj |-> BOOLEAN, images |-> {"none", "four", "five", "missing", "broken"},
  pixels |-> {"default", "other", "bad"}, shortmode |-> {"packed", "dense"},
  expected |-> BOOLEAN, task |-> {"docstring", "canonical"},
  sampling |-> {"default", "top1", "random", "penalty", "tiny", "bad"},
  reasoning |-> {"auto", "on", "off"}, port |-> {"default", "other", "bad"},
  alias |-> {"unset", "named", "dashed"}, serving |-> BOOLEAN, prefix |-> BOOLEAN,
  template |-> {"unset", "small", "big", "missing"},
  prompt |-> {"none", "text", "file", "both"}, tokens |-> {"default", "ok", "bad"},
  context |-> {"ok", "bad", "huge"}, chunk |-> {"unset", "ok", "bad"},
  moe |-> {"off", "first", "all", "both", "bad"}, ranges |-> {"ok", "bad"},
  nested |-> {"no", "yes", "linked"}, rowlimit |-> {"ok", "bad"},
  kernel |-> {"dot", "wmma", "wmma-register"},
  warps |-> BOOLEAN, gemm |-> {"auto", "blas", "wmma"},
  runtime |-> {"installed", "described", "broken"}, named |-> BOOLEAN,
  manifest |-> {"unset", "given"},
  mid |-> {"auto", "on", "off"}, midwarps |-> BOOLEAN,
  prefill |-> {"auto", "on", "off"}, pair |-> {"auto", "on", "off"}]

Default(m) == [
  mode |-> m, spec |-> "unset", mtp |-> "unset", dtype |-> "fp16",
  verify |-> "default", fusions |-> "gdn", attention |-> FALSE, graph |-> FALSE,
  cachemtp |-> "off", shortlist |-> FALSE, embedding |-> FALSE,
  gpudraft |-> FALSE, metadata |-> FALSE, confidence |-> "unset",
  greedy |-> FALSE, kv |-> "unset", k |-> "unset", v |-> "unset",
  policy |-> "unset", mmproj |-> FALSE, images |-> "none",
  pixels |-> "default", shortmode |-> "packed",
  expected |-> FALSE, task |-> "docstring", sampling |-> "default",
  reasoning |-> "auto", port |-> "default", alias |-> "unset", serving |-> FALSE,
  prefix |-> FALSE, template |-> "unset",
  prompt |-> IF m = "generate" THEN "text" ELSE "none", tokens |-> "default",
  context |-> "ok", chunk |-> "unset", moe |-> "off", ranges |-> "ok",
  runtime |-> "installed", named |-> TRUE, manifest |-> "unset",
  nested |-> "no", rowlimit |-> "ok", kernel |-> "dot", warps |-> FALSE, gemm |-> "auto",
  mid |-> "auto", midwarps |-> FALSE, prefill |-> "auto", pair |-> "auto"]

-----------------------------------------------------------------------------
(* Checks that the launcher and the children repeat.                       *)

\* --spec-type and --spec-draft-n-max together decide the draft depth.
Draft(o) == IF o.mtp # "unset" THEN o.mtp = "2" ELSE o.spec = "draft-mtp"

CacheK(o) == IF o.k # "unset" THEN o.k ELSE IF o.kv # "unset" THEN o.kv ELSE "f16"
CacheV(o) == IF o.v # "unset" THEN o.v ELSE IF o.kv # "unset" THEN o.kv ELSE "f16"
Quantized(o) == CacheK(o) # "f16" \/ CacheV(o) # "f16"

\* A policy is read and validated as soon as the types are known.
PolicyOk(o) == o.policy # "unset" => CacheK(o) # "f16" /\ o.policy = "good"
\* resolve_cache_types
CacheTypesOk(o) ==
  /\ o.kv # "unset" => o.k \in {"unset", o.kv} /\ o.v \in {"unset", o.kv}
  /\ \A t \in {"f16", "aster5"} : (CacheK(o) = t) <=> (CacheV(o) = t)
  /\ PolicyOk(o)

Bf16Ok(o) == o.dtype = "bf16" =>
  Draft(o) /\ o.fusions = "off" /\ ~o.attention /\ ~o.graph /\ o.cachemtp = "off"
RowwiseOk(o) == o.verify = "rowwise" => o.fusions = "off" /\ ~o.attention
GraphOk(o) == o.graph => o.metadata /\ ~o.shortlist /\ o.confidence = "unset"
ShortlistOk(o) == o.shortlist => Draft(o) /\ o.confidence = "unset"
GpuDraftOk(o) ==
  /\ o.gpudraft => o.embedding /\ Draft(o)
  /\ o.metadata => o.gpudraft
CacheMtpOk(o) == o.cachemtp # "off" => Draft(o) /\ o.fusions # "gdn-mlp"
ConfidenceOk(o) ==
  o.confidence # "unset" => o.confidence = "ok" /\ Draft(o) /\ ~o.gpudraft
QuantizedOk(o) == Quantized(o) => ~o.attention /\ ~o.graph /\ o.verify = "default"

DraftingOk(o) ==
  /\ Bf16Ok(o) /\ RowwiseOk(o) /\ GraphOk(o) /\ ShortlistOk(o) /\ GpuDraftOk(o)
  /\ CacheMtpOk(o) /\ ConfidenceOk(o) /\ CacheTypesOk(o) /\ QuantizedOk(o)

\* validate_vision_options
VisionOk(o) ==
  /\ o.pixels # "bad"
  /\ ~o.mmproj => o.images = "none"
  /\ o.mmproj =>
       /\ o.fusions = "off" /\ ~o.attention /\ ~o.graph /\ ~o.embedding
       /\ ~o.gpudraft /\ ~o.shortlist /\ o.cachemtp = "off" /\ ~o.prefix
       /\ o.mode \in {"generate", "serve"} /\ ~o.expected
       /\ o.images # "none" => o.mode = "generate"
       /\ o.images # "five"

Greedy(o) == o.sampling \in {"default", "top1"}

\* Prefill chunk, CPU experts and their threads, memory fractions.
ResourcesOk(o) == o.chunk # "bad" /\ o.moe \notin {"both", "bad"} /\ o.ranges = "ok"

-----------------------------------------------------------------------------
(* The launcher.                                                           *)

\* Options of serve mode that are refused elsewhere.  The alias, the port and the
\* request timeout are not: they are accepted and dropped.
ServeOnlyOk(o) == o.mode # "serve" =>
  /\ ~o.serving /\ o.reasoning = "auto" /\ ~o.prefix
  /\ o.template = "unset" /\ o.sampling = "default"

\* A mutant: generate does not ask for a prompt.
PromptOkMut(o) == o.prompt # "both"
PromptOk(o) ==
  /\ o.prompt # "both"
  /\ IF o.mode = "generate" THEN o.prompt # "none"
                            ELSE o.prompt = "none" /\ o.tokens = "default"

\* The runtime's metadata: an installation names no model, a described runtime
\* may.  The row limit of the native kernels is checked for an installation only.
RuntimeOk(o) ==
  /\ o.runtime # "broken" /\ (o.named \/ o.runtime = "described")
  /\ o.rowlimit = "bad" => o.runtime = "described"

\* The manifest the child compares the model's files with: a described one
\* belongs to the described model only.
Manifest(o) ==
  IF o.manifest # "unset" THEN o.manifest
  ELSE IF o.named \/ o.runtime = "installed" THEN "unset" ELSE "described"

LauncherAccepts(o) ==
  /\ RuntimeOk(o)
  /\ VisionOk(o) /\ ServeOnlyOk(o) /\ DraftingOk(o) /\ PromptOk(o) /\ ResourcesOk(o)
  /\ o.task # "docstring" => o.mode = "context-speed"
  /\ ~(o.spec = "none" /\ o.mtp = "2") /\ ~(o.spec = "draft-mtp" /\ o.mtp = "0")
  /\ o.mmproj => ~Quantized(o)
  /\ o.context # "bad" /\ o.tokens # "bad" /\ o.port # "bad"
  /\ o.sampling # "bad" /\ (o.greedy => Greedy(o))
  /\ o.template # "missing" /\ o.images # "missing" /\ o.nested # "yes"
  /\ o.expected => o.mode # "serve"

\* Which script runs.
Entry(o) ==
  IF o.mode = "serve" THEN "serve"
  ELSE IF o.mode = "generate" /\ o.mmproj THEN "vision" ELSE "evaluate"

\* A mutant: the fusions are passed when they are not the launcher's default.
AlwaysMut == {"context", "chunk", "ranges", "kernel", "gemm", "k", "v", "nested",
              "rowlimit"}
\* Passed whatever their value.
Always == {"fusions", "context", "chunk", "ranges", "kernel", "gemm", "k", "v", "nested",
           "rowlimit"}
\* Passed when they are not the launcher's default.
WhenSet == {"moe", "dtype", "verify", "confidence", "warps", "mid", "midwarps",
            "prefill", "pair", "cachemtp", "graph", "attention", "shortlist",
            "embedding", "greedy", "gpudraft", "metadata", "policy", "images",
            "expected", "mtp", "manifest"}
\* Passed in their mode only, or with the option they belong to.
OfMode(o) ==
  {"mode"} \cup
  (IF Entry(o) # "evaluate" THEN {"mmproj", "pixels"} ELSE {}) \cup
  (IF o.mode = "serve"
   THEN {"serving", "prefix", "template", "sampling", "reasoning", "port", "alias"}
   ELSE {}) \cup
  (IF o.shortlist THEN {"shortmode"} ELSE {}) \cup
  (IF o.mode = "context-speed" THEN {"task"} ELSE {}) \cup
  (IF o.mode = "generate" THEN {"prompt", "tokens"} ELSE {})

\* What the launcher makes of its options: the draft depth and cache types are
\* resolved, the prefill chunk has a value, the prompt is a file.
Resolved(o) ==
  [o EXCEPT !.spec = "unset", !.mtp = IF Draft(o) THEN "2" ELSE "unset",
            !.kv = "unset", !.k = CacheK(o), !.v = CacheV(o),
            !.chunk = IF @ = "unset" THEN "ok" ELSE @,
            !.prompt = IF @ = "text" THEN "file" ELSE @,
            !.manifest = Manifest(o), !.runtime = "installed", !.named = TRUE]

\* The child's defaults, which are not all the launcher's: only the server lets
\* the template decide about reasoning.
ChildDefault(e) ==
  [Default("speed") EXCEPT !.fusions = IF e = "evaluate" THEN "off" ELSE "gdn",
                           !.reasoning = IF e = "serve" THEN "auto" ELSE "off"]

\* The options on the command line.
Passed(o, resolved) ==
  LET default == Default(o.mode) IN
  Always \cup OfMode(o) \cup {f \in WhenSet : resolved[f] # default[f]}

\* The child's options, parsed from the command line the launcher builds.
Argv(o) ==
  LET resolved == Resolved(o)
      passed == Passed(o, resolved)
      default == ChildDefault(Entry(o))
  IN [f \in DOMAIN o |-> IF f \in passed THEN resolved[f] ELSE default[f]]

-----------------------------------------------------------------------------
(* The children.                                                           *)

\* Every child: its parser's choices, and the resolved paths apart.
ChildParses(o) == o.rowlimit = "ok" /\ o.nested = "no"

\* Engine.__init__, before anything is written.
EngineAccepts(o) ==
  /\ VisionOk(o) /\ CacheTypesOk(o) /\ (o.mmproj => ~Quantized(o))
  /\ o.dtype = "bf16" => Draft(o)

ServeAccepts(o) ==
  /\ EngineAccepts(o) /\ DraftingOk(o) /\ ResourcesOk(o)
  /\ o.sampling \notin {"bad", "tiny"} /\ o.alias # "dashed" /\ (o.greedy => Greedy(o))
  /\ o.template \notin {"big", "missing"} /\ o.context # "bad" /\ o.port # "bad"

\* The images are decoded before the engine is made.
VisionAccepts(o) ==
  EngineAccepts(o) /\ o.tokens # "bad" /\ o.images \notin {"missing", "broken"}

EvaluateAccepts(o) ==
  /\ DraftingOk(o) /\ ResourcesOk(o)
  /\ o.task # "docstring" => o.mode = "context-speed"
  /\ o.mode = "generate" => o.prompt # "none" /\ o.tokens # "bad"
  /\ o.context = "ok"

ChildAccepts(e, o) ==
  /\ ChildParses(o)
  /\ CASE e = "serve" -> ServeAccepts(o)
       [] e = "vision" -> VisionAccepts(o)
       [] OTHER -> EvaluateAccepts(o)

-----------------------------------------------------------------------------
(* Native capabilities.  0: the binary does not export the function, 9: an  *)
(* ABI version nobody knows.                                               *)

Exports == [abi |-> {0, 1, 2, 9}, hgemm |-> {0, 1, 9}, head |-> {0, 1, 3, 9},
            highbit |-> {0, 1, 9}, mid |-> {0, 1, 9}, prefill |-> {0, 1, 9},
            pair |-> {0, 1, 9}, codebooks |-> {0, 1, 5, 9}, rows |-> {3, 5, 9}]
Newest == [abi |-> 2, hgemm |-> 1, head |-> 3, highbit |-> 1, mid |-> 1,
           prefill |-> 1, pair |-> 1, codebooks |-> 5, rows |-> 9]
Oldest == [f \in DOMAIN Newest |-> IF f = "rows" THEN 3 ELSE 0]

\* An option that needs a capability: absent is an error only on request.
CapabilityOk(version, known, requested) ==
  version \in known \/ (version = 0 /\ ~requested)

\* configure_native, with native small-M support on.
NativeOk(o, b) ==
  /\ o.pair = "on" => o.kernel = "dot"
  /\ o.kernel # "dot" \/ o.warps => b.abi \in {1, 2}
  /\ o.kernel = "wmma-register" => b.abi = 2
  /\ o.gemm # "blas" => CapabilityOk(b.hgemm, {1}, o.gemm = "wmma")
  /\ CapabilityOk(b.head, {1, 2, 3}, FALSE) /\ CapabilityOk(b.highbit, {1}, FALSE)
  /\ o.mid # "off" \/ o.midwarps =>
       CapabilityOk(b.mid, {1}, o.mid = "on" \/ o.midwarps)
  /\ o.prefill # "off" => CapabilityOk(b.prefill, {1}, o.prefill = "on")
  /\ o.pair # "off" => CapabilityOk(b.pair, {1}, o.pair = "on")
  /\ CapabilityOk(b.codebooks, {1, 5}, FALSE)

\* compat.install: the native attention needs the wide small-M build.
InstallOk(o, b) == o.attention => b.rows >= 5

Enabled(choice, version) == choice = "on" \/ (choice = "auto" /\ version = 1)

\* The layers of the target's cache and of the draft's: cache_kwargs.
CacheLayer(o) ==
  IF ~Quantized(o) THEN "f16" ELSE IF CacheK(o) = "aster5" THEN "aster" ELSE "quant"

\* What a ready model was set up with.
Configured(o, b) == [
  gemm |-> IF o.gemm # "auto" THEN o.gemm ELSE IF b.hgemm = 1 THEN "wmma" ELSE "blas",
  mid |-> Enabled(o.mid, b.mid), prefill |-> Enabled(o.prefill, b.prefill),
  pair |-> Enabled(o.pair, b.pair) /\ o.kernel = "dot",
  head |-> b.head = 3 /\ o.kernel = "dot" /\ ~o.warps,
  highbit |-> b.highbit = 1, codebooks |-> IF b.codebooks = 5 THEN {0, 2} ELSE {0},
  wmma |-> o.kernel # "dot", rows |-> b.rows, cache |-> CacheLayer(o)]

\* A packed layer: bits per weight, codebook (0 default, 1 mcg, 2 mul1), and
\* whether its dimensions are multiples of 128.
Layers == [bits : {2, 4, 5, 6, 8}, codebook : 0..2, aligned : BOOLEAN]

PackedFormat(n, w) ==
  /\ w.bits \in 2..6 /\ (w.bits <= 4 \/ w.codebook = 2)
  /\ w.codebook \in n.codebooks /\ w.aligned

\* A mutant: the wide formats are not tied to the binary's capability.
SmallFormatMut(n, w, rows) ==
  /\ w.bits \in 2..4 \/ (w.bits \in {5, 6} /\ w.codebook = 2 /\ ~n.wmma)
  /\ w.codebook \in n.codebooks /\ w.aligned
\* What the two- to nine-row kernel takes.
SmallFormat(n, w, rows) ==
  /\ \/ w.bits \in 2..4
     \/ w.bits \in {5, 6} /\ w.codebook = 2 /\ rows \in {2, 3, 5} /\ n.highbit /\ ~n.wmma
  /\ w.codebook \in n.codebooks /\ w.aligned

\* The path of a projection of so many rows, with FP16 or FP32 output.
Path(n, w, rows, fp32) ==
  IF rows <= 1 THEN "gemv"
  ELSE IF n.mid /\ rows \in 10..64 /\ PackedFormat(n, w) THEN "mid"
  ELSE IF n.prefill /\ rows \in 65..(IF fp32 THEN 512 ELSE 128) /\ PackedFormat(n, w)
       THEN "prefill"
  ELSE IF rows > n.rows THEN "reconstruct"
  ELSE IF SmallFormat(n, w, rows) THEN "smallm" ELSE "rowwise"

-----------------------------------------------------------------------------
(* The start.                                                              *)

\* sparse: routed experts; mtp, vision: those components; long: the position
\* limit is above the evaluator's; qwen: the draft is the integrated Qwen3.5 MTP;
\* plain: a plain embedding on one GPU; layers: the policy assigns them;
\* template: it has one, and a given file is not blank; binary: its hash is the
\* expected one; free: nobody listens on the port; files: all there and as the
\* manifest says, changed, or missing.
Complete == [sparse |-> TRUE, mtp |-> TRUE, vision |-> TRUE, long |-> TRUE,
             qwen |-> TRUE, plain |-> TRUE, layers |-> TRUE, template |-> TRUE,
             binary |-> TRUE, free |-> TRUE, files |-> "complete"]
Models ==
  {Complete} \cup {[Complete EXCEPT !.files = f] : f \in {"changed", "missing"}}
  \cup {[Complete EXCEPT ![f] = FALSE] : f \in DOMAIN Complete \ {"files"}}
  \cup {[Complete EXCEPT !.sparse = FALSE, !.mtp = FALSE, !.long = l] : l \in BOOLEAN}

\* candidate_preflight and check_required_tensors; a manifest lists names and sizes.
FilesOk(o, c) ==
  c.files # "missing" /\ (o.manifest # "unset" => c.files = "complete")
CpuMoeOk(o, c) == o.moe # "off" => c.sparse
ContextFits(o, c) == o.context = "huge" => c.long
\* The components the options ask for.
ComponentsOk(o, c) == (Draft(o) => c.mtp) /\ (o.mmproj => c.vision)
\* model_cache_options: before any cache is built or weight loaded.
CacheOptionsOk(o, c) == o.policy # "unset" => c.layers

\* What can fail before the weights are loaded, and after it.
EarlyOk(o, c, b) ==
  /\ o.mode = "serve" => c.free   \* reserve_socket
  /\ FilesOk(o, c) /\ c.binary /\ NativeOk(o, b) /\ CpuMoeOk(o, c)
  /\ ContextFits(o, c) /\ InstallOk(o, b) /\ ComponentsOk(o, c) /\ CacheOptionsOk(o, c)
\* install_optimizations
OptimizationsOk(o, c) == (o.gpudraft => c.qwen) /\ (o.embedding => c.plain)
LateOk(o, c) == OptimizationsOk(o, c) /\ c.template

\* Options that exclude each other, in every combination.
Drafting == [mtp : {"unset", "2"}, dtype : Values.dtype, verify : Values.verify,
  fusions : Values.fusions, attention : BOOLEAN, graph : BOOLEAN,
  cachemtp : Values.cachemtp, shortlist : BOOLEAN, embedding : BOOLEAN,
  gpudraft : BOOLEAN, metadata : BOOLEAN, confidence : {"unset", "ok"},
  kv : {"unset", "q8"}, mmproj : BOOLEAN]
\* Options that ask for a capability, in every combination.
Kernels == [kernel : Values.kernel, warps : BOOLEAN, gemm : Values.gemm,
  mid : Values.mid, midwarps : BOOLEAN, prefill : Values.prefill, pair : Values.pair]
\* Binaries that differ from the newest or the oldest in one capability.
Binaries == UNION {{[b EXCEPT ![f] = x] : b \in {Newest, Oldest}, x \in Exports[f]} :
                   f \in DOMAIN Exports}

\* What asks something of the model.
Demands == {<<"moe", "all">>, <<"mmproj", TRUE>>, <<"manifest", "given">>,
            <<"context", "huge">>, <<"embedding", TRUE>>, <<"spec", "draft-mtp">>}
Demanding(m) ==
  {Default(m)} \cup {[Default(m) EXCEPT ![d[1]] = d[2]] : d \in Demands}
  \cup {[Default(m) EXCEPT !.kv = "q8", !.policy = "good"],
        [Default(m) EXCEPT !.mmproj = TRUE, !.fusions = "off"],
        [Default(m) EXCEPT !.mmproj = TRUE, !.fusions = "off", !.images = "four"],
        [Default(m) EXCEPT !.mmproj = TRUE, !.fusions = "off", !.images = "broken"],
        [Default(m) EXCEPT !.runtime = "described", !.named = FALSE],
        [Default(m) EXCEPT !.mtp = "2", !.embedding = TRUE, !.gpudraft = TRUE]}

\* Options given at once, the others at their defaults.
Given(d, o) == [f \in DOMAIN o |-> IF f \in DOMAIN d THEN d[f] ELSE o[f]]

Init ==
  /\ stage = "typing" /\ argv = <<>> /\ native = <<>>
  /\ \E m \in Modes :
       \/ opt = Default(m) /\ given = 0 /\ binary = Newest /\ model = Complete
       \/ /\ opt \in Demanding(m) /\ given = MaxOptions
          /\ binary \in {Newest, Oldest} /\ model \in Models
       \/ /\ opt = Default(m) /\ given = MaxOptions
          /\ binary \in Binaries /\ model = Complete
       \/ /\ \E d \in Drafting : opt = Given(d, Default(m))
          /\ given = MaxOptions /\ binary = Newest /\ model = Complete
       \/ /\ m = "speed" /\ \E k \in Kernels : opt = Given(k, Default(m))
          /\ given = MaxOptions /\ binary \in Binaries /\ model = Complete

Set(f) ==
  /\ stage = "typing" /\ given < MaxOptions
  /\ opt[f] = Default(opt.mode)[f]
  /\ \E x \in Values[f] \ {opt[f]} : opt' = [opt EXCEPT ![f] = x]
  /\ given' = given + 1
  /\ UNCHANGED <<stage, argv, binary, model, native>>

\* The launcher's checks; then the child's command line, written to
\* request.json for the worker to run.
Launch ==
  /\ stage = "typing"
  /\ IF LauncherAccepts(opt) THEN stage' = "spawned" /\ argv' = Argv(opt)
                             ELSE stage' = "refused" /\ UNCHANGED argv
  /\ UNCHANGED <<opt, given, binary, model, native>>

Parse ==
  /\ stage = "spawned"
  /\ stage' = IF ChildAccepts(Entry(argv), argv) THEN "parsed" ELSE "childrefused"
  /\ UNCHANGED <<opt, given, argv, binary, model, native>>

\* From the output directory to a loaded model; what fails after the weights
\* were loaded has cost the whole load.
Load ==
  /\ stage = "parsed"
  /\ IF ~EarlyOk(argv, model, binary) THEN stage' = "failed" /\ UNCHANGED native
     ELSE IF ~LateOk(argv, model) THEN stage' = "failedlate" /\ UNCHANGED native
     ELSE /\ stage' = "ready"
          /\ native' = Configured(argv, binary)
  /\ UNCHANGED <<opt, given, argv, binary, model>>

Next == (\E f \in DOMAIN Values : Set(f)) \/ Launch \/ Parse \/ Load

Spec == Init /\ [][Next]_vars

-----------------------------------------------------------------------------
(* Properties.                                                             *)

\* Options that say nothing in the mode they are given in, or without the option
\* they belong to, and are accepted there all the same.
Ignored(o) ==
  (IF o.mode # "serve" THEN {"alias", "port", "reasoning"} ELSE {}) \cup
  (IF Entry(o) = "evaluate" THEN {"pixels"} ELSE {}) \cup
  (IF o.shortlist THEN {} ELSE {"shortmode"})

\* The child sees every option as the launcher resolved it, whatever either
\* parser's defaults are, options passed only when set included; but for those
\* that are ignored, which are what the child makes them.
ArgvFaithful ==
  stage \notin {"typing", "refused"} =>
    \A f \in DOMAIN opt :
      argv[f] = IF f \in Ignored(opt) THEN ChildDefault(Entry(opt))[f]
                                     ELSE Resolved(opt)[f]

\* What only the child looks at: a context above the evaluator's limit, the size
\* of a template, the contents of an image, the row limit of a runtime that is
\* not installed, links between model and output, and an argument that its parser
\* takes for an option.
OnlyChildSees(o) ==
  \/ Entry(o) = "evaluate" /\ o.context = "huge"
  \/ o.template = "big" \/ o.images = "broken"
  \/ o.rowlimit = "bad" \/ o.nested = "linked"
  \/ Entry(o) = "serve" /\ (o.alias = "dashed" \/ o.sampling = "tiny")

\* The checks are written twice.  What the launcher accepts, its child refuses in
\* exactly those cases: in no other are a lease, a worker and a monitor spent on
\* a combination already known bad, and none of them slips through.
AcceptedRuns ==
  stage \notin {"typing", "refused", "spawned"} =>
    (stage = "childrefused" <=> OnlyChildSees(opt))

\* A packed kernel only runs on what the binary was built for: never more rows,
\* other codebooks or wider formats than it exports, and never one the user
\* switched off; a missing capability falls back to other paths.
Exported(w, rows, fp32) ==
  LET p == Path(native, w, rows, fp32) IN
  /\ p \in {"mid", "prefill", "smallm"} =>
       /\ w.aligned /\ w.bits <= 6
       /\ w.codebook = 0 \/ (w.codebook = 2 /\ binary.codebooks = 5)
  /\ p = "mid" => binary.mid = 1 /\ opt.mid # "off"
  /\ p = "prefill" => binary.prefill = 1 /\ opt.prefill # "off"
  /\ p = "smallm" =>
       /\ rows <= binary.rows
       /\ w.bits > 4 => binary.highbit = 1 /\ opt.kernel = "dot" /\ rows \in {2, 3, 5}
\* Every model that becomes ready routes every layer so.
RoutesExported == [][
  stage # "ready" /\ stage' = "ready" =>
    \A w \in Layers, fp32 \in BOOLEAN, rows \in {1, 3, 4, 5, 9, 10, 64, 65, 129, 513} :
      Exported(w, rows, fp32)']_vars
=============================================================================
