--------------------------- MODULE StartupProofs ---------------------------
(***************************************************************************)
(* For any number of options changed and every combination of their        *)
(* values: the child of an accepted command line has the options that were *)
(* checked, but for those its mode ignores, and refuses it in the listed   *)
(* cases and no other; a ready model runs what its binary exports; and an  *)
(* evaluation of any length reports what it did.                           *)
(***************************************************************************)
EXTENDS Evaluation, TLAPS, SequenceTheorems

-----------------------------------------------------------------------------
(* Options.                                                                *)

\* The names of the options, and what an option record is.
Fields == DOMAIN Values \cup {"mode"}
Options(o) == /\ o = [f \in Fields |-> o[f]] /\ o.mode \in Modes
              /\ \A f \in DOMAIN Values : o[f] \in Values[f]

\* Every parser's defaults are an option record (main of launch_runtime.py).
LEMMA Defaults == \A m \in Modes : Options(Default(m))
<1> SUFFICES ASSUME NEW m \in Modes PROVE Options(Default(m))
  OBVIOUS
<1>1. DOMAIN Default(m) = Fields
  BY DEF Default, Fields, Values
<1>2. Default(m) = [f \in DOMAIN Default(m) |-> Default(m)[f]]
  BY DEF Default
<1>3. Default(m).mode = m
  BY DEF Default
<1>4. ASSUME NEW f \in DOMAIN Values PROVE Default(m)[f] \in Values[f]
  <2> DEFINE Fits(g) == Default(m)[g] \in Values[g]
  <2>1. /\ Fits("spec") /\ Fits("mtp") /\ Fits("dtype") /\ Fits("verify")
        /\ Fits("fusions") /\ Fits("attention") /\ Fits("graph") /\ Fits("cachemtp")
    BY DEF Default, Values
  <2>2. /\ Fits("shortlist") /\ Fits("embedding") /\ Fits("gpudraft") /\ Fits("metadata")
        /\ Fits("confidence") /\ Fits("greedy") /\ Fits("kv") /\ Fits("k")
    BY DEF Default, Values
  <2>3. /\ Fits("v") /\ Fits("policy") /\ Fits("mmproj") /\ Fits("images")
        /\ Fits("pixels") /\ Fits("expected") /\ Fits("task") /\ Fits("sampling")
    BY DEF Default, Values
  <2>4. /\ Fits("serving") /\ Fits("prefix") /\ Fits("template") /\ Fits("prompt")
        /\ Fits("tokens") /\ Fits("context") /\ Fits("chunk") /\ Fits("moe")
    BY DEF Default, Values
  <2>5. /\ Fits("ranges") /\ Fits("nested") /\ Fits("kernel") /\ Fits("warps")
        /\ Fits("gemm") /\ Fits("runtime") /\ Fits("named") /\ Fits("manifest")
    BY DEF Default, Values
  <2>6. /\ Fits("mid") /\ Fits("midwarps") /\ Fits("prefill") /\ Fits("pair")
        /\ Fits("reasoning") /\ Fits("port") /\ Fits("alias") /\ Fits("shortmode")
        /\ Fits("rowlimit")
    BY DEF Default, Values
  <2>9. f \in {"spec", "mtp", "dtype", "verify", "fusions", "attention", "graph", "cachemtp",
              "shortlist", "embedding", "gpudraft", "metadata", "confidence", "greedy", "kv",
              "k", "v", "policy", "mmproj", "images", "pixels", "expected", "task", "sampling",
              "serving", "prefix", "template", "prompt", "tokens", "context", "chunk", "moe",
              "ranges", "nested", "kernel", "warps", "gemm", "runtime", "named", "manifest",
              "mid", "midwarps", "prefill", "pair", "reasoning", "port", "alias", "shortmode",
              "rowlimit"}
    BY DEF Values
  <2> HIDE DEF Fits
  <2>10. Fits(f)
    BY <2>1, <2>2, <2>3, <2>4, <2>5, <2>6, <2>9
  <2> QED BY <2>10 DEF Fits
<1> QED BY <1>1, <1>2, <1>3, <1>4 DEF Options

\* One option changed to a value it may have leaves an option record.
LEMMA SetOne ==
  ASSUME NEW o, Options(o), NEW f \in DOMAIN Values, NEW x \in Values[f]
  PROVE Options([o EXCEPT ![f] = x])
<1> DEFINE p == [o EXCEPT ![f] = x]
<1>1. "mode" \notin DOMAIN Values
  BY DEF Values
<1>2. DOMAIN o = Fields
  BY DEF Options
<1>3. p = [g \in Fields |-> IF g = f THEN x ELSE o[g]]
  BY <1>2
<1> QED BY <1>1, <1>3 DEF Options, Fields

\* It changes these only.
Resolving == {"spec", "mtp", "kv", "k", "v", "chunk", "prompt", "manifest", "runtime", "named"}
\* Every option the launcher does not resolve reaches the child as it was given.
LEMMA Kept == \A o : Options(o) => \A f \in Fields : f \notin Resolving => Resolved(o)[f] = o[f]
BY DEF Options, Resolved, Resolving

\* Some modes ignore some of these.
Unheard == {"alias", "port", "reasoning", "pixels", "shortmode"}
\* The options of the child: the launcher's, or the parser's where they are ignored.
Child(o) ==
  [f \in Fields |-> IF f \in Ignored(o) THEN ChildDefault(Entry(o))[f] ELSE Resolved(o)[f]]

\* The heart of the hand-over.  Of an accepted command line the child parses what the
\* launcher resolved, option by option: an option passed always is what was resolved;
\* one left out because it is the launcher's default is the child's default too; one
\* passed in its mode only was checked to be at its default elsewhere; and no other one
\* is left out.
LEMMA ArgvIs ==
  ASSUME NEW o, Options(o), LauncherAccepts(o)
  PROVE  Argv(o) = Child(o)
<1> DEFINE r == Resolved(o)
           c == ChildDefault(Entry(o))
           At(f) == f \in Passed(o, r) \/ c[f] = r[f]
           Same(f) == c[f] = Default(o.mode)[f]
           Drops(f) == f \notin Passed(o, r)
<1>1. DOMAIN o = Fields /\ r = [f \in Fields |-> r[f]]
  BY DEF Options, Resolved
<1>2. \A f \in WhenSet : f \notin Passed(o, r) => r[f] = Default(o.mode)[f]
  BY DEF Passed
<1>3. \A f \in Always \cup {"mode"} : At(f)
  BY DEF Passed, OfMode
<1>4. /\ Same("moe") /\ Same("dtype") /\ Same("verify") /\ Same("confidence")
      /\ Same("warps") /\ Same("mid")
  BY DEF ChildDefault, Default
<1>5. /\ Same("midwarps") /\ Same("prefill") /\ Same("pair") /\ Same("cachemtp")
      /\ Same("graph") /\ Same("attention")
  BY DEF ChildDefault, Default
<1>6. /\ Same("shortlist") /\ Same("embedding") /\ Same("greedy") /\ Same("gpudraft")
      /\ Same("metadata") /\ Same("policy")
  BY DEF ChildDefault, Default
<1>7. /\ Same("images") /\ Same("expected") /\ Same("mtp") /\ Same("manifest")
  BY DEF ChildDefault, Default
<1>8. \A f \in WhenSet : At(f)
  <2>1. \A f \in WhenSet : c[f] = Default(o.mode)[f]
    BY <1>4, <1>5, <1>6, <1>7 DEF WhenSet
  <2> QED BY <1>2, <2>1
<1>9. At("spec") /\ At("kv") /\ At("runtime") /\ At("named")
  <2>1. r.spec = "unset" /\ r.kv = "unset" /\ r.runtime = "installed" /\ r.named = TRUE
    BY <1>1 DEF Resolved, Fields, Values
  <2>2. c.spec = "unset" /\ c.kv = "unset" /\ c.runtime = "installed" /\ c.named = TRUE
    BY DEF ChildDefault, Default
  <2> QED BY <2>1, <2>2
<1>10. At("mmproj")
  <2>1. r.mmproj = o.mmproj /\ o.mmproj \in BOOLEAN /\ o.mode \in Modes
    BY <1>1 DEF Resolved, Options, Values, Fields
  <2>2. c.mmproj = FALSE
    BY DEF ChildDefault, Default
  <2>3. Entry(o) = "evaluate" => o.mmproj = FALSE
    BY <2>1 DEF Entry, LauncherAccepts, VisionOk
  <2> QED BY <2>1, <2>2, <2>3 DEF Passed, OfMode
<1>11. At("serving") /\ At("prefix") /\ At("template") /\ At("sampling")
  <2>1. /\ r.serving = o.serving /\ r.prefix = o.prefix
        /\ r.template = o.template /\ r.sampling = o.sampling
    BY Kept DEF Resolving, Values, Fields
  <2>2. c.serving = FALSE /\ c.prefix = FALSE /\ c.template = "unset" /\ c.sampling = "default"
    BY DEF ChildDefault, Default
  <2>3. o.mode # "serve" => ~o.serving /\ ~o.prefix /\ o.template = "unset" /\ o.sampling = "default"
    BY DEF LauncherAccepts, ServeOnlyOk
  <2>4. o.serving \in BOOLEAN /\ o.prefix \in BOOLEAN
    BY DEF Options, Values
  <2> QED BY <2>1, <2>2, <2>3, <2>4 DEF Passed, OfMode
<1>12. At("task") /\ At("prompt") /\ At("tokens")
  <2>1. r.task = o.task /\ r.tokens = o.tokens /\ (o.prompt # "text" => r.prompt = o.prompt)
    <3>1. r.task = o.task /\ r.tokens = o.tokens
      BY Kept DEF Resolving, Values, Fields
    <3>2. o.prompt # "text" => r.prompt = o.prompt
      <4>1. "prompt" \in DOMAIN o
        BY <1>1 DEF Fields, Values
      <4> QED BY <4>1 DEF Resolved
    <3> QED BY <3>1, <3>2
  <2>2. c.task = "docstring" /\ c.prompt = "none" /\ c.tokens = "default"
    BY DEF ChildDefault, Default
  <2>3. o.mode # "generate" => o.prompt = "none" /\ o.tokens = "default"
    BY DEF LauncherAccepts, PromptOk
  <2>4. o.mode # "context-speed" => o.task = "docstring"
    BY DEF LauncherAccepts
  <2> QED BY <2>1, <2>2, <2>3, <2>4 DEF Passed, OfMode
<1>13. \A f \in Unheard : IF f \in Ignored(o) THEN Drops(f) ELSE At(f)
  <2>1. \A f \in Unheard : f \in Passed(o, r) <=> f \in OfMode(o)
    BY DEF Passed, Unheard, Always, WhenSet
  <2>2. \A f \in {"alias", "port", "reasoning"} : f \in Ignored(o) <=> f \notin OfMode(o)
    BY DEF Ignored, OfMode
  <2>3. "pixels" \in Ignored(o) <=> "pixels" \notin OfMode(o)
    BY DEF Ignored, OfMode
  <2>4. "shortmode" \in Ignored(o) <=> "shortmode" \notin OfMode(o)
    BY DEF Ignored, OfMode
  <2> QED BY <2>1, <2>2, <2>3, <2>4 DEF Unheard
<1>14. \A f \in Fields \ Unheard : At(f)
  <2>1. Fields \ Unheard = Always \cup WhenSet \cup {"mode", "spec", "kv", "runtime", "named",
             "mmproj", "serving", "prefix", "template", "sampling", "task", "prompt", "tokens"}
    BY DEF Fields, Values, Always, WhenSet, Unheard
  <2> HIDE DEF At
  <2> QED BY <2>1, <1>3, <1>8, <1>9, <1>10, <1>11, <1>12
<1>15. \A f \in Fields : (IF f \in Passed(o, r) THEN r[f] ELSE c[f])
                         = (IF f \in Ignored(o) THEN c[f] ELSE r[f])
  <2>1. Ignored(o) \subseteq Unheard
    BY DEF Ignored, Unheard
  <2> QED BY <1>13, <1>14, <2>1
<1> QED
  <2>1. Argv(o) = [f \in Fields |-> IF f \in Passed(o, r) THEN r[f] ELSE c[f]]
    BY <1>1 DEF Argv
  <2>2. Child(o) = [f \in Fields |-> IF f \in Ignored(o) THEN c[f] ELSE r[f]]
    BY DEF Child
  <2> HIDE DEF r, c
  <2> QED BY <1>15, <2>1, <2>2

\* An option that is neither resolved nor ignored by some mode reaches the child.
LEMMA Arrives ==
  \A o : Options(o) => \A f \in Fields :
    /\ f \notin Unheard => Child(o)[f] = Resolved(o)[f]
    /\ f \notin Unheard \cup Resolving => Child(o)[f] = o[f]
<1>1. \A o : Ignored(o) \subseteq Unheard
  BY DEF Ignored, Unheard
<1>2. \A o : \A f \in Fields :
        Child(o)[f] = IF f \in Ignored(o) THEN ChildDefault(Entry(o))[f] ELSE Resolved(o)[f]
  BY DEF Child
<1> QED BY <1>1, <1>2, Kept

\* The child reads the same of the resolved options.
LEMMA ReadAlike ==
  ASSUME NEW o, Options(o)
  PROVE  LET c == Child(o) IN
         /\ Draft(c) = Draft(o) /\ CacheK(c) = CacheK(o) /\ CacheV(c) = CacheV(o)
         /\ c.kv = "unset" /\ c.spec = "unset"
         /\ Entry(c) = Entry(o) /\ (o.chunk # "bad" => c.chunk # "bad")
         /\ (o.prompt # "none" => c.prompt # "none")
<1> DEFINE r == Resolved(o)
           c == Child(o)
<1>0. DOMAIN o = Fields
  BY DEF Options
<1>1. r.spec = "unset" /\ r.mtp = (IF Draft(o) THEN "2" ELSE "unset") /\ r.kv = "unset"
  <2>1. "spec" \in DOMAIN o /\ "mtp" \in DOMAIN o /\ "kv" \in DOMAIN o
    BY <1>0 DEF Fields, Values
  <2> QED BY <2>1 DEF Resolved
<1>2. r.k = CacheK(o) /\ r.v = CacheV(o)
  <2>1. "k" \in DOMAIN o /\ "v" \in DOMAIN o
    BY <1>0 DEF Fields, Values
  <2> QED BY <2>1 DEF Resolved
<1>3. /\ r.chunk = (IF o.chunk = "unset" THEN "ok" ELSE o.chunk)
      /\ r.prompt = (IF o.prompt = "text" THEN "file" ELSE o.prompt)
  <2>1. "chunk" \in DOMAIN o /\ "prompt" \in DOMAIN o
    BY <1>0 DEF Fields, Values
  <2> QED BY <2>1 DEF Resolved
<1>4. /\ c.spec = r.spec /\ c.mtp = r.mtp /\ c.kv = r.kv /\ c.k = r.k /\ c.v = r.v
      /\ c.chunk = r.chunk /\ c.prompt = r.prompt /\ c.mode = o.mode /\ c.mmproj = o.mmproj
  <2> HIDE DEF r, c
  <2> QED BY Arrives DEF Resolving, Unheard, Fields, Values, r, c
<1> HIDE DEF r, c
<1>5. Draft(c) = Draft(o)
  BY <1>1, <1>4 DEF Draft
<1>6. CacheK(c) = CacheK(o) /\ CacheV(c) = CacheV(o)
  BY <1>1, <1>2, <1>4 DEF CacheK, CacheV
<1>7. Entry(c) = Entry(o)
  BY <1>4 DEF Entry
<1> QED BY <1>1, <1>3, <1>4, <1>5, <1>6, <1>7 DEF c

\* What the child sees of the options its checks are about.
LEMMA Seen ==
  ASSUME NEW o, Options(o), NEW c, c = Child(o)
  PROVE  /\ c.mode = o.mode /\ c.mmproj = o.mmproj /\ c.images = o.images
         /\ c.fusions = o.fusions /\ c.attention = o.attention /\ c.graph = o.graph
         /\ c.embedding = o.embedding /\ c.gpudraft = o.gpudraft /\ c.shortlist = o.shortlist
         /\ c.cachemtp = o.cachemtp /\ c.prefix = o.prefix /\ c.expected = o.expected
         /\ c.dtype = o.dtype /\ c.verify = o.verify /\ c.metadata = o.metadata
         /\ c.confidence = o.confidence /\ c.policy = o.policy
         /\ c.moe = o.moe /\ c.ranges = o.ranges /\ c.nested = o.nested
         /\ c.rowlimit = o.rowlimit /\ c.sampling = o.sampling
         /\ c.greedy = o.greedy /\ c.template = o.template /\ c.context = o.context
         /\ c.tokens = o.tokens /\ c.task = o.task
<1>1. /\ c.mode = o.mode /\ c.mmproj = o.mmproj /\ c.images = o.images
      /\ c.fusions = o.fusions /\ c.attention = o.attention /\ c.graph = o.graph
      /\ c.embedding = o.embedding /\ c.gpudraft = o.gpudraft /\ c.shortlist = o.shortlist
  BY Arrives DEF Resolving, Unheard, Fields, Values
<1>2. /\ c.cachemtp = o.cachemtp /\ c.prefix = o.prefix /\ c.expected = o.expected
      /\ c.dtype = o.dtype /\ c.verify = o.verify /\ c.metadata = o.metadata
      /\ c.confidence = o.confidence /\ c.policy = o.policy
  BY Arrives DEF Resolving, Unheard, Fields, Values
<1>3. /\ c.moe = o.moe /\ c.ranges = o.ranges /\ c.nested = o.nested
      /\ c.rowlimit = o.rowlimit /\ c.sampling = o.sampling
      /\ c.greedy = o.greedy /\ c.template = o.template /\ c.context = o.context
      /\ c.tokens = o.tokens /\ c.task = o.task
  BY Arrives DEF Resolving, Unheard, Fields, Values
<1> QED BY <1>1, <1>2, <1>3

\* What a mode ignores is the parser's default, and what it does not is passed on.
LEMMA Heard ==
  ASSUME NEW o, Options(o), NEW c, c = Child(o)
  PROVE  /\ o.pixels # "bad" => c.pixels # "bad"
         /\ o.port # "bad" => c.port # "bad"
         /\ Entry(o) = "serve" => c.alias = o.alias
<1>1. /\ {"pixels", "port", "alias"} \subseteq Fields
      /\ Resolved(o).pixels = o.pixels /\ Resolved(o).port = o.port
      /\ Resolved(o).alias = o.alias
  BY Kept DEF Resolving, Fields, Values
<1>2. LET d == ChildDefault(Entry(o)) IN d.pixels = "default" /\ d.port = "default"
  BY DEF ChildDefault, Default
<1>3. \A f \in {"pixels", "port", "alias"} :
        c[f] = IF f \in Ignored(o) THEN ChildDefault(Entry(o))[f] ELSE Resolved(o)[f]
  BY <1>1 DEF Child
<1>4. Entry(o) = "serve" => "alias" \notin Ignored(o)
  BY DEF Entry, Ignored
<1> QED BY <1>1, <1>2, <1>3, <1>4

\* Each check of the child is implied by the launcher's, but for what only the child looks at.
LEMMA AcceptedByChild ==
  ASSUME NEW o, Options(o), LauncherAccepts(o), ~OnlyChildSees(o)
  PROVE  ChildAccepts(Entry(Child(o)), Child(o))
<1> DEFINE c == Child(o)
<1>1. /\ Draft(c) = Draft(o) /\ CacheK(c) = CacheK(o) /\ CacheV(c) = CacheV(o)
      /\ c.kv = "unset" /\ c.spec = "unset" /\ Entry(c) = Entry(o)
      /\ (o.chunk # "bad" => c.chunk # "bad")
      /\ (o.prompt # "none" => c.prompt # "none")
  BY ReadAlike
<1>2. /\ c.mode = o.mode /\ c.mmproj = o.mmproj /\ c.images = o.images
      /\ c.fusions = o.fusions /\ c.attention = o.attention /\ c.graph = o.graph
      /\ c.embedding = o.embedding /\ c.gpudraft = o.gpudraft /\ c.shortlist = o.shortlist
      /\ (o.pixels # "bad" => c.pixels # "bad")
  BY Seen, Heard
<1>3. /\ c.cachemtp = o.cachemtp /\ c.prefix = o.prefix /\ c.expected = o.expected
      /\ c.dtype = o.dtype /\ c.verify = o.verify /\ c.metadata = o.metadata
      /\ c.confidence = o.confidence /\ c.policy = o.policy
  BY Seen
<1>4. /\ c.moe = o.moe /\ c.ranges = o.ranges /\ c.nested = o.nested
      /\ c.rowlimit = o.rowlimit /\ c.sampling = o.sampling
      /\ c.greedy = o.greedy /\ c.template = o.template /\ c.context = o.context
      /\ c.tokens = o.tokens /\ c.task = o.task
      /\ (o.port # "bad" => c.port # "bad") /\ (Entry(o) = "serve" => c.alias = o.alias)
  BY Seen, Heard
<1> SUFFICES ChildAccepts(Entry(c), c)
  OBVIOUS
<1> HIDE DEF c
<1>5. VisionOk(c) /\ ResourcesOk(c)
  <2>1. VisionOk(o) /\ ResourcesOk(o)
    BY DEF LauncherAccepts
  <2> QED BY <1>1, <1>2, <1>3, <1>4, <2>1 DEF VisionOk, ResourcesOk
<1>6. DraftingOk(c) /\ CacheTypesOk(c)
  <2>1. DraftingOk(o)
    BY DEF LauncherAccepts
  <2>2. Quantized(c) = Quantized(o)
    BY <1>1 DEF Quantized
  <2>3. Bf16Ok(c) /\ RowwiseOk(c) /\ GraphOk(c) /\ ShortlistOk(c) /\ GpuDraftOk(c)
    BY <1>1, <1>2, <1>3, <2>1 DEF DraftingOk, Bf16Ok, RowwiseOk, GraphOk, ShortlistOk, GpuDraftOk
  <2>4. CacheMtpOk(c) /\ ConfidenceOk(c) /\ QuantizedOk(c)
    BY <1>1, <1>2, <1>3, <2>1, <2>2 DEF DraftingOk, CacheMtpOk, ConfidenceOk, QuantizedOk
  <2>5. CacheTypesOk(c)
    BY <1>1, <1>3, <2>1 DEF DraftingOk, CacheTypesOk, PolicyOk
  <2> QED BY <2>3, <2>4, <2>5 DEF DraftingOk
<1>7. EngineAccepts(c)
  <2>1. Quantized(c) = Quantized(o)
    BY <1>1 DEF Quantized
  <2>2. (c.mmproj => ~Quantized(c)) /\ (c.dtype = "bf16" => Draft(c))
    BY <1>1, <1>2, <1>3, <2>1 DEF LauncherAccepts, DraftingOk, Bf16Ok
  <2> QED BY <1>5, <1>6, <2>2 DEF EngineAccepts
<1>8. /\ c.sampling # "bad" /\ (c.greedy => Greedy(c)) /\ c.template \notin {"big", "missing"}
      /\ c.context # "bad" /\ c.tokens # "bad" /\ c.port # "bad"
      /\ c.images \notin {"missing", "broken"} /\ ChildParses(c)
  <2>1. o.nested = "no" /\ o.rowlimit = "ok"
    BY DEF LauncherAccepts, OnlyChildSees, Options, Values
  <2>2. /\ o.sampling # "bad" /\ (o.greedy => Greedy(o)) /\ o.context # "bad"
        /\ o.tokens # "bad" /\ o.port # "bad" /\ o.template \notin {"big", "missing"}
        /\ o.images \notin {"missing", "broken"}
    BY DEF LauncherAccepts, OnlyChildSees
  <2> QED BY <1>2, <1>4, <2>1, <2>2 DEF Greedy, ChildParses
<1>9. CASE Entry(o) = "serve"
  <2>1. c.sampling # "tiny" /\ c.alias # "dashed"
    BY <1>4, <1>9 DEF OnlyChildSees
  <2> QED BY <1>1, <1>5, <1>6, <1>7, <1>8, <1>9, <2>1 DEF ChildAccepts, ServeAccepts
<1>10. CASE Entry(o) = "vision"
  BY <1>1, <1>7, <1>8, <1>10 DEF ChildAccepts, VisionAccepts
<1>11. CASE Entry(o) = "evaluate"
  <2>1. c.context = "ok"
    <3>1. o.context \in {"ok", "bad", "huge"} /\ o.context \notin {"bad", "huge"}
      BY <1>11 DEF Options, Values, LauncherAccepts, OnlyChildSees
    <3> QED BY <1>4, <3>1
  <2>2. c.task # "docstring" => c.mode = "context-speed"
    BY <1>2, <1>4 DEF LauncherAccepts
  <2>3. c.mode = "generate" => c.prompt # "none"
    BY <1>1, <1>2 DEF LauncherAccepts, PromptOk
  <2> QED BY <1>1, <1>5, <1>6, <1>8, <1>11, <2>1, <2>2, <2>3 DEF ChildAccepts, EvaluateAccepts
<1> QED BY <1>9, <1>10, <1>11 DEF Entry

\* And each of those is refused by the child that meets it.
LEMMA RefusedByChild ==
  ASSUME NEW o, Options(o), LauncherAccepts(o), OnlyChildSees(o)
  PROVE  ~ChildAccepts(Entry(Child(o)), Child(o))
<1> DEFINE c == Child(o)
<1>1. /\ Entry(c) = Entry(o) /\ c.context = o.context /\ c.template = o.template
      /\ c.images = o.images /\ c.rowlimit = o.rowlimit /\ c.nested = o.nested
      /\ c.sampling = o.sampling /\ (Entry(o) = "serve" => c.alias = o.alias)
  BY ReadAlike, Seen, Heard
<1> SUFFICES ~ChildAccepts(Entry(c), c)
  OBVIOUS
<1> HIDE DEF c
<1>2. CASE Entry(o) = "evaluate" /\ o.context = "huge"
  BY <1>1, <1>2 DEF ChildAccepts, EvaluateAccepts
<1>3. CASE o.template = "big"
  <2>1. Entry(o) = "serve"
    BY <1>3 DEF LauncherAccepts, ServeOnlyOk, Entry
  <2> QED BY <1>1, <1>3, <2>1 DEF ChildAccepts, ServeAccepts
<1>4. CASE o.images = "broken"
  <2>1. Entry(o) = "vision"
    <3>1. o.mmproj /\ o.mode = "generate"
      BY <1>4 DEF LauncherAccepts, VisionOk, Options, Values
    <3> QED BY <3>1 DEF Entry
  <2> QED BY <1>1, <1>4, <2>1 DEF ChildAccepts, VisionAccepts
<1>5. CASE o.rowlimit = "bad" \/ o.nested = "linked"
  BY <1>1, <1>5 DEF ChildAccepts, ChildParses
<1>6. CASE Entry(o) = "serve" /\ (o.alias = "dashed" \/ o.sampling = "tiny")
  BY <1>1, <1>6 DEF ChildAccepts, ServeAccepts
<1> QED BY <1>2, <1>3, <1>4, <1>5, <1>6 DEF OnlyChildSees

-----------------------------------------------------------------------------
(* The start.                                                              *)

\* Once accepted, the options passed the launcher's checks and the child has them.
StartupInv ==
  /\ Options(opt)
  /\ stage \notin {"typing", "refused"} => LauncherAccepts(opt) /\ argv = Child(opt)
  /\ stage \notin {"typing", "refused", "spawned"} =>
       (stage = "childrefused" <=> ~ChildAccepts(Entry(argv), argv))

\* Options given at once are an option record (Drafting, Kernels).
LEMMA OptionsGiven ==
  ASSUME NEW m \in Modes, NEW d, DOMAIN d \subseteq DOMAIN Values,
         \A f \in DOMAIN d : d[f] \in Values[f]
  PROVE  Options(Given(d, Default(m)))
<1>1. Options(Default(m)) /\ DOMAIN Default(m) = Fields
  BY Defaults DEF Options
<1>2. "mode" \notin DOMAIN d
  BY DEF Values
<1>3. Given(d, Default(m)) = [f \in Fields |-> IF f \in DOMAIN d THEN d[f] ELSE Default(m)[f]]
  BY <1>1 DEF Given
<1> HIDE DEF Options
<1>4. Given(d, Default(m)).mode \in Modes
  BY <1>1, <1>2, <1>3 DEF Options, Fields
<1>5. \A f \in DOMAIN Values : Given(d, Default(m))[f] \in Values[f]
  BY <1>1, <1>3 DEF Options, Fields
<1>6. Given(d, Default(m)) = [f \in Fields |-> Given(d, Default(m))[f]]
  BY <1>3
<1> QED BY <1>4, <1>5, <1>6 DEF Options

\* A command line as it is first typed is an option record.
LEMMA StartingOptions == Init => Options(opt)
<1> SUFFICES ASSUME Init PROVE Options(opt)
  OBVIOUS
<1>1. PICK m \in Modes :
        \/ opt = Default(m) \/ opt \in Demanding(m)
        \/ \E d \in Drafting : opt = Given(d, Default(m))
        \/ \E k \in Kernels : opt = Given(k, Default(m))
  BY DEF Init
<1>2. CASE opt = Default(m)
  BY <1>2, Defaults
<1>3. CASE opt \in Demanding(m)
  <2> DEFINE e == Default(m)
  <2>1. Options(e)
    BY Defaults
  <2>2. ASSUME NEW d \in Demands PROVE Options([e EXCEPT ![d[1]] = d[2]])
    <3>1. d[1] \in DOMAIN Values /\ d[2] \in Values[d[1]]
      <4>1. \A a, b : d = <<a, b>> => d[1] = a /\ d[2] = b
        OBVIOUS
      <4>2. {"moe", "mmproj", "manifest", "context", "embedding", "spec"} \subseteq DOMAIN Values
        BY DEF Values
      <4>3. "all" \in Values["moe"] /\ TRUE \in Values["mmproj"] /\ "given" \in Values["manifest"]
            /\ "huge" \in Values["context"] /\ TRUE \in Values["embedding"]
            /\ "draft-mtp" \in Values["spec"]
        BY DEF Values
      <4>4. \E a \in DOMAIN Values : \E b \in Values[a] : d = <<a, b>>
        BY <4>2, <4>3 DEF Demands
      <4> QED BY <4>1, <4>4
    <3> HIDE DEF e
    <3> QED BY <2>1, <3>1, SetOne
  <2>3. Options([e EXCEPT !.kv = "q8", !.policy = "good"])
    <3>1. /\ "q8" \in Values["kv"] /\ "good" \in Values["policy"]
          /\ {"kv", "policy"} \subseteq DOMAIN Values
      BY DEF Values
    <3> HIDE DEF e
    <3>2. Options([e EXCEPT !["kv"] = "q8"])
      BY <2>1, <3>1, SetOne
    <3> QED BY <3>1, <3>2, SetOne
  <2>4. Options([e EXCEPT !.mmproj = TRUE, !.fusions = "off"])
    <3>1. /\ TRUE \in Values["mmproj"] /\ "off" \in Values["fusions"]
          /\ {"mmproj", "fusions"} \subseteq DOMAIN Values
      BY DEF Values
    <3> HIDE DEF e
    <3>2. Options([e EXCEPT !["mmproj"] = TRUE])
      BY <2>1, <3>1, SetOne
    <3> QED BY <3>1, <3>2, SetOne
  <2>7. \A i \in {"four", "broken"} :
          Options([e EXCEPT !.mmproj = TRUE, !.fusions = "off", !.images = i])
    <3>1. \A i \in {"four", "broken"} : i \in Values["images"] /\ "images" \in DOMAIN Values
      BY DEF Values
    <3> HIDE DEF e
    <3>2. \A i \in {"four", "broken"} :
            Options([[e EXCEPT !.mmproj = TRUE, !.fusions = "off"] EXCEPT !["images"] = i])
      BY <2>4, <3>1, SetOne
    <3> QED BY <3>2
  <2>5. Options([e EXCEPT !.runtime = "described", !.named = FALSE])
    <3>1. /\ "described" \in Values["runtime"] /\ FALSE \in Values["named"]
          /\ {"runtime", "named"} \subseteq DOMAIN Values
      BY DEF Values
    <3> HIDE DEF e
    <3>2. Options([e EXCEPT !["runtime"] = "described"])
      BY <2>1, <3>1, SetOne
    <3> QED BY <3>1, <3>2, SetOne
  <2>6. Options([e EXCEPT !.mtp = "2", !.embedding = TRUE, !.gpudraft = TRUE])
    <3>1. "2" \in Values["mtp"] /\ TRUE \in Values["embedding"] /\ TRUE \in Values["gpudraft"]
          /\ {"mtp", "embedding", "gpudraft"} \subseteq DOMAIN Values
      BY DEF Values
    <3> HIDE DEF e
    <3>2. Options([e EXCEPT !["mtp"] = "2"])
      BY <2>1, <3>1, SetOne
    <3>3. Options([[e EXCEPT !["mtp"] = "2"] EXCEPT !["embedding"] = TRUE])
      BY <3>1, <3>2, SetOne
    <3> QED BY <3>1, <3>3, SetOne
  <2> HIDE DEF e
  <2> QED BY <1>3, <2>1, <2>2, <2>3, <2>4, <2>5, <2>6, <2>7 DEF Demanding, e
<1>4. CASE \E d \in Drafting : opt = Given(d, Default(m))
  <2>1. PICK d \in Drafting : opt = Given(d, Default(m))
    BY <1>4
  <2>2. DOMAIN d \subseteq DOMAIN Values
    BY DEF Drafting, Values
  <2>3. \A f \in DOMAIN d : d[f] \in Values[f]
    BY DEF Drafting, Values
  <2> QED BY <2>1, <2>2, <2>3, OptionsGiven
<1>5. CASE \E k \in Kernels : opt = Given(k, Default(m))
  <2>1. PICK k \in Kernels : opt = Given(k, Default(m))
    BY <1>5
  <2>2. DOMAIN k \subseteq DOMAIN Values
    BY DEF Kernels, Values
  <2>3. \A f \in DOMAIN k : k[f] \in Values[f]
    BY DEF Kernels, Values
  <2> QED BY <2>1, <2>2, <2>3, OptionsGiven
<1> QED BY <1>1, <1>2, <1>3, <1>4, <1>5

\* The invariant holds before anything is checked.
LEMMA StartupStart == Init => StartupInv
BY StartingOptions DEF Init, StartupInv

\* Typing, the launcher's checks, the child's and the load preserve it.
LEMMA StartupStep == StartupInv /\ [Next]_vars => StartupInv'
<1> SUFFICES ASSUME StartupInv, [Next]_vars PROVE StartupInv'
  OBVIOUS
<1>1. ASSUME NEW f \in DOMAIN Values, Set(f) PROVE StartupInv'
  <2>1. PICK x \in Values[f] : opt' = [opt EXCEPT ![f] = x]
    BY <1>1 DEF Set
  <2>2. Options(opt) /\ opt' = [opt EXCEPT ![f] = x]
    BY <2>1 DEF StartupInv
  <2>3. \A o, p : Options(o) /\ p = [o EXCEPT ![f] = x] => Options(p)
    <3> SUFFICES ASSUME NEW o, Options(o) PROVE Options([o EXCEPT ![f] = x])
      OBVIOUS
    <3> QED BY SetOne
  <2>4. Options(opt')
    BY <2>2, <2>3
  <2> QED BY <1>1, <2>4 DEF Set, StartupInv, Options
<1>2. CASE Launch
  <2>1. \A o : Options(o) /\ LauncherAccepts(o) => Argv(o) = Child(o)
    BY ArgvIs
  <2>2. Options(opt) /\ opt' = opt /\ stage' \in {"spawned", "refused"}
        /\ (stage' = "spawned" => LauncherAccepts(opt) /\ argv' = Argv(opt))
    BY <1>2 DEF Launch, StartupInv
  <2> QED BY <2>1, <2>2 DEF StartupInv
<1>3. CASE Parse
  BY <1>3 DEF Parse, StartupInv
<1>4. CASE Load
  BY <1>4 DEF Load, StartupInv
<1>5. CASE UNCHANGED vars
  BY <1>5 DEF vars, StartupInv
<1> QED BY <1>1, <1>2, <1>3, <1>4, <1>5 DEF Next

\* The invariant holds of every start (main of launch_runtime.py to Engine.__init__).
THEOREM StartupInvariance == Spec => []StartupInv
BY StartupStart, StartupStep, PTL DEF Spec

\* The child sees every option as the launcher resolved it, whatever either parser's
\* defaults are, but for those its mode ignores, for every combination of options
\* (launch_runtime.py, the children's parsers).
THEOREM ArgvsFaithful == Spec => []ArgvFaithful
<1>1. ASSUME StartupInv, stage \notin {"typing", "refused"}
      PROVE  \A f \in DOMAIN opt : argv[f] = IF f \in Ignored(opt)
               THEN ChildDefault(Entry(opt))[f] ELSE Resolved(opt)[f]
  <2>1. argv = Child(opt) /\ DOMAIN opt = Fields
    BY <1>1 DEF StartupInv, Options
  <2> QED BY <2>1 DEF Child
<1>2. StartupInv => ArgvFaithful
  BY <1>1 DEF ArgvFaithful
<1> QED BY <1>2, StartupInvariance, PTL

\* What the launcher accepts its child refuses in the listed cases and in no other (the
\* checks of main in launch_runtime.py and its children).
THEOREM AcceptedRun == Spec => []AcceptedRuns
<1>1. StartupInv => AcceptedRuns
  <2>1. \A o : Options(o) /\ LauncherAccepts(o) =>
                (OnlyChildSees(o) <=> ~ChildAccepts(Entry(Child(o)), Child(o)))
    BY AcceptedByChild, RefusedByChild
  <2> QED BY <2>1 DEF StartupInv, AcceptedRuns
<1> QED BY <1>1, StartupInvariance, PTL

-----------------------------------------------------------------------------
(* The paths of a ready model.                                             *)

\* A binary's row limit is a number.
LEMMA BinariesRows ==
  \A b \in {Newest, Oldest} \cup Binaries : b.rows \in Nat
<1>1. /\ Newest.rows = 9 /\ Oldest.rows = 3
      /\ DOMAIN Newest = DOMAIN Exports /\ DOMAIN Oldest = DOMAIN Exports
  BY DEF Newest, Oldest, Exports
<1>2. ASSUME NEW b \in Binaries PROVE b.rows \in Nat
  <2>1. PICK f \in DOMAIN Exports : \E c \in {Newest, Oldest}, x \in Exports[f] : b = [c EXCEPT ![f] = x]
    BY <1>2 DEF Binaries
  <2>2. PICK c \in {Newest, Oldest}, x \in Exports[f] : b = [c EXCEPT ![f] = x]
    BY <2>1
  <2>3. CASE f = "rows"
    <3>1. x \in Nat
      BY <2>2, <2>3 DEF Exports
    <3>2. f \in DOMAIN c
      BY <1>1, <2>2
    <3> QED BY <2>2, <2>3, <3>1, <3>2
  <2>4. CASE f # "rows"
    <3>1. "rows" \in DOMAIN c
      BY <1>1, <2>2 DEF Exports
    <3> QED BY <1>1, <2>2, <2>4, <3>1
  <2> QED BY <2>3, <2>4
<1> QED BY <1>1, <1>2

\* A projection of any number of rows takes only what the binary exports: the checks of
\* configure_native leave a native path on only where its version is known.
LEMMA Routed ==
  ASSUME NEW o, NEW b, b.rows \in Nat, NativeOk(o, b),
         o.mid \in {"auto", "on", "off"}, o.prefill \in {"auto", "on", "off"},
         NEW w \in Layers, NEW fp32 \in BOOLEAN, NEW rows \in Nat
  PROVE  LET p == Path(Configured(o, b), w, rows, fp32) IN
         /\ p \in {"mid", "prefill", "smallm"} =>
              /\ w.aligned /\ w.bits <= 6
              /\ w.codebook = 0 \/ (w.codebook = 2 /\ b.codebooks = 5)
         /\ p = "mid" => b.mid = 1 /\ o.mid # "off"
         /\ p = "prefill" => b.prefill = 1 /\ o.prefill # "off"
         /\ p = "smallm" =>
              /\ rows <= b.rows
              /\ w.bits > 4 => b.highbit = 1 /\ o.kernel = "dot" /\ rows \in {2, 3, 5}
<1> DEFINE n == Configured(o, b)
           p == Path(n, w, rows, fp32)
<1>1. /\ n.mid = Enabled(o.mid, b.mid) /\ n.prefill = Enabled(o.prefill, b.prefill)
      /\ n.highbit = (b.highbit = 1) /\ n.codebooks = (IF b.codebooks = 5 THEN {0, 2} ELSE {0})
      /\ n.wmma = (o.kernel # "dot") /\ n.rows = b.rows
  BY DEF Configured
<1> HIDE DEF n
<1>2. w.bits \in {2, 4, 5, 6, 8} /\ w.codebook \in 0..2 /\ w.aligned \in BOOLEAN
  BY DEF Layers
<1>3. n.mid => b.mid = 1 /\ o.mid # "off"
  <2>1. o.mid # "off" => b.mid \in {1} \/ (b.mid = 0 /\ ~(o.mid = "on" \/ o.midwarps))
    BY DEF NativeOk, CapabilityOk
  <2> QED BY <1>1, <2>1 DEF Enabled
<1>4. n.prefill => b.prefill = 1 /\ o.prefill # "off"
  <2>1. o.prefill # "off" => b.prefill \in {1} \/ (b.prefill = 0 /\ o.prefill # "on")
    BY DEF NativeOk, CapabilityOk
  <2> QED BY <1>1, <2>1 DEF Enabled
<1>5. p = "mid" => n.mid /\ PackedFormat(n, w)
  BY DEF Path
<1>6. p = "prefill" => n.prefill /\ PackedFormat(n, w)
  BY DEF Path
<1>7. p = "smallm" => rows <= n.rows /\ SmallFormat(n, w, rows)
  BY <1>1 DEF Path
<1>8. PackedFormat(n, w) \/ SmallFormat(n, w, rows) =>
        w.aligned /\ w.bits <= 6 /\ (w.codebook = 0 \/ (w.codebook = 2 /\ b.codebooks = 5))
  BY <1>1, <1>2 DEF PackedFormat, SmallFormat
<1>9. SmallFormat(n, w, rows) /\ w.bits > 4 => b.highbit = 1 /\ o.kernel = "dot" /\ rows \in {2, 3, 5}
  BY <1>1, <1>2 DEF SmallFormat
<1> HIDE DEF p
<1> QED BY <1>1, <1>3, <1>4, <1>5, <1>6, <1>7, <1>8, <1>9 DEF n, p

\* The options are an option record and the binary has a row limit.
BinaryInv == Options(opt) /\ binary.rows \in Nat

\* It holds at the start.
LEMMA BinaryStart == Init => BinaryInv
<1> SUFFICES ASSUME Init PROVE BinaryInv
  OBVIOUS
<1>1. binary \in {Newest, Oldest} \cup Binaries
  BY DEF Init
<1> QED BY <1>1, StartingOptions, BinariesRows DEF BinaryInv

\* Every step preserves it.
LEMMA BinaryStep == BinaryInv /\ StartupInv /\ StartupInv' /\ [Next]_vars => BinaryInv'
BY DEF BinaryInv, StartupInv, Next, Set, Launch, Parse, Load, vars

\* The step that makes a model ready routes any number of rows of every layer so (Load).
LEMMA RoutedStep ==
  ASSUME BinaryInv, StartupInv, [Next]_vars, stage # "ready", stage' = "ready",
         NEW w \in Layers, NEW rows \in Nat, NEW fp32 \in BOOLEAN
  PROVE  Exported(w, rows, fp32)'
<1>1. /\ Load /\ EarlyOk(argv, model, binary) /\ native' = Configured(argv, binary)
      /\ opt' = opt /\ binary' = binary
  BY DEF Next, Set, Launch, Parse, Load, vars
<1>2. argv = Child(opt) /\ Options(opt)
  BY <1>1 DEF Load, StartupInv
<1>3. argv.mid = opt.mid /\ argv.prefill = opt.prefill /\ argv.kernel = opt.kernel
  BY <1>2, Arrives DEF Resolving, Unheard, Fields, Values
<1>4. opt.mid \in {"auto", "on", "off"} /\ opt.prefill \in {"auto", "on", "off"}
  BY <1>2 DEF Options, Values
<1>5. NativeOk(argv, binary) /\ binary.rows \in Nat
  BY <1>1 DEF EarlyOk, BinaryInv
<1> QED BY <1>1, <1>3, <1>4, <1>5, Routed DEF Exported

\* A packed kernel only runs on what the binary was built for and what the user left on
\* (configure_native, packed_small_m, packed_mid, packed_prefill).
THEOREM RoutesOfTheBinary == Spec => RoutesExported
<1>1. ASSUME BinaryInv, StartupInv, [Next]_vars, stage # "ready", stage' = "ready"
      PROVE  \A w \in Layers, fp32 \in BOOLEAN,
               rows \in {1, 3, 4, 5, 9, 10, 64, 65, 129, 513} : Exported(w, rows, fp32)'
  BY <1>1, RoutedStep
<1>2. Spec => []BinaryInv
  BY BinaryStart, BinaryStep, StartupInvariance, PTL DEF Spec
<1> QED BY <1>1, <1>2, StartupInvariance, PTL DEF Spec, RoutesExported

-----------------------------------------------------------------------------
(* The evaluator.                                                          *)

\* Every step of the evaluator is a step of the start or leaves it alone.
LEMMA EvaluationSteps == [EvaluationNext]_<<vars, evaluation>> => [Next]_vars
BY DEF EvaluationNext, SetNow, LaunchNow, ParseNow, LoadNow, Next, Begin, Prepare, Loaded,
   StartCase, Iterate, FinishCase, CheckCase, AllDone, Raise, WriteReport, Exit, KillRun

\* The evaluator's process starts like every child: what holds of every start holds of it.
THEOREM EvaluationIsStartup == EvaluationSpec => Spec
BY EvaluationSteps, PTL DEF EvaluationSpec, Spec, EvaluationInit

\* Modes that have a plan, the stations of a run, and the cases and results there are.
PlanModes == {"speed", "generate", "quality", "profile", "logprobs", "context", "context-speed"}
Phases == {"off", "preparing", "loading", "cases", "running", "checking", "reporting",
           "failing", "written", "over"}

Tasks == {"warmup", "first", "fifth", "answer", "profile", "probe1", "probe2",
          "occupied-context", "occupied-coding"}
Cases == [name : Tasks \X Nat, fixed : BOOLEAN, rendered : BOOLEAN]
Results == [name : Tasks \X Nat, tokens : Nat, same : BOOLEAN]

\* The plan of every mode is a sequence of cases, for any number of runs (run_case).
LEMMA PlansAre == \A m \in PlanModes : Plan(m) \in Seq(Cases)
<1>1. \A t \in Tasks, i \in Nat :
        {Fixed(t, i), Free(t), Tokens(t), FreeTokens(t)} \subseteq Cases
  BY DEF Fixed, Free, Tokens, FreeTokens, Cases
<1>2. Warmup \in Seq(Cases)
  BY <1>1 DEF Warmup, Tasks
<1>3. \A t \in Tasks : Speed(t) \in Seq(Cases)
  <2> SUFFICES ASSUME NEW t \in Tasks PROVE Speed(t) \in Seq(Cases)
    OBVIOUS
  <2>1. Repeats + 1 \in Nat
    BY EvaluationAssumption
  <2>2. \A i \in 1..(Repeats + 1) : Fixed(t, i) \in Cases
    BY <1>1, <2>1
  <2> HIDE DEF Cases
  <2> QED BY <2>1, <2>2, IsASeq DEF Speed
<1>4. \A s, u \in Seq(Cases) : s \o u \in Seq(Cases)
  OBVIOUS
<1>5. Plan("speed") \in Seq(Cases)
  <2>1. Plan("speed") = Warmup \o Speed("first") \o Speed("fifth")
    BY DEF Plan
  <2> QED BY <1>2, <1>3, <1>4, <2>1 DEF Tasks
<1>6. Plan("generate") \in Seq(Cases)
  <2>1. Plan("generate") = Warmup \o <<Free("answer")>>
    BY DEF Plan
  <2>2. <<Free("answer")>> \in Seq(Cases)
    BY <1>1 DEF Tasks
  <2> QED BY <1>2, <1>4, <2>1, <2>2
<1>7. Plan("quality") \in Seq(Cases)
  <2>1. Plan("quality") = Warmup \o <<Free("first"), Free("fifth")>>
    BY DEF Plan
  <2>2. <<Free("first"), Free("fifth")>> \in Seq(Cases)
    BY <1>1 DEF Tasks
  <2> QED BY <1>2, <1>4, <2>1, <2>2
<1>8. Plan("profile") \in Seq(Cases)
  <2>1. Plan("profile") = Warmup \o <<Fixed("profile", 1), Fixed("profile", 2)>>
    BY DEF Plan
  <2>2. <<Fixed("profile", 1), Fixed("profile", 2)>> \in Seq(Cases)
    BY <1>1 DEF Tasks
  <2> QED BY <1>2, <1>4, <2>1, <2>2
<1>9. /\ Plan("logprobs") \in Seq(Cases) /\ Plan("context") \in Seq(Cases)
      /\ Plan("context-speed") \in Seq(Cases)
  BY <1>1 DEF Plan, Tasks
<1> QED BY <1>5, <1>6, <1>7, <1>8, <1>9 DEF PlanModes

\* A result of a case of the plan that passed its checks.
Passes(i) == Accepted(results[i], Plan(asked.mode)[i])

\* What a case has on record.
Events == [at : Nat, total : Nat, upto : Nat]

\* The first and the last event of a log that emitted something.
Bounds(log, f, l) ==
  /\ f \in 1..Len(log) /\ l \in 1..Len(log) /\ log[f].total > 0 /\ log[l].total > 0
  /\ \A i \in 1..Len(log) : log[i].total > 0 => f <= i /\ i <= l

\* The case's counts, and what its three fields of time remember of its log.
CaseOk(c) ==
  /\ DOMAIN c = DOMAIN NoCase /\ c.sampled \in Nat /\ c.held \in Nat /\ c.clock \in Nat
  /\ c.held <= c.sampled /\ c.log \in Seq(Events)
  /\ c.log = <<>> => c.sampled = c.held
  /\ c.log # <<>> => c.log[Len(c.log)].upto = c.sampled - c.held
  /\ c.first_time = None =>
       /\ c.first_count = None /\ c.sampled = c.held
       /\ \A i \in 1..Len(c.log) : c.log[i].total = 0
  /\ c.first_time # None =>
       \E f, l \in 1..Len(c.log) :
         /\ Bounds(c.log, f, l)
         /\ c.first_time = c.log[f].at /\ c.last_time = c.log[l].at
         /\ c.first_count = c.log[f].upto /\ c.first_count # None
  /\ c.ended => c.held = 0 /\ c.first_time # None

\* What the run's parts may be.
RunInv ==
  /\ phase \in Phases
  /\ CaseOk(case)
  /\ results \in Seq(Results)
  /\ phase = "checking" => case.ended /\ results # <<>> /\ Last(results).tokens = case.sampled
  /\ phase = "off" => results = <<>>
  /\ phase # "off" => asked.mode \in PlanModes /\ asked.reference \in BOOLEAN
  /\ phase \in {"preparing", "loading"} => results = <<>>

\* The results are those of the first cases of the plan, in order, each with its file; all
\* but the one being checked passed, unless the run has failed.
AsPlanned ==
  /\ Len(results) <= Len(Plan(asked.mode))
  /\ \A i \in 1..Len(results) :
       /\ results[i].name = Plan(asked.mode)[i].name /\ Plan(asked.mode)[i].name \in files
       /\ \/ Passes(i) \/ phase \in {"failing", "written", "over"}
          \/ phase = "checking" /\ i = Len(results)
  /\ phase = "running" => Len(results) < Len(Plan(asked.mode))
  /\ phase = "checking" => Len(results) > 0
  /\ phase = "reporting" => Len(results) = Len(Plan(asked.mode))

\* There is no report before the end, and then an honest one; the exit comes after it.
ReportInv ==
  /\ phase \notin {"written", "over"} => report = Absent
  /\ phase # "over" => exit = "none"
  /\ ReportHonest

\* The inductive invariant.
EvaluationInv == StartupInv /\ RunInv /\ (phase # "off" => AsPlanned) /\ ReportInv

\* A case that has not begun.
LEMMA NewCase == CaseOk(NoCase)
<1>1. /\ NoCase.sampled = 0 /\ NoCase.held = 0 /\ NoCase.clock = 0 /\ NoCase.log = <<>>
      /\ NoCase.ended = FALSE /\ NoCase.first_time = None /\ NoCase.first_count = None
  BY DEF NoCase
<1>2. <<>> \in Seq(Events) /\ Len(<<>>) = 0
  BY EmptySeq
<1> HIDE DEF NoCase
<1> QED BY <1>1, <1>2 DEF CaseOk

\* It holds before the evaluator begins.
LEMMA EvaluationStart == EvaluationInit => EvaluationInv
<1> SUFFICES ASSUME EvaluationInit PROVE EvaluationInv
  OBVIOUS
<1>1. StartupInv
  BY StartupStart DEF EvaluationInit
<1>2. RunInv
  BY NewCase DEF EvaluationInit, RunInv, Phases
<1>3. ReportInv
  BY DEF EvaluationInit, ReportInv, ReportHonest, Absent
<1> QED BY <1>1, <1>2, <1>3 DEF EvaluationInit, EvaluationInv

\* What a run is asked for has a plan: the launcher's modes but "serve", or one by hand.
LEMMA AskedMode ==
  ASSUME StartupInv, stage = "parsed", Entry(argv) = "evaluate", NEW a \in Asked(argv)
  PROVE  a.mode \in PlanModes /\ a.reference \in BOOLEAN
<1>1. argv = Child(opt) /\ Options(opt)
  BY DEF StartupInv
<1>2. /\ argv.mode = opt.mode /\ argv.expected = opt.expected
      /\ opt.mode \in Modes /\ opt.expected \in BOOLEAN
  <2>1. argv.mode = opt.mode /\ argv.expected = opt.expected
    BY <1>1, Seen
  <2> QED BY <1>1, <2>1 DEF Options, Values
<1>3. argv.mode # "serve"
  BY DEF Entry
<1> QED BY <1>2, <1>3 DEF Asked, ByHand, PlanModes, Modes

\* observe() changes three fields, and only if something was emitted (exl3_timing.py).
LEMMA ObservedFields ==
  ASSUME NEW c, NEW now, NEW total, DOMAIN c = DOMAIN NoCase
  PROVE  LET o == observe(c, now, total) IN
         /\ DOMAIN o = DOMAIN c /\ o.sampled = c.sampled /\ o.held = c.held
         /\ o.clock = c.clock /\ o.log = c.log /\ o.ended = c.ended
         /\ o.first_time = IF total = 0 \/ c.first_time # None THEN c.first_time ELSE now
         /\ o.first_count = IF total = 0 \/ c.first_time # None THEN c.first_count ELSE total
         /\ o.last_time = IF total = 0 THEN c.last_time ELSE now
BY DEF observe, NoCase

\* One more event in the log.
LEMMA Logged ==
  ASSUME NEW log \in Seq(Events), NEW e \in Events, NEW new, new = Append(log, e)
  PROVE  /\ new \in Seq(Events) /\ new # <<>> /\ Len(new) = Len(log) + 1 /\ Len(log) \in Nat
         /\ new[Len(new)] = e /\ \A i \in 1..Len(log) : new[i] = log[i]
OBVIOUS

\* An iteration keeps what the fields of time remember: nothing yet, so that all that was
\* sampled is held back; or the first and the last event that emitted something.
LEMMA CaseGoesOn ==
  ASSUME NEW c, CaseOk(c), NEW n \in Nat, NEW total \in 0..(c.held + n), NEW now \in Nat,
         NEW ends \in BOOLEAN, ends => total = c.held + n /\ n > 0,
         NEW d, DOMAIN d = DOMAIN c, d.sampled = c.sampled + n, d.held = c.held + n - total,
         d.ended = ends, d.clock = now,
         d.log = Append(c.log, [at |-> now, total |-> total,
                                upto |-> (c.sampled + n) - (c.held + n - total)]),
         d.first_time = (IF total = 0 \/ c.first_time # None THEN c.first_time ELSE now),
         d.first_count = (IF total = 0 \/ c.first_time # None THEN c.first_count ELSE total),
         d.last_time = (IF total = 0 THEN c.last_time ELSE now)
  PROVE  CaseOk(d)
<1> DEFINE e == [at |-> now, total |-> total, upto |-> (c.sampled + n) - (c.held + n - total)]
           k == Len(c.log)
<1>1. /\ c.sampled \in Nat /\ c.held \in Nat /\ c.held <= c.sampled /\ c.log \in Seq(Events)
      /\ total \in Nat /\ total <= c.held + n
  BY DEF CaseOk
<1>0. d.held \in Nat /\ d.held <= d.sampled /\ d.sampled \in Nat /\ (ends => d.held = 0)
  BY <1>1
<1>2. /\ e \in Events /\ e.at = now /\ e.total = total
      /\ e.upto = c.sampled - c.held + total
  BY <1>1 DEF Events
<1>3. d.log = Append(c.log, e)
  OBVIOUS
<1> HIDE DEF e, k
<1>4. /\ d.log \in Seq(Events) /\ d.log # <<>> /\ Len(d.log) = k + 1 /\ k \in Nat
      /\ d.log[k + 1] = e /\ \A i \in 1..k : d.log[i] = c.log[i]
  <2> DEFINE old == c.log
             new == d.log
  <2>1. old \in Seq(Events) /\ e \in Events /\ new = Append(old, e)
    BY <1>1, <1>2, <1>3
  <2> HIDE DEF old, new
  <2>2. /\ new \in Seq(Events) /\ new # <<>> /\ Len(new) = Len(old) + 1 /\ Len(old) \in Nat
        /\ new[Len(new)] = e /\ \A i \in 1..Len(old) : new[i] = old[i]
    BY ONLY <2>1, Logged
  <2> QED BY <2>2 DEF old, new, k
<1>5. d.log[Len(d.log)].upto = d.sampled - d.held
  BY <1>1, <1>2, <1>4
<1>6. CASE total = 0
  <2>1. d.first_time = c.first_time /\ d.first_count = c.first_count /\ d.last_time = c.last_time
    BY <1>6
  <2>2. ASSUME c.first_time = None
        PROVE  /\ d.first_count = None /\ d.sampled = d.held
               /\ \A i \in 1..Len(d.log) : d.log[i].total = 0
    BY <1>1, <1>2, <1>4, <1>6, <2>1, <2>2 DEF CaseOk, k
  <2>3. ASSUME c.first_time # None
        PROVE  \E f, l \in 1..Len(d.log) :
                 /\ Bounds(d.log, f, l)
                 /\ d.first_time = d.log[f].at /\ d.last_time = d.log[l].at
                 /\ d.first_count = d.log[f].upto /\ d.first_count # None
    <3>1. PICK f \in 1..k, l \in 1..k :
            /\ Bounds(c.log, f, l)
            /\ c.first_time = c.log[f].at /\ c.last_time = c.log[l].at
            /\ c.first_count = c.log[f].upto /\ c.first_count # None
      BY <2>3 DEF CaseOk, k
    <3>2. Bounds(d.log, f, l)
      BY <1>2, <1>4, <1>6, <3>1 DEF Bounds, k
    <3>3. f \in 1..Len(d.log) /\ l \in 1..Len(d.log) /\ d.log[f] = c.log[f] /\ d.log[l] = c.log[l]
      BY <1>4
    <3> QED BY <2>1, <3>1, <3>2, <3>3
  <2>4. ends => total > 0
    BY <1>1
  <2>5. ~ends
    BY <1>6, <2>4
  <2> QED BY <1>0, <1>1, <1>4, <1>5, <2>1, <2>2, <2>3, <2>5 DEF CaseOk
<1>7. CASE total # 0 /\ c.first_time = None
  <2>1. d.first_time = now /\ d.first_count = total /\ d.last_time = now
    BY <1>7
  <2>2. now # None /\ total # None
    BY <1>1 DEF None
  <2>3. e.upto = total /\ \A i \in 1..k : d.log[i].total = 0
    BY <1>1, <1>2, <1>4, <1>7 DEF CaseOk, k
  <2>4. Bounds(d.log, k + 1, k + 1)
    <3>1. \A i \in 1..Len(d.log) : i \in 1..k \/ i = k + 1
      BY <1>4
    <3>2. \A i \in 1..Len(d.log) : d.log[i].total > 0 => i = k + 1
      BY <2>3, <3>1
    <3>3. d.log[k + 1].total > 0 /\ k + 1 \in 1..Len(d.log)
      BY <1>1, <1>2, <1>4, <1>7
    <3> QED BY <1>4, <3>2, <3>3 DEF Bounds
  <2>5. k + 1 \in 1..Len(d.log)
    BY <1>4
  <2> QED BY <1>0, <1>1, <1>2, <1>4, <1>5, <2>1, <2>2, <2>3, <2>4, <2>5 DEF CaseOk
<1>8. CASE total # 0 /\ c.first_time # None
  <2>1. d.first_time = c.first_time /\ d.first_count = c.first_count /\ d.last_time = now
    BY <1>8
  <2>2. PICK f \in 1..k, l \in 1..k :
          /\ Bounds(c.log, f, l)
          /\ c.first_time = c.log[f].at
          /\ c.first_count = c.log[f].upto /\ c.first_count # None
    BY <1>8 DEF CaseOk, k
  <2>3. Bounds(d.log, f, k + 1)
    BY <1>1, <1>2, <1>4, <1>8, <2>2 DEF Bounds, k
  <2>4. d.log[f] = c.log[f] /\ d.log[k + 1].at = now /\ k + 1 \in 1..Len(d.log) /\ f \in 1..Len(d.log)
    BY <1>2, <1>4, <2>2
  <2> QED BY <1>0, <1>1, <1>4, <1>5, <1>8, <2>1, <2>2, <2>3, <2>4 DEF CaseOk
<1> QED BY <1>6, <1>7, <1>8

\* Of a case that ended, the decode numbers are those of the events behind the first one
\* that emitted something (decode_tokens, decode_seconds).
LEMMA EndedExact ==
  ASSUME NEW c, CaseOk(c), c.ended
  PROVE  \E f, l \in {i \in DOMAIN c.log : c.log[i].total > 0} :
           /\ \A i \in {i \in DOMAIN c.log : c.log[i].total > 0} : f <= i /\ i <= l
           /\ decode_tokens(c, c.sampled) = c.log[Len(c.log)].upto - c.log[f].upto
           /\ decode_seconds(c) =
                IF c.log[l].at > c.log[f].at THEN c.log[l].at - c.log[f].at ELSE None
<1>1. c.log \in Seq(Events) /\ c.held = 0 /\ c.first_time # None /\ c.sampled \in Nat
  BY DEF CaseOk
<1>2. PICK f \in 1..Len(c.log), l \in 1..Len(c.log) :
        /\ Bounds(c.log, f, l)
        /\ c.first_time = c.log[f].at /\ c.last_time = c.log[l].at
        /\ c.first_count = c.log[f].upto /\ c.first_count # None
  BY <1>1 DEF CaseOk
<1>3. DOMAIN c.log = 1..Len(c.log) /\ c.log # <<>>
  BY <1>1, <1>2
<1>4. c.log[Len(c.log)].upto = c.sampled
  BY <1>1, <1>3 DEF CaseOk
<1>5. decode_tokens(c, c.sampled) = c.log[Len(c.log)].upto - c.log[f].upto
  BY <1>2, <1>4 DEF decode_tokens
<1>6. decode_seconds(c) = IF c.log[l].at > c.log[f].at THEN c.log[l].at - c.log[f].at ELSE None
  BY <1>1, <1>2 DEF decode_seconds
<1> QED BY <1>2, <1>3, <1>5, <1>6 DEF Bounds

\* Startup's own steps leave the evaluator alone.
LEMMA ApartStep ==
  ASSUME EvaluationInv, StartupInv', UNCHANGED evaluation
  PROVE  EvaluationInv'
<1>1. /\ asked' = asked /\ phase' = phase /\ case' = case /\ results' = results
      /\ files' = files /\ report' = report /\ exit' = exit
  BY DEF evaluation
<1>2. RunInv'
  BY <1>1 DEF EvaluationInv, RunInv
<1>3. phase # "off" => AsPlanned'
  BY <1>1 DEF EvaluationInv, AsPlanned, Passes, Accepted
<1>4. phase = "checking" => RatesExact'
  <2>1. phase = "checking" =>
          CaseOk(case') /\ case'.ended /\ Last(results').tokens = case'.sampled
    BY <1>1, <1>2 DEF RunInv
  <2> QED BY <2>1, EndedExact DEF RatesExact
<1>5. ReportInv'
  BY <1>1, <1>4 DEF EvaluationInv, ReportInv, ReportHonest
<1> QED BY <1>1, <1>2, <1>3, <1>5 DEF EvaluationInv

\* What is asked is fixed when the evaluator begins.
LEMMA BeginStep == ASSUME EvaluationInv, StartupInv', Begin PROVE EvaluationInv'
<1>1. PICK a \in Asked(argv) :
        /\ asked' = a
        /\ \/ phase' = "over" /\ exit' = "error"
           \/ phase' = "preparing" /\ exit' = exit
  BY DEF Begin, Stop, To
<1>2. a.mode \in PlanModes /\ a.reference \in BOOLEAN
  BY AskedMode DEF Begin, EvaluationInv
<1>3. /\ results = <<>> /\ results' = results /\ case' = case
      /\ report' = report /\ report = Absent /\ exit = "none"
  BY DEF Begin, EvaluationInv, RunInv, ReportInv
<1>4. RunInv'
  BY <1>1, <1>2, <1>3 DEF EvaluationInv, RunInv, Phases
<1>5. AsPlanned'
  <2>1. \A m \in PlanModes : Len(Plan(m)) \in Nat
    BY PlansAre
  <2>2. /\ results' = <<>> /\ asked'.mode \in PlanModes
        /\ phase' \notin {"running", "checking", "reporting"}
    BY <1>1, <1>2, <1>3
  <2>3. Len(results') = 0 /\ Len(Plan(asked'.mode)) \in Nat
    BY <2>1, <2>2
  <2> QED BY <2>2, <2>3 DEF AsPlanned
<1>6. ReportInv'
  BY <1>1, <1>3 DEF ReportInv, ReportHonest, Absent
<1> QED BY <1>4, <1>5, <1>6 DEF EvaluationInv

\* Steps that keep what is asked, the results and their files.
Onward ==
  /\ phase # "off" /\ phase' # "off"
  /\ asked' = asked /\ results' = results /\ files' = files
  /\ (case' = case \/ case' = NoCase)

\* Such a step keeps the parts what they may be.
LEMMA OnwardRun ==
  ASSUME EvaluationInv, Onward, phase' \in Phases,
         phase' # "checking",
         phase' \in {"preparing", "loading"} => phase \in {"preparing", "loading"}
  PROVE  RunInv'
BY NewCase DEF Onward, EvaluationInv, RunInv

\* And keeps the results as planned, if it goes on only after a check that passed.
LEMMA OnwardPlanned ==
  ASSUME EvaluationInv, Onward,
         \/ phase' \in {"failing", "written", "over"}
         \/ phase = "checking" /\ phase' = "cases" /\ Passes(Len(results))
         \/ /\ phase \in {"preparing", "loading", "cases"}
            /\ phase' \notin {"running", "checking", "reporting"}
         \/ phase = "cases" /\ phase' = "running" /\ Len(results) < Len(Plan(asked.mode))
         \/ phase = "cases" /\ phase' = "reporting" /\ Len(results) = Len(Plan(asked.mode))
         \/ phase = "running" /\ phase' = "running"
  PROVE  AsPlanned'
<1>1. AsPlanned
  BY DEF EvaluationInv, Onward
<1>2. \A i : Passes(i)' = Passes(i)
  BY DEF Passes, Accepted, Onward
<1>3. \A i \in 1..Len(results) : \/ Passes(i)
                                 \/ phase \in {"failing", "written", "over"}
                                 \/ phase = "checking" /\ i = Len(results)
  BY <1>1 DEF AsPlanned
<1>4. \A i \in 1..Len(results) : \/ Passes(i)' \/ phase' \in {"failing", "written", "over"}
                                 \/ phase' = "checking" /\ i = Len(results)
  BY <1>2, <1>3 DEF Onward
<1> QED BY <1>1, <1>4 DEF AsPlanned, Onward

\* No step but the last writes a report, and an exit code without one is no success.
LEMMA QuietReport ==
  ASSUME EvaluationInv, phase \notin {"written", "over"}, report' = report,
         phase' # "checking" \/ RatesExact',
         \/ phase' \notin {"written", "over"} /\ exit' = exit
         \/ phase' = "over" /\ exit' \in {"error", "killed"}
  PROVE  ReportInv'
BY DEF EvaluationInv, ReportInv, ReportHonest, Absent

\* The steps between the cases (Prepare to CheckCase, and an exception in any of them).
LEMMA QuietSteps ==
  ASSUME EvaluationInv, StartupInv',
         Prepare \/ Loaded \/ StartCase \/ AllDone \/ Raise \/ CheckCase
  PROVE  EvaluationInv'
<1>1. /\ Onward /\ phase \notin {"written", "over"} /\ report' = report
      /\ \/ phase' \notin {"written", "over"} /\ exit' = exit
         \/ phase' = "over" /\ exit' \in {"error", "killed"}
  BY DEF Prepare, Loaded, StartCase, AllDone, Raise, CheckCase, Onward, Stop, To
<1>2. RunInv'
  <2>1. /\ phase' \in Phases /\ phase' # "checking"
        /\ phase' \in {"preparing", "loading"} => phase \in {"preparing", "loading"}
    BY DEF Prepare, Loaded, StartCase, AllDone, Raise, CheckCase, Stop, To, Phases
  <2> QED BY <1>1, <2>1, OnwardRun
<1>3. AsPlanned'
  <2>1. CASE Prepare \/ Loaded \/ Raise
    BY <1>1, <2>1, OnwardPlanned DEF Prepare, Loaded, Raise, Stop, To
  <2>2. CASE StartCase
    BY <1>1, <2>2, OnwardPlanned DEF StartCase, To
  <2>3. CASE AllDone
    BY <1>1, <2>3, OnwardPlanned DEF AllDone, To
  <2>4. CASE CheckCase
    <3>1. Last(results) = results[Len(results)]
      BY DEF Last
    <3>2. phase = "checking" /\ ((phase' = "cases" /\ Passes(Len(results))) \/ phase' = "failing")
      BY <2>4, <3>1 DEF CheckCase, To, Passes
    <3> QED BY <1>1, <3>2, OnwardPlanned
  <2> QED BY <2>1, <2>2, <2>3, <2>4
<1>4. ReportInv'
  <2>1. phase' # "checking"
    BY DEF Prepare, Loaded, StartCase, AllDone, Raise, CheckCase, Stop, To
  <2> QED BY <1>1, <2>1, QuietReport
<1> QED BY <1>2, <1>3, <1>4 DEF EvaluationInv

\* An iteration changes the running case only.
LEMMA IterateStep == ASSUME EvaluationInv, StartupInv', Iterate PROVE EvaluationInv'
<1>1. PICK n \in 0..(Drafts + 1), stopped \in BOOLEAN, dt \in {0, 1} :
        LET sampled == case.sampled + n
            ends == stopped \/ sampled = Limit
            now == case.clock + dt
        IN
        /\ n = 0 => case.sampled = 0 /\ ~stopped /\ dt = 1
        /\ \E total \in (IF ends THEN {case.held + n} ELSE 0..(case.held + n)) :
             case' = observe(
               [case EXCEPT !.sampled = sampled, !.held = @ + n - total, !.ended = ends,
                            !.clock = now,
                            !.log = Append(@, [at |-> now, total |-> total,
                                               upto |-> sampled - (case.held + n - total)])],
               now, total)
  BY DEF Iterate
<1> DEFINE now == case.clock + dt
           ends == stopped \/ case.sampled + n = Limit
<1>2. PICK total \in (IF ends THEN {case.held + n} ELSE 0..(case.held + n)) :
        case' = observe(
          [case EXCEPT !.sampled = case.sampled + n, !.held = @ + n - total, !.ended = ends,
                       !.clock = now,
                       !.log = Append(@, [at |-> now, total |-> total,
                                          upto |-> (case.sampled + n) - (case.held + n - total)])],
          now, total)
  BY <1>1
<1>3. /\ phase = "running" /\ phase' = "running" /\ asked' = asked /\ results' = results
      /\ files' = files /\ report' = report /\ exit' = exit
  BY DEF Iterate
<1>4. CaseOk(case) /\ n \in Nat /\ case.held \in Nat /\ case.clock \in Nat /\ case.sampled \in Nat
  BY EvaluationAssumption DEF EvaluationInv, RunInv, CaseOk
<1>5. total \in 0..(case.held + n) /\ now \in Nat /\ ends \in BOOLEAN
      /\ (ends => total = case.held + n /\ n > 0)
  BY <1>1, <1>4, EvaluationAssumption
<1> HIDE DEF now, ends
<1>6. CaseOk(case')
  <2> DEFINE c == [case EXCEPT !.sampled = case.sampled + n, !.held = @ + n - total, !.ended = ends,
                               !.clock = now,
                               !.log = Append(@, [at |-> now, total |-> total,
                                          upto |-> (case.sampled + n) - (case.held + n - total)])]
  <2>1. /\ DOMAIN c = DOMAIN NoCase /\ c.sampled = case.sampled + n /\ c.held = case.held + n - total
        /\ c.ended = ends /\ c.clock = now
        /\ c.log = Append(case.log, [at |-> now, total |-> total,
                                     upto |-> (case.sampled + n) - (case.held + n - total)])
        /\ c.first_time = case.first_time /\ c.first_count = case.first_count
        /\ c.last_time = case.last_time
    <3>1. DOMAIN case = DOMAIN NoCase
      BY <1>4 DEF CaseOk
    <3> QED BY <3>1 DEF NoCase
  <2> HIDE DEF c
  <2>2. case' = observe(c, now, total)
    BY <1>2 DEF c
  <2>3. /\ DOMAIN case' = DOMAIN NoCase /\ case'.sampled = c.sampled /\ case'.held = c.held
        /\ case'.clock = c.clock /\ case'.log = c.log /\ case'.ended = c.ended
        /\ case'.first_time = (IF total = 0 \/ c.first_time # None THEN c.first_time ELSE now)
        /\ case'.first_count = (IF total = 0 \/ c.first_time # None THEN c.first_count ELSE total)
        /\ case'.last_time = (IF total = 0 THEN c.last_time ELSE now)
    BY <2>1, <2>2, ObservedFields
  <2>4. DOMAIN case' = DOMAIN case
    BY <1>4, <2>3 DEF CaseOk
  <2> QED BY <1>4, <1>5, <2>1, <2>3, <2>4, CaseGoesOn
<1>7. RunInv'
  BY <1>3, <1>6 DEF EvaluationInv, RunInv
<1>8. AsPlanned'
  <2>1. \A i : Passes(i)' = Passes(i)
    BY <1>3 DEF Passes, Accepted
  <2> QED BY <1>3, <2>1 DEF EvaluationInv, AsPlanned
<1>9. ReportInv'
  BY <1>3, QuietReport
<1> QED BY <1>7, <1>8, <1>9 DEF EvaluationInv

\* The result of a case is kept and written before it is checked (run_case).
LEMMA FinishStep == ASSUME EvaluationInv, StartupInv', FinishCase PROVE EvaluationInv'
<1> DEFINE plan == Plan(asked.mode)
           l == Len(results)
<1>1. /\ phase = "running" /\ phase' = "checking" /\ asked' = asked /\ case' = case
      /\ report' = report /\ exit' = exit /\ files' = files \cup {plan[l + 1].name}
  BY DEF FinishCase, To, Todo
<1>2. PICK same \in {TRUE, ~asked.reference} :
        results' = Append(results, [name |-> plan[l + 1].name, tokens |-> case.sampled, same |-> same])
  BY DEF FinishCase, Result, Todo
<1>3. plan \in Seq(Cases) /\ results \in Seq(Results) /\ l \in Nat /\ l < Len(plan) /\ AsPlanned
  BY <1>1, PlansAre DEF EvaluationInv, RunInv, AsPlanned
<1>4. plan[l + 1] \in Cases
  BY <1>3
<1> DEFINE r == [name |-> plan[l + 1].name, tokens |-> case.sampled, same |-> same]
<1>5. r \in Results
  BY <1>1, <1>4 DEF Cases, Results, EvaluationInv, RunInv, CaseOk
<1> HIDE DEF r, plan, l
<1>6. /\ results' \in Seq(Results) /\ Len(results') = l + 1 /\ results'[l + 1] = r
      /\ \A i \in 1..l : results'[i] = results[i]
  BY <1>2, <1>3, <1>5 DEF l, r
<1>7. RunInv'
  <2>1. Last(results') = r /\ r.tokens = case.sampled /\ results' # <<>>
    BY <1>3, <1>6 DEF Last, r
  <2>2. case.ended
    BY DEF FinishCase
  <2> QED BY <1>1, <1>6, <2>1, <2>2 DEF EvaluationInv, RunInv, Phases
<1>8. AsPlanned'
  <2>1. plan' = plan
    BY <1>1 DEF plan
  <2>2. Len(results') <= Len(plan) /\ Len(results') > 0
    BY <1>3, <1>6
  <2>3. ASSUME NEW i \in 1..l
        PROVE results'[i].name = plan[i].name /\ plan[i].name \in files' /\ Passes(i)'
    <3>1. results[i].name = plan[i].name /\ plan[i].name \in files /\ Passes(i)
      BY <1>1, <1>3 DEF AsPlanned, plan, l
    <3>2. Passes(i)'
      BY <1>1, <1>6, <3>1, <2>1 DEF Passes, Accepted, plan
    <3> QED BY <1>1, <1>6, <3>1, <3>2 DEF plan, l
  <2>4. results'[l + 1].name = plan[l + 1].name /\ plan[l + 1].name \in files'
    BY <1>1, <1>6 DEF r, plan, l
  <2> QED BY <1>1, <1>3, <1>6, <2>1, <2>2, <2>3, <2>4 DEF AsPlanned, plan
<1>9. ReportInv'
  <2>1. CaseOk(case') /\ case'.ended /\ Last(results').tokens = case'.sampled
    BY <1>1, <1>7 DEF RunInv
  <2>2. RatesExact'
    BY <2>1, EndedExact DEF RatesExact
  <2> QED BY <1>1, <2>2, QuietReport
<1> QED BY <1>7, <1>8, <1>9 DEF EvaluationInv

\* The finally block writes "completed" only of a plan that was run and checked to its
\* end; a report cut short is neither completed nor a success.
LEMMA ReportStep == ASSUME EvaluationInv, StartupInv', WriteReport PROVE EvaluationInv'
<1>1. /\ Onward /\ phase \in {"reporting", "failing"} /\ phase' \in {"written", "over"}
      /\ exit = "none" /\ phase' \in Phases
  BY DEF WriteReport, Onward, Stop, To, Phases, EvaluationInv, ReportInv
<1>2. RunInv' /\ AsPlanned'
  BY <1>1, OnwardRun, OnwardPlanned
<1>3. CASE /\ report'.status # "completed" /\ exit' # "success"
           /\ phase' = "written" => exit' = "none"
  BY <1>1, <1>2, <1>3 DEF ReportInv, ReportHonest, EvaluationInv
<1>4. CASE /\ phase = "reporting" /\ phase' = "written" /\ exit' = "none"
           /\ report' = [status |-> "completed", results |-> results]
  <2>1. AsPlanned /\ asked' = asked /\ files' = files
    BY <1>1 DEF EvaluationInv, Onward
  <2>2. Plan(asked.mode) \in Seq(Cases)
    BY <1>1, PlansAre DEF EvaluationInv, RunInv
  <2>3. Len(results) = Len(Plan(asked.mode)) /\ DOMAIN Plan(asked.mode) = 1..Len(results)
    BY <1>4, <2>1, <2>2 DEF AsPlanned
  <2>4. \A i \in 1..Len(results) :
          /\ Passes(i) /\ results[i].name = Plan(asked.mode)[i].name
          /\ Plan(asked.mode)[i].name \in files
    BY <1>4, <2>1 DEF AsPlanned
  <2>5. ReportHonest'
    BY <1>1, <1>4, <2>1, <2>3, <2>4 DEF ReportHonest, Passes, Accepted
  <2> QED BY <1>1, <1>2, <1>4, <2>5 DEF ReportInv, EvaluationInv
<1>5. \/ /\ report'.status # "completed" /\ exit' # "success"
         /\ phase' = "written" => exit' = "none"
      \/ /\ phase = "reporting" /\ phase' = "written" /\ exit' = "none"
         /\ report' = [status |-> "completed", results |-> results]
  BY <1>1 DEF WriteReport, Stop, To, Absent, Torn
<1> QED BY <1>3, <1>4, <1>5

\* A process that is killed leaves the report it has written, or none that is completed,
\* and is no success; one that ends by itself is a success with a completed report only.
LEMMA EndStep == ASSUME EvaluationInv, StartupInv', Exit \/ KillRun PROVE EvaluationInv'
<1>1. Onward /\ phase \notin {"off", "over"} /\ phase' = "over" /\ phase' \in Phases
  BY DEF Exit, KillRun, Onward, Stop, Phases
<1>2. RunInv' /\ AsPlanned'
  BY <1>1, OnwardRun, OnwardPlanned
<1>3. \/ report' = report /\ (exit' = "success" => report.status = "completed")
      \/ report'.status # "completed" /\ exit' # "success"
  BY DEF Exit, KillRun, Stop, Absent, Torn
<1>4. ReportHonest'
  BY <1>1, <1>3 DEF EvaluationInv, ReportInv, ReportHonest, Onward
<1> QED BY <1>1, <1>2, <1>4 DEF EvaluationInv, ReportInv

\* Every step of the evaluator preserves the invariant.
LEMMA EvaluationStep ==
  EvaluationInv /\ StartupInv' /\ [EvaluationNext]_<<vars, evaluation>> => EvaluationInv'
<1> SUFFICES ASSUME EvaluationInv, StartupInv', [EvaluationNext]_<<vars, evaluation>>
             PROVE  EvaluationInv'
  OBVIOUS
<1>1. CASE SetNow \/ LaunchNow \/ ParseNow \/ LoadNow \/ UNCHANGED <<vars, evaluation>>
  BY <1>1, ApartStep DEF SetNow, LaunchNow, ParseNow, LoadNow
<1> QED
  BY <1>1, BeginStep, QuietSteps, IterateStep, FinishStep, ReportStep, EndStep
  DEF EvaluationNext

\* A report that says completed holds every case of its mode in order, each with its file,
\* its length and its reference, and only such a run exits with success (main, run_case).
THEOREM ReportsHonest == EvaluationSpec => []ReportHonest
<1>1. EvaluationInv => ReportHonest
  BY DEF EvaluationInv, ReportInv
<1> QED BY <1>1, EvaluationStart, EvaluationStep, EvaluationIsStartup, StartupInvariance, PTL
        DEF EvaluationSpec
=============================================================================
