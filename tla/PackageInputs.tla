---------------------------- MODULE PackageInputs ----------------------------
(***************************************************************************)
(* What package_mimo_exl3.py and package_mimo_mtp.py demand of what they   *)
(* are given: where the paths of a call may lie, what the configurations,  *)
(* the audit of the source, the mapping, the allocation, the vision pilot, *)
(* the manifest and the donor must say.  Each is a predicate over small    *)
(* values; the Outcomes at the end are what a call can meet at each step.  *)
(***************************************************************************)
EXTENDS Integers, Sequences, SequencesExt, FiniteSets

CONSTANT Directories    \* paths, each the sequence of names that leads to it

within_or_equal(path, other) == IsPrefix(other, path)
Nested(p, q) == within_or_equal(p, q) \/ within_or_equal(q, p)

(***************************************************************************)
(* check_paths of both.  "audit" stands for the audit, the mapping and the *)
(* allocation, which may lie anywhere but in the output.                   *)
(***************************************************************************)
Inputs == {"source", "text", "vision"}
Exl3Places == [Inputs \cup {"audit", "output", "report"} -> Directories]

Apart(at, inputs) ==
    /\ \A i, j \in inputs : i # j => ~Nested(at[i], at[j])
    /\ \A i \in inputs : ~Nested(at["output"], at[i]) /\ ~within_or_equal(at["report"], at[i])
    /\ ~Nested(at["report"], at["output"])

Exl3PlacesOk(at) == Apart(at, Inputs) /\ ~within_or_equal(at["audit"], at["output"])

MtpInputs == {"target", "donor"}
MtpPlaces == [MtpInputs \cup {"manifest", "output", "report"} -> Directories]
MtpPlacesOk(at) == Apart(at, MtpInputs) /\ ~within_or_equal(at["manifest"], at["output"])

\* A report that a refused call of package_mimo_exl3.py writes among the weights it reads.
WritesInside(at) == ~Exl3PlacesOk(at) /\ \E i \in Inputs : within_or_equal(at["report"], at[i])

(***************************************************************************)
(* Configurations: text stands for the pinned sizes of the text model, mtp *)
(* is the depth of its MTP block, -1 where the field is absent.            *)
(***************************************************************************)
Configs == [architectures : SUBSET {"dense", "moe"}, text : BOOLEAN, vision : BOOLEAN,
            mtp : -1..1, exl3 : BOOLEAN]

check_source_config(c) == "dense" \in c.architectures /\ c.text /\ c.vision
OutputConfigOk(source, candidate) == candidate.exl3 /\ source.mtp # -1
OutputConfig(source) == [source EXCEPT !.mtp = 0, !.exl3 = TRUE]
check_target_config(c) ==
    "dense" \in c.architectures /\ "moe" \notin c.architectures /\ c.text /\ c.mtp = 0

(***************************************************************************)
(* The projections to expect: those of the mapping, or of the source's     *)
(* tensors by their names; an allocation changes their rates.              *)
(***************************************************************************)
HEAD_BASE == "lm_head"
Projections == {"q_proj", HEAD_BASE}
Usual == Projections \cup {"norm", "embed"}
Audits == {Usual, Usual \cup {"mtp"}, {}} \cup {Usual \ {t} : t \in Usual}
Linears == [base : Projections \cup {"norm"}, shaped : BOOLEAN, qmap : BOOLEAN, head : BOOLEAN]
Mappings == {[given |-> FALSE, linears |-> <<>>]}
            \cup [given : {TRUE}, linears : UNION {[1..n -> Linears] : n \in 0..2}]
Allocations == {[given |-> FALSE, rates |-> <<>>]}
               \cup [given : {TRUE}, rates : UNION {[d -> {0, 4, 6}] : d \in SUBSET (Projections \cup {"norm"})}]

Entries(mapping) == {i \in DOMAIN mapping.linears : mapping.linears[i].qmap}
Bases(mapping, entries) == {mapping.linears[i].base : i \in entries}
MappingOk(mapping, tensors) ==
    /\ \A i \in Entries(mapping) : mapping.linears[i].base \in tensors /\ mapping.linears[i].shaped
    /\ Cardinality(Bases(mapping, Entries(mapping))) = Cardinality(Entries(mapping))
    /\ Bases(mapping, {i \in Entries(mapping) : mapping.linears[i].head}) = {HEAD_BASE}

Quantized(mapping, tensors) ==
    IF mapping.given THEN Bases(mapping, Entries(mapping)) ELSE tensors \cap Projections

AllocationOk(rates, quantized) ==
    /\ DOMAIN rates = quantized
    /\ \A b \in quantized : rates[b] \in 1..8
    /\ rates[HEAD_BASE] = 6

ExpectedOk(tensors, mapping, allocation) ==
    /\ "mtp" \notin tensors
    /\ IF mapping.given THEN MappingOk(mapping, tensors) ELSE HEAD_BASE \in tensors
    /\ Cardinality(Quantized(mapping, tensors)) = Cardinality(Projections)
    /\ allocation.given => AllocationOk(allocation.rates, Quantized(mapping, tensors))
    /\ "embed" \in tensors

\* The rates the tensors of the candidate must have, and those it was converted at.
Expected(tensors, mapping, allocation) ==
    IF allocation.given THEN allocation.rates
    ELSE [b \in Quantized(mapping, tensors) |-> IF b = HEAD_BASE THEN 6 ELSE 4]
Converted == [b \in Projections |-> IF b = HEAD_BASE THEN 6 ELSE 4]

(***************************************************************************)
(* The vision pilot and the other files of the package.                    *)
(***************************************************************************)
Names == {"v1", "v2"}
Pilots == [linked : BOOLEAN, sound : BOOLEAN, audited : SUBSET Names, held : SUBSET Names,
           described : SUBSET Names, same : SUBSET Names]

audit_vision_pilot(v) ==
    /\ ~v.linked /\ v.sound                             \* and the hash of the whole file
    /\ v.audited = Names                                \* the 333 of the source
    /\ v.held = v.audited
    /\ v.audited \subseteq v.described \cap v.same

Kinds == {"weights", "config", "hidden", "log", "link", "licence", "quantization"}
plan_source_metadata(files) == files \cap {"licence", "quantization"}
plan_text_metadata(files) == files \cap {"quantization"}

\* copy_file opens what it writes with "xb": a name both directories have is an error.
MetadataOk(source, candidate) ==
    plan_source_metadata(source) \cap plan_text_metadata(candidate) = {}

(***************************************************************************)
(* The target manifest of package_mimo_mtp.py, its names and its hashes.   *)
(***************************************************************************)
\* "Donor" is, but for its case, the name the donor's weights get; "up/shard" is no leaf.
Leaves == [name : {"shard", "config", "Donor", "up/shard"}, bytes : -1..1, hex : BOOLEAN]
Manifests == UNION {[1..n -> Leaves] : n \in 0..2}

is_safe_leaf(name) == name # "up/shard"
ManifestNames(manifest) == {manifest[i].name : i \in DOMAIN manifest}

validate_target_manifest(manifest) ==
    /\ manifest # <<>>
    /\ \A i \in DOMAIN manifest : is_safe_leaf(manifest[i].name) /\ manifest[i].bytes >= 0 /\ manifest[i].hex
    /\ Cardinality(ManifestNames(manifest)) = Len(manifest)

check_collisions(manifest) == "Donor" \notin ManifestNames(manifest)

(***************************************************************************)
(* What a call can meet: each set is constant, so that its members are     *)
(* looked at once and not in every state.                                  *)
(***************************************************************************)
Exl3Calls == {[ok |-> Exl3PlacesOk(at), inside |-> WritesInside(at)] : at \in Exl3Places}
MtpCalls == {MtpPlacesOk(at) : at \in MtpPlaces}
Sources == {check_source_config(c) : c \in Configs}
Rated == {ExpectedOk(a, m, l) /\ Expected(a, m, l) = Converted :
              a \in Audits, m \in Mappings, l \in Allocations}
Piloted == {audit_vision_pilot(v) : v \in Pilots}
Planned == {OutputConfigOk(c, d) : c \in {e \in Configs : check_source_config(e)}, d \in Configs}
Copyable == {MetadataOk(s, t) : s \in SUBSET Kinds, t \in SUBSET Kinds}
OutputConfigs == {OutputConfig(c) : c \in {d \in Configs : check_source_config(d) /\ d.mtp # -1}}
Listed == {validate_target_manifest(m) /\ check_collisions(m) : m \in Manifests}
=============================================================================
