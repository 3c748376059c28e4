----------------------------- MODULE Safetensors -----------------------------
(***************************************************************************)
(* The layout of a safetensors file: the header every script of the        *)
(* pipeline insists on before it trusts a file, and the one the assembler  *)
(* writes for the rows of a checkpoint.  A header is a sequence of tensors *)
(* in the order of the file; bytes is what shape and dtype ask for.        *)
(***************************************************************************)
EXTENDS Integers, Sequences, SequencesExt, FiniteSets

CONSTANTS Rows, Recovered,          \* num_rows, num_recovered of _Spec
          RowBytes, StateBytes      \* size of a recovered row and of one of the old state

ASSUME SpecAssumption == /\ Rows \in Nat /\ Recovered \in 0..Rows
                         /\ RowBytes \in Nat \ {0} /\ StateBytes \in Nat \ {0}

\* The end of the last tensor so far.
EndOf(header) == IF header = <<>> THEN 0 ELSE Last(header).end

Sized(t) == 0 <= t.begin /\ t.begin <= t.end /\ t.end - t.begin = t.bytes
Earlier(t, u) == t.begin < u.begin \/ (t.begin = u.begin /\ t.end < u.end)
InOrder(header) == SortSeq(header, Earlier)

\* Sorted by their offsets the tensors follow one another from the first byte of the
\* payload to the last.
read_header(header, length) ==
    LET sorted == InOrder(header) IN
    /\ \A k \in DOMAIN header : Sized(header[k])
    /\ \A k \in DOMAIN sorted : sorted[k].begin = EndOf(SubSeq(sorted, 1, k - 1))
    /\ EndOf(sorted) = length

\* What that is for: every byte of the payload belongs to exactly one tensor, and an
\* empty tensor lies between two others, not within one.
Exact(header, length) ==
    LET Holds(k, b) == header[k].begin <= b /\ b < header[k].end IN
    /\ \A k \in DOMAIN header : Sized(header[k]) /\ header[k].end <= length
    /\ \A b \in 0..(length - 1) : Cardinality({k \in DOMAIN header : Holds(k, b)}) = 1
    /\ \A j, k \in DOMAIN header : ~(header[j].begin < header[k].begin /\ Holds(j, header[k].begin))

Tensors(bytes, offsets) == [bytes : bytes, begin : offsets, end : offsets]
Headers == UNION {[1..n -> Tensors(0..2, -1..2)] : n \in 0..2}
           \cup [1..3 -> {t \in Tensors(0..3, 0..3) : Sized(t)}]

\* The reader accepts a header exactly where the tensors tile the payload
\* (_read_safetensors_header, inspect_shard).
ASSUME ReaderExact == \A h \in Headers, n \in 0..3 : read_header(h, n) <=> Exact(h, n)

(***************************************************************************)
(* The plan of assemble_checkpoint: the recovered rows first, then those   *)
(* of the old state, one after the other.                                  *)
(***************************************************************************)
SizeOf(row) == IF row <= Recovered THEN RowBytes ELSE StateBytes
Offset[row \in 0..Rows] == IF row = 0 THEN 0 ELSE Offset[row - 1] + SizeOf(row)
Plan == [row \in 1..Rows |-> [bytes |-> SizeOf(row), begin |-> Offset[row - 1], end |-> Offset[row]]]
=============================================================================
