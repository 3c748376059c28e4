----------------------------- MODULE PageTable -----------------------------
(***************************************************************************)
(* The page table of the KV cache, vendor generator/pagetable.py: the      *)
(* pages, the K/V tensors behind them, and the operations of CachePage as  *)
(* functions from a table to a table.                                      *)
(*                                                                         *)
(* A hash is the sequence it is a digest of (collisions are, as in the     *)
(* code, taken to be impossible): a content hash is the hash of the page   *)
(* before it followed by the page's tokens, and Root for the first page;   *)
(* a random hash is a number nobody else has, written as a sequence of one *)
(* negative number.  Tokens are natural numbers.                           *)
(***************************************************************************)
EXTENDS Integers, Sequences, FiniteSets

CONSTANTS
  Pages,     \* the physical pages
  PageSize,  \* PAGE_SIZE, tokens per page
  Tokens     \* the vocabulary

ASSUME PageTableAssumption ==
  /\ IsFiniteSet(Pages)
  /\ PageSize \in Nat \ {0, 1}
  /\ Tokens \subseteq Nat

VARIABLES
  table,  \* PageTable.all_pages
  kv      \* the K/V tensors: per slot, the tokens its K/V was computed from

pageVars == <<table, kv>>

\* prev_hash = None: no page before this one.
Root == <<>>

IsContent(h) == Len(h) >= PageSize

\* The hash chain starts at the root, so the hash is a token sequence.
Rooted(h) == h = Root \/ h[1] >= 0

\* What revert() restores.
Save == [hash : Seq(Int), prev : Seq(Int), toks : Seq(Tokens)]

\* kv_position is Len(toks), the rest of the token buffer is never read.  saved
\* is {} or, when can_revert is set, holds the one thing to go back to.
CachePage ==
  [hash : Seq(Int), prev : Seq(Int), refs : Nat, toks : Seq(Tokens), saved : SUBSET Save]

Blank(h) == [hash |-> h, prev |-> Root, refs |-> 0, toks |-> <<>>, saved |-> {}]

Complete(t, p) == Len(t[p].toks) = PageSize
Referenced(t) == {p \in Pages : t[p].refs > 0}
Unreferenced(t) == Pages \ Referenced(t)

\* The page a map of the table finds under hash h, if any.
Under(h, t, S) == {p \in S : t[p].hash = h}

Numbers(h) == IF h # Root /\ h[1] < 0 THEN {-h[1]} ELSE {}

\* The numbers of random hashes still in use; one in no page can be taken
\* again, as nothing could tell it from a new one.
NumbersOf(page) ==
  UNION {Numbers(s.hash) \cup Numbers(s.prev) : s \in page.saved \cup {page}}

InUse(t) == UNION {NumbersOf(t[p]) : p \in Pages}

RandomHash(t) == <<-(CHOOSE n \in 1 .. 4 * Cardinality(Pages) + 1 : n \notin InUse(t))>>

AddRef(t, p) == [t EXCEPT ![p].refs = @ + 1, ![p].saved = {}]

\* Mutant: the page keeps its valid length.
AddRefClearKeeps(t, p, h) == [t EXCEPT ![p].hash = h, ![p].refs = 1]
AddRefClear(t, p, h) == [t EXCEPT ![p] = [Blank(h) EXCEPT !.refs = 1]]

AddRefUnique(t, p) ==
  LET old == t[p]
  IN  [t EXCEPT ![p] = [Blank(RandomHash(t)) EXCEPT !.refs = 1,
         !.saved = {[hash |-> old.hash, prev |-> old.prev, toks |-> old.toks]}]]

Reverted(page) ==
  IF page.saved = {} THEN page
  ELSE LET s == CHOOSE x \in page.saved : TRUE
       IN  [page EXCEPT !.hash = s.hash, !.prev = s.prev, !.toks = s.toks, !.saved = {}]

\* A page whose hash was given to another page meanwhile gets a random one;
\* its valid length stays what it was.
SubRef(t, p) ==
  IF t[p].refs > 1 THEN [t EXCEPT ![p].refs = @ - 1]
  ELSE LET back == [Reverted(t[p]) EXCEPT !.refs = 0]
           clash == \E q \in Pages \ {p} : t[q].hash = back.hash
       IN  [t EXCEPT ![p] =
              IF clash THEN [back EXCEPT !.hash = RandomHash(t), !.prev = Root] ELSE back]

\* Mutant: the page keeps its hash.
ClearTokens(t, p) == [t EXCEPT ![p].toks = <<>>, ![p].saved = {}]
Clear(t, p) == [t EXCEPT ![p] = Blank(RandomHash(t))]

\* Mutant: the page can still be reverted.
ExtendRevertibly(t, p, toks) == [t EXCEPT ![p].toks = @ \o toks]

\* Tokens written after a page's valid length (page.can_revert = False).
Extend(t, p, toks) == [t EXCEPT ![p].toks = @ \o toks, ![p].saved = {}]

UpdateHash(t, p, h) == [t EXCEPT ![p].hash = h, ![p].saved = {}]

\* Mutant: the page is not linked.
LinkNot(t, p, h) == [t EXCEPT ![p].saved = {}]

\* Link a page to the page before it (page.prev_hash = ..., can_revert = False).
Link(t, p, h) == [t EXCEPT ![p].prev = h, ![p].saved = {}]

PageTableInit ==
  /\ table \in {[p \in Pages |-> Blank(<<-number[p]>>)] :
                  number \in {f \in [Pages -> 1 .. Cardinality(Pages)] :
                                \A p, q \in Pages : p # q => f[p] # f[q]}}
  /\ kv = [p \in Pages |-> [i \in 1 .. PageSize |-> <<>>]]

PageTableTypeOK ==
  /\ table \in [Pages -> CachePage]
  /\ \A p \in Pages :
       /\ Len(table[p].toks) <= PageSize
       /\ \A x, y \in table[p].saved : x = y
       /\ table[p].saved # {} => table[p].refs = 1
  /\ kv \in [Pages -> [1 .. PageSize -> Seq(Tokens)]]
=============================================================================
