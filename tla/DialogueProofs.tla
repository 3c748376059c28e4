--------------------------- MODULE DialogueProofs ---------------------------
(***************************************************************************)
(* Proofs about a conversation with the server, for every body, server,    *)
(* context, bound of images, and text the model may generate: the          *)
(* reasoning splitter streams exactly what the whole text means, a tool    *)
(* call reaches the client only whole, the controls of a request are       *)
(* honoured, the server takes its own replies back, and the results of     *)
(* tools reach the template in the order of their calls.                   *)
(***************************************************************************)
EXTENDS Dialogue, Loops, SequenceTheorems

\* Strings; the provers do not know of a string that it is in STRING.
Atom == STRING \cup {"<", "/", "think>"}
Text == Seq(Atom)
Mark == {m \in Text : Len(m) > 0}

\* mark stands in text at position i.
Stands(mark, text, i) ==
  i \in 1 .. Len(text) + 1 - Len(mark) /\ \A k \in 1 .. Len(mark) : text[i + k - 1] = mark[k]

Places(mark, text) == {i \in 1..(Len(text) + 1 - Len(mark)) : SubSeq(text, i, i + Len(mark) - 1) = mark}

\* Where a marker can be found is where it stands.
LEMMA StandsIs ==
  ASSUME NEW mark \in Mark, NEW text \in Text, NEW i
  PROVE  i \in Places(mark, text) <=> Stands(mark, text, i)
<1> DEFINE n == Len(mark)
           N == Len(text)
<1>0. mark \in Text /\ n \in Nat /\ n > 0 /\ N \in Nat
  BY LenProperties DEF Mark, Text
<1> SUFFICES ASSUME i \in 1 .. N + 1 - n
             PROVE  SubSeq(text, i, i + n - 1) = mark <=> \A k \in 1 .. n : text[i + k - 1] = mark[k]
  BY DEF Places, Stands
<1>1. \A k \in i .. i + n - 1 : text[k] \in Atom
  <2>1. \A k \in 1 .. N : text[k] \in Atom
    BY ElementOfSeq DEF Text
  <2> QED BY <1>0, <2>1
<1> DEFINE u == SubSeq(text, i, i + n - 1)
<1>2. /\ u \in Text /\ Len(u) = n
      /\ \A k \in 1 .. n : u[k] = text[i + k - 1]
  <2>1. i \in Int /\ i + n - 1 \in Int /\ i <= i + n - 1 /\ i + n - 1 - i + 1 = n
    BY <1>0
  <2>2. u \in Seq(Atom) /\ Len(u) = i + n - 1 - i + 1
        /\ \A k \in 1 .. i + n - 1 - i + 1 : u[k] = text[i + k - 1]
    BY <1>1, <2>1, SubSeqProperties
  <2> QED BY <2>1, <2>2 DEF Text
<1> HIDE DEF u, n, N
<1>3. ASSUME \A k \in 1 .. n : text[i + k - 1] = mark[k] PROVE u = mark
  BY <1>0, <1>2, <1>3, SeqEqual DEF Text, n
<1> QED BY <1>2, <1>3 DEF u, n

\* Find returns the first place of the marker, or 0 where there is none.
LEMMA FindIs ==
  ASSUME NEW mark \in Mark, NEW text \in Text
  PROVE  /\ Find(mark, text) \in Nat
         /\ Find(mark, text) # 0 =>
              /\ Stands(mark, text, Find(mark, text))
              /\ \A j : Stands(mark, text, j) => Find(mark, text) <= j
         /\ Find(mark, text) = 0 => \A j : ~Stands(mark, text, j)
<1> DEFINE at == Places(mark, text)
<1>0. at \in SUBSET Nat
  <2>1. Len(text) \in Nat /\ Len(mark) \in Nat
    BY LenProperties DEF Mark, Text
  <2> QED BY <2>1 DEF Places
<1>1. Find(mark, text) = IF at = {} THEN 0 ELSE CHOOSE i \in at : \A j \in at : i <= j
  BY DEF Find, Places
<1>2. \A j : j \in at <=> Stands(mark, text, j)
  BY StandsIs
<1>3. 0 \notin at
  BY DEF Places
<1> HIDE DEF at
<1>4. CASE at = {}
  BY <1>1, <1>2, <1>4
<1>5. CASE at # {}
  <2>1. \E i \in at : \A j \in at : i <= j
    BY <1>0, <1>5, Least
  <2> QED BY <1>0, <1>1, <1>2, <1>3, <1>5, <2>1
<1> QED BY <1>4, <1>5

\* The place of a mark is the one where it stands first.
LEMMA FindEquals ==
  ASSUME NEW mark \in Mark, NEW text \in Text, NEW i,
         Stands(mark, text, i), \A j : Stands(mark, text, j) => i <= j
  PROVE  Find(mark, text) = i /\ i # 0
<1>1. i \in Nat /\ i # 0
  <2>1. Len(text) \in Nat /\ Len(mark) \in Nat
    BY LenProperties DEF Mark, Text
  <2> QED BY <2>1 DEF Stands
<1>2. Find(mark, text) # 0 /\ Find(mark, text) \in Nat
  BY FindIs
<1>3. Stands(mark, text, Find(mark, text)) /\ Find(mark, text) <= i
  BY <1>2, FindIs
<1>4. i <= Find(mark, text)
  BY <1>3
<1> QED BY <1>1, <1>2, <1>3, <1>4

\* A mark that stands in a text stands in what follows the text as well.
LEMMA FindAppend ==
  ASSUME NEW mark \in Mark, NEW text \in Text, NEW x \in Text, Find(mark, text) # 0
  PROVE  text \o x \in Text /\ Find(mark, text \o x) = Find(mark, text)
<1> DEFINE i == Find(mark, text)
           n == Len(mark)
           T == text \o x
<1>0. n \in Nat /\ n > 0 /\ Len(text) \in Nat /\ Len(x) \in Nat
  BY LenProperties DEF Mark, Text
<1>1. i \in Nat /\ Stands(mark, text, i) /\ \A j : Stands(mark, text, j) => i <= j
  BY FindIs
<1>2. /\ T \in Text /\ Len(T) = Len(text) + Len(x)
      /\ \A k \in 1 .. Len(text) : T[k] = text[k]
  <2>1. /\ T \in Seq(Atom) /\ Len(T) = Len(text) + Len(x)
        /\ \A k \in 1 .. Len(text) + Len(x) : T[k] = IF k <= Len(text) THEN text[k] ELSE x[k - Len(text)]
    BY ConcatProperties DEF Text
  <2> QED BY <1>0, <2>1 DEF Text
<1> HIDE DEF T, i
<1>3. \A j \in Nat : j + n - 1 <= Len(text) => (Stands(mark, T, j) <=> Stands(mark, text, j))
  <2> SUFFICES ASSUME NEW j \in Nat, j + n - 1 <= Len(text)
               PROVE  Stands(mark, T, j) <=> Stands(mark, text, j)
    OBVIOUS
  <2>1. j \in 1 .. Len(T) + 1 - n <=> j \in 1 .. Len(text) + 1 - n
    BY <1>0, <1>2
  <2>2. j >= 1 => \A k \in 1 .. n : T[j + k - 1] = text[j + k - 1]
    BY <1>0, <1>2
  <2>3. j \in 1 .. Len(T) + 1 - Len(mark) => j >= 1
    BY <1>0, <1>2
  <2> QED BY <2>1, <2>2, <2>3 DEF Stands
<1>4. Stands(mark, T, i)
  <2>1. i + n - 1 <= Len(text)
    BY <1>0, <1>1 DEF Stands
  <2> QED BY <1>1, <1>3, <2>1
<1>5. ASSUME NEW j, Stands(mark, T, j) PROVE i <= j
  <2>1. j \in Nat
    BY <1>0, <1>2, <1>5 DEF Stands
  <2>2. i + n - 1 <= Len(text)
    BY <1>0, <1>1 DEF Stands
  <2>3. CASE j + n - 1 <= Len(text)
    BY <1>1, <1>3, <1>5, <2>1, <2>3
  <2>4. CASE ~(j + n - 1 <= Len(text))
    BY <1>0, <1>1, <2>1, <2>2, <2>4
  <2> QED BY <2>3, <2>4
<1>6. Find(mark, T) = i
  BY <1>2, <1>4, <1>5, FindEquals
<1> QED BY <1>2, <1>6 DEF T, i

\* Where nothing stood before, a mark may only stand in the tail and what is added to it.
LEMMA FindShift ==
  ASSUME NEW mark \in Mark, NEW a \in Text, NEW b \in Text, NEW x \in Text,
         Find(mark, a \o b) = 0, Len(b) >= Len(mark) - 1 \/ a = <<>>
  PROVE  /\ (a \o b) \o x = a \o (b \o x) /\ b \o x \in Text /\ (a \o b) \o x \in Text
         /\ Find(mark, (a \o b) \o x) =
              IF Find(mark, b \o x) = 0 THEN 0 ELSE Len(a) + Find(mark, b \o x)
<1> DEFINE u == b \o x
           T == a \o u
           ab == a \o b
           n == Len(mark)
<1>0. n \in Nat /\ n > 0 /\ Len(a) \in Nat /\ Len(b) \in Nat /\ Len(x) \in Nat
  BY LenProperties DEF Mark, Text
<1>1. /\ u \in Text /\ Len(u) = Len(b) + Len(x)
      /\ \A k \in 1 .. Len(b) + Len(x) : u[k] = IF k <= Len(b) THEN b[k] ELSE x[k - Len(b)]
  BY ConcatProperties DEF Text
<1>2. /\ ab \in Text /\ Len(ab) = Len(a) + Len(b)
      /\ \A k \in 1 .. Len(a) + Len(b) : ab[k] = IF k <= Len(a) THEN a[k] ELSE b[k - Len(a)]
  BY ConcatProperties DEF Text
<1>3. ab \o x = T
  BY ConcatAssociative DEF Text
<1> HIDE DEF u, ab
<1>4. /\ T \in Text /\ Len(T) = Len(a) + Len(u)
      /\ \A k \in 1 .. Len(a) + Len(u) : T[k] = IF k <= Len(a) THEN a[k] ELSE u[k - Len(a)]
  <2>1. a \in Seq(Atom) /\ u \in Seq(Atom)
    BY <1>1 DEF Text
  <2> QED BY <2>1, ConcatProperties DEF Text
<1> HIDE DEF T
<1>5. ASSUME NEW k \in 1 .. Len(ab) PROVE T[k] = ab[k]
  <2>1. k \in 1 .. Len(a) + Len(b) /\ k \in 1 .. Len(a) + Len(u)
    BY <1>0, <1>1, <1>2
  <2>2. k > Len(a) => k - Len(a) \in 1 .. Len(b) /\ k - Len(a) \in 1 .. Len(b) + Len(x)
    BY <1>0, <2>1
  <2>3. k > Len(a) => u[k - Len(a)] = b[k - Len(a)]
    BY <1>0, <1>1, <2>2
  <2> QED BY <1>0, <1>2, <1>4, <2>1, <2>3
<1>6. ASSUME NEW k \in 1 .. Len(u) PROVE T[Len(a) + k] = u[k]
  <2>1. Len(a) + k \in 1 .. Len(a) + Len(u) /\ ~(Len(a) + k <= Len(a)) /\ (Len(a) + k) - Len(a) = k
    BY <1>0, <1>1
  <2> QED BY <1>4, <2>1
<1>7. ASSUME NEW j, Stands(mark, T, j) PROVE j > Len(a) /\ j \in Nat
  <2>1. j \in 1 .. Len(T) + 1 - n /\ \A k \in 1 .. n : T[j + k - 1] = mark[k]
    BY <1>7 DEF Stands
  <2>2. CASE j <= Len(a)
    <3>1. Len(b) >= n - 1
      <4>1. a # <<>>
        BY <1>0, <1>1, <1>4, <2>1, <2>2
      <4> QED BY <4>1
    <3>2. j + n - 1 <= Len(ab) /\ j \in 1 .. Len(ab) + 1 - n
      BY <1>0, <1>1, <1>2, <1>4, <2>1, <2>2, <3>1
    <3>3. \A k \in 1 .. n : ab[j + k - 1] = mark[k]
      BY <1>0, <1>2, <1>5, <2>1, <3>2
    <3>4. Stands(mark, ab, j)
      BY <3>2, <3>3 DEF Stands
    <3> QED BY <1>2, <3>4, FindIs DEF ab
  <2> QED BY <1>0, <1>1, <1>4, <2>1, <2>2
<1>8. \A j \in Nat : Stands(mark, T, Len(a) + j) /\ j > 0 <=> Stands(mark, u, j)
  <2> SUFFICES ASSUME NEW j \in Nat PROVE Stands(mark, T, Len(a) + j) /\ j > 0 <=> Stands(mark, u, j)
    OBVIOUS
  <2>1. Len(a) + j \in 1 .. Len(T) + 1 - n /\ j > 0 <=> j \in 1 .. Len(u) + 1 - n
    BY <1>0, <1>1, <1>4
  <2>2. j \in 1 .. Len(u) + 1 - n => \A k \in 1 .. n : T[Len(a) + j + k - 1] = u[j + k - 1]
    <3> SUFFICES ASSUME j \in 1 .. Len(u) + 1 - n, NEW k \in 1 .. n
                 PROVE  T[Len(a) + j + k - 1] = u[j + k - 1]
      OBVIOUS
    <3>1. j + k - 1 \in 1 .. Len(u) /\ Len(a) + (j + k - 1) = Len(a) + j + k - 1
      BY <1>0, <1>1
    <3> QED BY <1>6, <3>1
  <2> QED BY <2>1, <2>2 DEF Stands
<1>9. CASE Find(mark, u) = 0
  <2>1. ASSUME NEW j, Stands(mark, T, j) PROVE FALSE
    <3>1. j > Len(a) /\ j \in Nat /\ j - Len(a) \in Nat /\ Len(a) + (j - Len(a)) = j /\ j - Len(a) > 0
      BY <1>0, <1>7, <2>1
    <3>2. Stands(mark, u, j - Len(a))
      BY <1>8, <2>1, <3>1
    <3> QED BY <1>1, <1>9, <3>2, FindIs
  <2>2. Find(mark, T) = 0
    BY <1>4, <2>1, FindIs
  <2> QED BY <1>1, <1>3, <1>4, <1>9, <2>2 DEF u, ab, T
<1>10. CASE Find(mark, u) # 0
  <2> DEFINE i == Find(mark, u)
  <2>1. i \in Nat /\ Stands(mark, u, i) /\ \A j : Stands(mark, u, j) => i <= j
    BY <1>1, <1>10, FindIs
  <2> HIDE DEF i
  <2>2. Stands(mark, T, Len(a) + i)
    BY <1>8, <2>1
  <2>3. ASSUME NEW j, Stands(mark, T, j) PROVE Len(a) + i <= j
    <3>1. j > Len(a) /\ j \in Nat /\ j - Len(a) \in Nat /\ Len(a) + (j - Len(a)) = j /\ j - Len(a) > 0
      BY <1>0, <1>7, <2>3
    <3>2. Stands(mark, u, j - Len(a))
      BY <1>8, <2>3, <3>1
    <3>3. i <= j - Len(a)
      BY <2>1, <3>2
    <3> QED BY <1>0, <2>1, <3>1, <3>3
  <2>4. Find(mark, T) = Len(a) + i
    BY <1>4, <2>2, <2>3, FindEquals
  <2> QED BY <1>1, <1>3, <1>4, <1>10, <2>4 DEF u, ab, T, i
<1> QED BY <1>9, <1>10

\* Text a and the tail b kept back behind it, in which the mark does not stand.
Waiting(mark, text, a, b) ==
  /\ a \in Text /\ b \in Text /\ text = a \o b
  /\ Find(mark, text) = 0
  /\ Len(b) >= Len(mark) - 1 \/ a = <<>>

\* The mark stands first behind a, and in front of rest.
Between(mark, text, a, rest) ==
  /\ a \in Text /\ rest \in Text /\ text = (a \o mark) \o rest
  /\ Find(mark, text) = Len(a) + 1

\* The two markers of a think block.
LEMMA Marks ==
  /\ Open \in Mark /\ Close \in Mark /\ Open # <<>> /\ Close # <<>>
  /\ Len(Open) = 2 /\ Len(Close) = 3
<1>0. "<" \in Atom /\ "/" \in Atom /\ "think>" \in Atom
  BY DEF Atom
<1>1. <<"<", "think>">> \in Seq(Atom) /\ Len(<<"<", "think>">>) = 2
  BY <1>0
<1>2. <<"<", "/", "think>">> \in Seq(Atom) /\ Len(<<"<", "/", "think>">>) = 3
  BY <1>0
<1>3. Open \in Text /\ Close \in Text /\ Len(Open) = 2 /\ Len(Close) = 3
  BY <1>1, <1>2 DEF Text, Open, Close
<1>4. Len(<<>>) = 0
  OBVIOUS
<1> QED BY <1>3, <1>4 DEF Mark

\* Joining texts is associative.
LEMMA Assoc ==
  ASSUME NEW a \in Text, NEW b \in Text, NEW c \in Text
  PROVE  a \o (b \o c) = (a \o b) \o c
BY ConcatAssociative DEF Text

\* The length and the atoms of two texts joined.
LEMMA Concat ==
  ASSUME NEW a \in Text, NEW b \in Text
  PROVE  /\ a \o b \in Text /\ Len(a \o b) = Len(a) + Len(b)
         /\ Len(a) \in Nat /\ Len(b) \in Nat
         /\ \A k \in 1 .. Len(a) : (a \o b)[k] = a[k]
         /\ \A k \in 1 .. Len(b) : (a \o b)[Len(a) + k] = b[k]
<1>1. Len(a) \in Nat /\ Len(b) \in Nat
  BY LenProperties DEF Text
<1> DEFINE c == a \o b
<1>2. /\ c \in Text /\ Len(c) = Len(a) + Len(b)
      /\ \A k \in 1 .. Len(a) + Len(b) : c[k] = IF k <= Len(a) THEN a[k] ELSE b[k - Len(a)]
  BY ConcatProperties DEF Text
<1> HIDE DEF c
<1>3. \A k \in 1 .. Len(a) : c[k] = a[k]
  BY <1>1, <1>2
<1>4. ASSUME NEW k \in 1 .. Len(b) PROVE c[Len(a) + k] = b[k]
  <2>1. Len(a) + k \in 1 .. Len(a) + Len(b) /\ ~(Len(a) + k <= Len(a)) /\ (Len(a) + k) - Len(a) = k
    BY <1>1
  <2> QED BY <1>2, <2>1
<1> QED BY <1>1, <1>2, <1>3, <1>4 DEF c

\* Part of a text.
LEMMA Part ==
  ASSUME NEW t \in Text, NEW i \in Nat, NEW j \in Nat, i >= 1, j <= Len(t)
  PROVE  /\ SubSeq(t, i, j) \in Text
         /\ Len(SubSeq(t, i, j)) = IF i <= j THEN j - i + 1 ELSE 0
         /\ \A k \in 1 .. Len(SubSeq(t, i, j)) : SubSeq(t, i, j)[k] = t[i + k - 1]
<1>1. Len(t) \in Nat /\ \A k \in 1 .. Len(t) : t[k] \in Atom
  BY LenProperties, ElementOfSeq DEF Text
<1>2. \A k \in i .. j : t[k] \in Atom
  BY <1>1
<1> DEFINE u == SubSeq(t, i, j)
<1>3. /\ u \in Text /\ Len(u) = IF i <= j THEN j - i + 1 ELSE 0
      /\ \A k \in 1 .. j - i + 1 : u[k] = t[i + k - 1]
  BY <1>2, SubSeqProperties DEF Text
<1> HIDE DEF u
<1>4. \A k \in 1 .. Len(u) : k \in 1 .. j - i + 1
  BY <1>3
<1> QED BY <1>3, <1>4 DEF u

\* Two texts of one length with the same atoms are one.
LEMMA Same ==
  ASSUME NEW a \in Text, NEW b \in Text, Len(a) = Len(b), \A k \in 1 .. Len(a) : a[k] = b[k]
  PROVE  a = b
BY SeqEqual DEF Text

\* A text is cut at a place.
LEMMA CutText ==
  ASSUME NEW t \in Text, NEW i \in Nat, i <= Len(t)
  PROVE  /\ SubSeq(t, 1, i) \in Text /\ From(t, i + 1) \in Text
         /\ Len(SubSeq(t, 1, i)) = i /\ Len(From(t, i + 1)) = Len(t) - i /\ Len(t) \in Nat
         /\ t = SubSeq(t, 1, i) \o From(t, i + 1)
<1> DEFINE a == SubSeq(t, 1, i)
           b == From(t, i + 1)
<1>0. Len(t) \in Nat
  BY LenProperties DEF Text
<1>1. a \in Text /\ Len(a) = i /\ \A k \in 1 .. i : a[k] = t[k]
  <2>1. /\ a \in Text /\ Len(a) = IF 1 <= i THEN i - 1 + 1 ELSE 0
        /\ \A k \in 1 .. Len(a) : a[k] = t[1 + k - 1]
    BY <1>0, Part
  <2> HIDE DEF a
  <2> QED BY <2>1
<1>2. b \in Text /\ Len(b) = Len(t) - i /\ \A k \in 1 .. Len(t) - i : b[k] = t[i + k]
  <2>1. i + 1 \in Nat /\ i + 1 >= 1
    OBVIOUS
  <2>2. /\ b \in Text /\ Len(b) = IF i + 1 <= Len(t) THEN Len(t) - (i + 1) + 1 ELSE 0
        /\ \A k \in 1 .. Len(b) : b[k] = t[i + 1 + k - 1]
    BY <1>0, <2>1, Part DEF From
  <2> HIDE DEF b
  <2>3. Len(b) = Len(t) - i
    BY <1>0, <2>2
  <2>4. \A k \in 1 .. Len(t) - i : i + 1 + k - 1 = i + k
    OBVIOUS
  <2> QED BY <2>2, <2>3, <2>4
<1> HIDE DEF a, b
<1> DEFINE c == a \o b
<1>3. /\ c \in Text /\ Len(c) = Len(a) + Len(b)
      /\ \A k \in 1 .. Len(a) : c[k] = a[k]
      /\ \A k \in 1 .. Len(b) : c[Len(a) + k] = b[k]
  BY <1>1, <1>2, Concat
<1> HIDE DEF c
<1>4. Len(t) = Len(c)
  BY <1>0, <1>1, <1>2, <1>3
<1>5. ASSUME NEW k \in 1 .. Len(t) PROVE t[k] = c[k]
  <2>1. CASE k <= i
    BY <1>1, <1>3, <2>1
  <2>2. CASE k > i
    <3>1. k - i \in 1 .. Len(b) /\ i + (k - i) = k
      BY <1>0, <1>2, <2>2
    <3> QED BY <1>1, <1>2, <1>3, <3>1
  <2> QED BY <2>1, <2>2
<1>6. t = c
  BY <1>3, <1>4, <1>5, Same
<1> QED BY <1>0, <1>1, <1>2, <1>6 DEF a, b, c

\* What stands before a mark and behind it.
LEMMA BetweenParts ==
  ASSUME NEW mark \in Mark, NEW text, NEW a, NEW rest, Between(mark, text, a, rest)
  PROVE  /\ text \in Text /\ Find(mark, text) # 0
         /\ SubSeq(text, 1, Find(mark, text) - 1) = a
         /\ From(text, Find(mark, text) + Len(mark)) = rest
<1> DEFINE am == a \o mark
           i == Find(mark, text)
<1>0. mark \in Text /\ a \in Text /\ rest \in Text /\ Len(mark) \in Nat /\ Len(mark) > 0
  BY LenProperties DEF Mark, Text, Between
<1>1. /\ am \in Text /\ Len(am) = Len(a) + Len(mark) /\ Len(a) \in Nat
      /\ \A k \in 1 .. Len(a) : am[k] = a[k]
  BY <1>0, Concat
<1> HIDE DEF am
<1> DEFINE T == am \o rest
<1>2. /\ T \in Text /\ Len(T) = Len(am) + Len(rest) /\ Len(rest) \in Nat
      /\ \A k \in 1 .. Len(am) : T[k] = am[k]
      /\ \A k \in 1 .. Len(rest) : T[Len(am) + k] = rest[k]
  BY <1>0, <1>1, Concat
<1> HIDE DEF T
<1>3. text = T /\ i = Len(a) + 1
  BY DEF Between, am, T
<1> HIDE DEF i
<1>4. SubSeq(T, 1, Len(a)) = a
  <2> DEFINE u == SubSeq(T, 1, Len(a))
  <2>1. /\ u \in Text /\ Len(u) = IF 1 <= Len(a) THEN Len(a) - 1 + 1 ELSE 0
        /\ \A k \in 1 .. Len(u) : u[k] = T[1 + k - 1]
    <3>1. 1 \in Nat /\ 1 >= 1 /\ Len(a) <= Len(T)
      BY <1>0, <1>1, <1>2
    <3> QED BY <1>1, <1>2, <3>1, Part
  <2> HIDE DEF u
  <2>2. Len(u) = Len(a)
    BY <1>1, <2>1
  <2>3. \A k \in 1 .. Len(u) : u[k] = a[k]
    BY <1>0, <1>1, <1>2, <2>1, <2>2
  <2>4. u = a
    BY <1>0, <2>1, <2>2, <2>3, Same
  <2> QED BY <2>4 DEF u
<1>5. SubSeq(T, Len(am) + 1, Len(T)) = rest
  <2> DEFINE u == SubSeq(T, Len(am) + 1, Len(T))
  <2>0. Len(am) \in Nat /\ Len(am) + 1 \in Nat /\ Len(am) + 1 >= 1 /\ Len(T) \in Nat
    BY <1>0, <1>1, <1>2
  <2>1. /\ u \in Text /\ Len(u) = IF Len(am) + 1 <= Len(T) THEN Len(T) - (Len(am) + 1) + 1 ELSE 0
        /\ \A k \in 1 .. Len(u) : u[k] = T[Len(am) + 1 + k - 1]
    BY <1>2, <2>0, Part
  <2> HIDE DEF u
  <2>2. Len(u) = Len(rest)
    BY <1>2, <2>0, <2>1
  <2>3. \A k \in 1 .. Len(u) : Len(am) + 1 + k - 1 = Len(am) + k
    BY <2>0
  <2>4. \A k \in 1 .. Len(u) : u[k] = rest[k]
    BY <1>2, <2>1, <2>2, <2>3
  <2>5. u = rest
    BY <1>0, <2>1, <2>2, <2>4, Same
  <2> QED BY <2>5 DEF u
<1>6. i - 1 = Len(a) /\ i + Len(mark) = Len(am) + 1 /\ i # 0
  BY <1>0, <1>1, <1>3
<1> QED BY <1>2, <1>3, <1>4, <1>5, <1>6 DEF i, From

\* More text behind a mark.
LEMMA BetweenAppend ==
  ASSUME NEW mark \in Mark, NEW text, NEW a, NEW rest, NEW x \in Text, Between(mark, text, a, rest)
  PROVE  Between(mark, text \o x, a, rest \o x)
<1> DEFINE am == a \o mark
<1>0. mark \in Text /\ a \in Text /\ rest \in Text
  BY DEF Mark, Between
<1>1. am \in Text
  BY <1>0, Concat
<1> HIDE DEF am
<1>2. (am \o rest) \o x = am \o (rest \o x)
  BY <1>0, <1>1, ConcatAssociative DEF Text
<1>3. text = am \o rest
  BY DEF am, Between
<1>4. rest \o x \in Text
  BY <1>0, Concat
<1>5. Find(mark, text \o x) = Find(mark, text)
  <2>1. text \in Text /\ Find(mark, text) # 0
    BY BetweenParts
  <2> QED BY <2>1, FindAppend
<1> QED BY <1>0, <1>2, <1>3, <1>4, <1>5 DEF am, Between

\* One turn of feed's loop, on the buffer alone.
LEMMA SeekIs ==
  ASSUME NEW mark \in Mark, NEW s, s.buffer \in Text
  PROVE  LET t == Seek(s, mark)
             b == s.buffer
         IN  /\ t.out \in Text /\ t.rest \in Text /\ t.found \in BOOLEAN
             /\ t.found <=> Find(mark, b) # 0
             /\ ~t.found => b = t.out \o t.rest /\ (Len(t.rest) >= Len(mark) - 1 \/ t.out = <<>>)
             /\ t.found => b = (t.out \o mark) \o t.rest /\ Find(mark, b) = Len(t.out) + 1
<1> DEFINE b == s.buffer
           t == Seek(s, mark)
           i == Find(mark, b)
           n == Len(mark)
<1>0. /\ mark \in Text /\ n \in Nat /\ n > 0 /\ Len(b) \in Nat /\ b \in Text
      /\ Len(b) = 0 => b = <<>>
  BY LenProperties, EmptySeq DEF Mark, Text
<1>1. CASE i = 0
  <2> DEFINE cut == Len(b) - Held(mark, b)
  <2>1. cut \in Nat /\ cut <= Len(b) /\ Len(b) - cut = Held(mark, b)
        /\ (Held(mark, b) >= n - 1 \/ cut = 0)
    <3>1. Held(mark, b) = IF Len(b) < n THEN Len(b) ELSE n - 1
      BY DEF Held
    <3> HIDE DEF n, b
    <3> QED BY <1>0, <3>1
  <2>2. t.out = SubSeq(b, 1, cut) /\ t.rest = From(b, cut + 1) /\ t.found = FALSE
    BY <1>1 DEF Seek
  <2> HIDE DEF cut, t, b
  <2>3. /\ t.out \in Text /\ t.rest \in Text /\ b = t.out \o t.rest
        /\ Len(t.out) = cut /\ Len(t.rest) = Len(b) - cut
    <3>1. b \in Text /\ cut \in Nat /\ cut <= Len(b)
      BY <1>0, <2>1
    <3> QED BY <3>1, <2>2, CutText
  <2>4. cut = 0 => t.out = <<>>
    BY <2>3, EmptySeq DEF Text
  <2>5. Len(t.rest) >= n - 1 \/ t.out = <<>>
    BY <2>1, <2>3, <2>4
  <2> HIDE DEF n
  <2> QED BY <1>1, <2>2, <2>3, <2>5 DEF t, b, n
<1>2. CASE i # 0
  <2>1. t.out = SubSeq(b, 1, i - 1) /\ t.rest = From(b, i + n) /\ t.found = TRUE
    BY <1>2 DEF Seek
  <2>2. i \in Nat /\ Stands(mark, b, i)
    BY <1>0, <1>2, FindIs
  <2> HIDE DEF t, b, i, n
  <2>3. /\ i \in 1 .. Len(b) + 1 - n
        /\ i - 1 \in Nat /\ i - 1 + n \in Nat /\ i - 1 <= Len(b) /\ i - 1 + n <= Len(b)
        /\ i - 1 + n + 1 = i + n
    BY <1>0, <2>2 DEF Stands, n
  <2> DEFINE am == SubSeq(b, 1, i - 1 + n)
  <2>4. /\ t.rest \in Text /\ am \in Text /\ b = am \o t.rest /\ Len(am) = i - 1 + n
    <3> DEFINE c == i - 1 + n
    <3>1. b \in Text /\ c \in Nat /\ c <= Len(b) /\ t.rest = From(b, c + 1)
      BY <1>0, <2>1, <2>3
    <3> HIDE DEF c
    <3>2. /\ SubSeq(b, 1, c) \in Text /\ From(b, c + 1) \in Text
          /\ Len(SubSeq(b, 1, c)) = c /\ b = SubSeq(b, 1, c) \o From(b, c + 1)
      BY <3>1, CutText
    <3> QED BY <3>1, <3>2 DEF c
  <2>5. t.out \in Text /\ Len(t.out) = i - 1
    BY <1>0, <2>1, <2>3, CutText
  <2>6. am = t.out \o mark
    <3> DEFINE o == t.out
               c == o \o mark
    <3>1. /\ c \in Text /\ Len(c) = Len(o) + n
          /\ \A k \in 1 .. Len(o) : c[k] = o[k]
          /\ \A k \in 1 .. n : c[Len(o) + k] = mark[k]
      BY <1>0, <2>5, Concat DEF n
    <3>2. \A k \in 1 .. Len(am) : am[k] = b[k]
      <4>1. /\ 1 \in Nat /\ 1 >= 1
            /\ \A k \in 1 .. Len(am) : am[k] = b[1 + k - 1]
        BY <1>0, <2>3, Part
      <4> HIDE DEF am
      <4>2. \A k \in 1 .. Len(am) : 1 + k - 1 = k
        OBVIOUS
      <4> QED BY <4>1, <4>2
    <3>3. \A k \in 1 .. Len(o) : o[k] = b[k]
      <4>1. /\ 1 \in Nat /\ 1 >= 1
            /\ \A k \in 1 .. Len(o) : o[k] = b[1 + k - 1]
        BY <1>0, <2>1, <2>3, Part
      <4> HIDE DEF o
      <4>2. \A k \in 1 .. Len(o) : 1 + k - 1 = k
        OBVIOUS
      <4> QED BY <4>1, <4>2
    <3> HIDE DEF am, c, o
    <3>4. \A k \in 1 .. n : b[i + k - 1] = mark[k]
      BY <2>2 DEF Stands, n
    <3>5. Len(o) = i - 1
      BY <2>5 DEF o
    <3>6. ASSUME NEW k \in 1 .. Len(am) PROVE am[k] = c[k]
      <4>1. CASE k <= Len(o)
        BY <2>3, <3>1, <3>2, <3>3, <3>5, <4>1
      <4>2. CASE k > Len(o)
        <5> DEFINE l == k - Len(o)
        <5>1. l \in 1 .. n /\ Len(o) + l = k /\ i + l - 1 = k
          BY <1>0, <2>3, <2>4, <3>5, <4>2
        <5> HIDE DEF l
        <5>2. c[k] = mark[l] /\ b[k] = mark[l]
          BY <3>1, <3>4, <5>1
        <5> QED BY <3>2, <5>2
      <4> QED BY <2>3, <3>5, <4>1, <4>2
    <3>7. am = c
      BY <1>0, <2>3, <2>4, <3>1, <3>5, <3>6, Same
    <3> QED BY <3>7 DEF c, o
  <2>7. i = Len(t.out) + 1
    BY <2>3, <2>5
  <2> QED BY <1>2, <2>1, <2>4, <2>5, <2>6, <2>7 DEF t, b, i
<1> QED BY <1>1, <1>2

\* One turn of feed's loop, after text was added to what was waiting.
LEMMA SeekStep ==
  ASSUME NEW mark \in Mark, NEW text, NEW a, NEW b, NEW x \in Text, NEW s,
         Waiting(mark, text, a, b), s.buffer = b \o x
  PROVE  LET t == Seek(s, mark)
         IN  /\ t.out \in Text /\ t.rest \in Text /\ t.found \in BOOLEAN
             /\ ~t.found => Waiting(mark, text \o x, a \o t.out, t.rest)
             /\ t.found => Between(mark, text \o x, a \o t.out, t.rest)
<1> DEFINE t == Seek(s, mark)
           u == s.buffer
           o == t.out
           r == t.rest
<1>0. /\ a \in Text /\ b \in Text /\ text = a \o b /\ mark \in Text
      /\ Find(mark, a \o b) = 0 /\ (Len(b) >= Len(mark) - 1 \/ a = <<>>)
  BY DEF Waiting, Mark
<1>1. /\ text \o x = a \o u /\ u \in Text
      /\ Find(mark, text \o x) = IF Find(mark, u) = 0 THEN 0 ELSE Len(a) + Find(mark, u)
  BY <1>0, FindShift
<1>2. /\ o \in Text /\ r \in Text /\ t.found \in BOOLEAN
      /\ t.found <=> Find(mark, u) # 0
      /\ ~t.found => u = o \o r /\ (Len(r) >= Len(mark) - 1 \/ o = <<>>)
      /\ t.found => u = (o \o mark) \o r /\ Find(mark, u) = Len(o) + 1
  BY <1>1, SeekIs
<1> HIDE DEF u, o, r
<1>3. a \o o \in Text /\ Len(a \o o) = Len(a) + Len(o) /\ Len(a) \in Nat /\ Len(o) \in Nat
  BY <1>0, <1>2, Concat
<1>4. CASE ~t.found
  <2>1. a \o (o \o r) = (a \o o) \o r
    <3>1. o \in Text /\ r \in Text
      BY <1>2
    <3> QED BY <1>0, <3>1, Assoc
  <2>2. Find(mark, text \o x) = 0
    BY <1>1, <1>2, <1>4
  <2>3. Len(r) >= Len(mark) - 1 \/ a \o o = <<>>
    <3>1. CASE o = <<>>
      <4>1. a \o o = a /\ u = r
        BY <1>0, <1>2, <1>4, <3>1, ConcatEmptySeq DEF Text
      <4>2. Len(r) = Len(b) + Len(x) /\ Len(b) \in Nat /\ Len(x) \in Nat
        BY <1>0, <4>1, Concat DEF u
      <4>3. Len(mark) \in Nat
        BY <1>0, LenProperties DEF Text
      <4> QED BY <1>0, <4>1, <4>2, <4>3
    <3>2. CASE o # <<>>
      BY <1>2, <1>4, <3>2
    <3> QED BY <3>1, <3>2
  <2>4. Waiting(mark, text \o x, a \o o, r)
    BY <1>1, <1>2, <1>3, <1>4, <2>1, <2>2, <2>3 DEF Waiting
  <2> QED BY <1>2, <1>4, <2>4 DEF o, r
<1>5. CASE t.found
  <2>1. a \o ((o \o mark) \o r) = ((a \o o) \o mark) \o r
    <3>0. o \in Text /\ r \in Text
      BY <1>2
    <3>1. o \o mark \in Text
      BY <1>0, <3>0, Concat
    <3>2. a \o ((o \o mark) \o r) = (a \o (o \o mark)) \o r
      <4> DEFINE om == o \o mark
      <4>1. om \in Text
        BY <3>1
      <4> HIDE DEF om
      <4>2. a \o (om \o r) = (a \o om) \o r
        BY <1>0, <3>0, <4>1, Assoc
      <4> QED BY <4>2 DEF om
    <3>3. a \o (o \o mark) = (a \o o) \o mark
      BY <1>0, <3>0, Assoc
    <3> QED BY <3>2, <3>3
  <2>2. Find(mark, text \o x) = Len(a \o o) + 1
    BY <1>1, <1>2, <1>3, <1>5
  <2>3. Between(mark, text \o x, a \o o, r)
    BY <1>1, <1>2, <1>3, <1>5, <2>1, <2>2 DEF Between
  <2> QED BY <1>2, <1>5, <2>3 DEF o, r
<1> QED BY <1>4, <1>5

Piece(b, i, f, r, v) == [buffer |-> b, inside |-> i, finished |-> f, reasoning |-> r, visible |-> v]

\* The think block opens behind head; body is the rest of the text.
Opened(text, open, head, body) ==
  IF open THEN head = <<>> /\ body = text /\ text \in Text ELSE Between(Open, text, head, body)

\* What the splitter is in the middle of: r and v were sent of the text so far.
BeforeBlock(text, open, s, r, v) ==
  ~s.inside /\ ~s.finished /\ ~open /\ r = <<>> /\ Waiting(Open, text, v, s.buffer)
InBlock(text, open, s, r, v) ==
  s.inside /\ ~s.finished /\ \E body : Opened(text, open, v, body) /\ Waiting(Close, body, r, s.buffer)
BehindBlock(text, open, s, r, v) ==
  /\ ~s.inside /\ s.finished /\ s.buffer = <<>>
  /\ \E head, body, rest :
       Opened(text, open, head, body) /\ Between(Close, body, r, rest) /\ v = head \o rest

Streaming(text, open, s, r, v) ==
  /\ text \in Text /\ open \in BOOLEAN /\ r \in Text /\ v \in Text
  /\ s.buffer \in Text /\ s.inside \in BOOLEAN /\ s.finished \in BOOLEAN
  /\ s = [buffer |-> s.buffer, inside |-> s.inside, finished |-> s.finished]
  /\ BeforeBlock(text, open, s, r, v) \/ InBlock(text, open, s, r, v) \/ BehindBlock(text, open, s, r, v)

\* Nothing added, nothing changed.
LEMMA NothingAdded == <<>> \in Text /\ \A t \in Text : t \o <<>> = t /\ <<>> \o t = t
<1>1. <<>> \in Text
  BY EmptySeq DEF Text
<1>2. \A t \in Text : t \o <<>> = t /\ <<>> \o t = t
  BY ConcatEmptySeq DEF Text
<1> QED BY <1>1, <1>2

\* No mark stands in no text.
LEMMA FindNothing ==
  ASSUME NEW m \in Mark
  PROVE  Find(m, <<>>) = 0
<1>1. Len(m) \in Nat /\ Len(m) > 0
  BY LenProperties, EmptySeq DEF Mark, Text
<1>2. ASSUME NEW j PROVE ~Stands(m, <<>>, j)
  <2>1. Len(<<>>) = 0
    OBVIOUS
  <2>2. ASSUME Stands(m, <<>>, j) PROVE FALSE
    BY <1>1, <2>1, <2>2 DEF Stands
  <2> QED BY <2>2
<1> QED BY <1>2, NothingAdded, FindIs

\* What lies behind the start of the block is text.
LEMMA OpenedText ==
  ASSUME NEW text, NEW open \in BOOLEAN, NEW head, NEW body, Opened(text, open, head, body)
  PROVE  text \in Text /\ head \in Text /\ body \in Text
<1>1. CASE open
  BY <1>1, NothingAdded DEF Opened
<1>2. CASE ~open
  <2>1. Between(Open, text, head, body)
    BY <1>2 DEF Opened
  <2>2. text \in Text
    BY <2>1, BetweenParts, Marks
  <2> QED BY <2>1, <2>2 DEF Between
<1> QED BY <1>1, <1>2

\* A block that is open stays open when the text goes on.
LEMMA OpenedAppend ==
  ASSUME NEW text, NEW open \in BOOLEAN, NEW head, NEW body, NEW x \in Text,
         Opened(text, open, head, body)
  PROVE  Opened(text \o x, open, head, body \o x)
<1>1. CASE open
  <2>1. head = <<>> /\ body = text /\ text \in Text
    BY <1>1 DEF Opened
  <2>2. text \o x \in Text
    BY <2>1, Concat
  <2> QED BY <1>1, <2>1, <2>2 DEF Opened
<1>2. CASE ~open
  <2>1. Between(Open, text, head, body)
    BY <1>2 DEF Opened
  <2>2. Between(Open, text \o x, head, body \o x)
    BY <2>1, BetweenAppend, Marks
  <2> QED BY <1>2, <2>2 DEF Opened
<1> QED BY <1>1, <1>2

\* A text read at once, once its think block is found.
LEMMA ReasonedOpened ==
  ASSUME NEW text, NEW open \in BOOLEAN, NEW head, NEW body, Opened(text, open, head, body)
  PROVE  Reasoned(text, open) =
           IF Find(Close, body) = 0 THEN [reasoning |-> body, visible |-> head]
           ELSE [reasoning |-> SubSeq(body, 1, Find(Close, body) - 1),
                 visible |-> head \o From(body, Find(Close, body) + Len(Close))]
<1>1. CASE open
  BY <1>1 DEF Opened, Reasoned
<1>2. CASE ~open
  <2>0. Between(Open, text, head, body)
    BY <1>2 DEF Opened
  <2>1. /\ Find(Open, text) # 0 /\ SubSeq(text, 1, Find(Open, text) - 1) = head
        /\ From(text, Find(Open, text) + Len(Open)) = body
    BY <2>0, BetweenParts, Marks
  <2> QED BY <1>2, <2>1 DEF Reasoned
<1> QED BY <1>1, <1>2

\* What was sent and what flush gives are the whole.
Complete(whole, tail, r, v) ==
  /\ tail.reasoning \in Text /\ tail.visible \in Text
  /\ whole.reasoning = r \o tail.reasoning /\ whole.visible = v \o tail.visible

\* At its end the splitter has sent, with what flush gives, what reading the whole
\* text at once gives.
LEMMA StreamedText ==
  ASSUME NEW text, NEW open, NEW s, NEW r, NEW v, Streaming(text, open, s, r, v)
  PROVE  Complete(Reasoned(text, open), flush(s), r, v)
<1>0. /\ text \in Text /\ open \in BOOLEAN /\ r \in Text /\ v \in Text /\ s.buffer \in Text
      /\ <<>> \in Text
  BY NothingAdded DEF Streaming
<1>1. CASE BeforeBlock(text, open, s, r, v)
  <2>1. Reasoned(text, open) = [reasoning |-> <<>>, visible |-> text]
    BY <1>1 DEF BeforeBlock, Waiting, Reasoned
  <2>2. flush(s) = [reasoning |-> <<>>, visible |-> s.buffer] /\ text = v \o s.buffer /\ r = <<>>
    BY <1>1 DEF BeforeBlock, flush, Waiting
  <2>3. r \o <<>> = <<>>
    BY <1>0, <2>2, NothingAdded
  <2> QED BY <1>0, <2>1, <2>2, <2>3 DEF Complete
<1>2. CASE InBlock(text, open, s, r, v)
  <2>1. PICK body : Opened(text, open, v, body) /\ Waiting(Close, body, r, s.buffer)
    BY <1>2 DEF InBlock
  <2>2. Reasoned(text, open) = [reasoning |-> body, visible |-> v]
    BY <1>0, <2>1, ReasonedOpened DEF Waiting
  <2>3. flush(s) = [reasoning |-> s.buffer, visible |-> <<>>] /\ body = r \o s.buffer
    BY <1>2, <2>1 DEF InBlock, flush, Waiting
  <2>4. v \o <<>> = v
    BY <1>0, NothingAdded
  <2>5. Complete([reasoning |-> body, visible |-> v], [reasoning |-> s.buffer, visible |-> <<>>], r, v)
    BY <1>0, <2>3, <2>4 DEF Complete
  <2>6. flush(s) = [reasoning |-> s.buffer, visible |-> <<>>]
    BY <2>3
  <2> QED BY <2>2, <2>5, <2>6, Zenon
<1>3. CASE BehindBlock(text, open, s, r, v)
  <2>1. PICK head, body, rest :
          Opened(text, open, head, body) /\ Between(Close, body, r, rest) /\ v = head \o rest
    BY <1>3 DEF BehindBlock
  <2>2. /\ Find(Close, body) # 0 /\ SubSeq(body, 1, Find(Close, body) - 1) = r
        /\ From(body, Find(Close, body) + Len(Close)) = rest
    BY <2>1, BetweenParts, Marks
  <2>3. Reasoned(text, open) = [reasoning |-> r, visible |-> v]
    <3>1. Reasoned(text, open) =
            [reasoning |-> SubSeq(body, 1, Find(Close, body) - 1),
             visible |-> head \o From(body, Find(Close, body) + Len(Close))]
        <4>1. Opened(text, open, head, body)
        BY <2>1
      <4>2. Find(Close, body) # 0
        BY <2>2
      <4>3. Reasoned(text, open) =
              IF Find(Close, body) = 0 THEN [reasoning |-> body, visible |-> head]
              ELSE [reasoning |-> SubSeq(body, 1, Find(Close, body) - 1),
                    visible |-> head \o From(body, Find(Close, body) + Len(Close))]
        BY <1>0, <4>1, ReasonedOpened
      <4> QED BY <4>2, <4>3, Zenon
    <3> QED BY <2>1, <2>2, <3>1
  <2>4. flush(s) = [reasoning |-> <<>>, visible |-> <<>>]
    BY <1>3 DEF BehindBlock, flush
  <2>5. v \o <<>> = v /\ r \o <<>> = r
    BY <1>0, NothingAdded
  <2>6. Complete([reasoning |-> r, visible |-> v], [reasoning |-> <<>>, visible |-> <<>>], r, v)
    BY <1>0, <2>5 DEF Complete
  <2> QED BY <2>3, <2>4, <2>6, Zenon
<1> QED BY <1>1, <1>2, <1>3 DEF Streaming

\* What Outside, Inside and After do to a piece.
LEMMA OutsideIs ==
  ASSUME NEW b, NEW v
  PROVE  LET s == Piece(b, FALSE, FALSE, <<>>, v)
             t == Seek(s, Open)
         IN  Outside(s) = Piece(t.rest, t.found, FALSE, <<>>, v \o t.out)
BY DEF Outside, Piece

\* The turn that looks for an opening marker passes over every other state.
LEMMA OutsideNot ==
  ASSUME NEW b, NEW i, NEW f, NEW v, i \/ f
  PROVE  Outside(Piece(b, i, f, <<>>, v)) = Piece(b, i, f, <<>>, v)
BY DEF Outside, Piece

\* The turn that looks for the closing marker.
LEMMA InsideIs ==
  ASSUME NEW b, NEW v
  PROVE  LET s == Piece(b, TRUE, FALSE, <<>>, v)
             t == Seek(s, Close)
         IN  Inside(s) = Piece(t.rest, ~t.found, t.found, <<>> \o t.out, v)
BY DEF Inside, Piece

\* It passes over a splitter outside the block.
LEMMA InsideNot ==
  ASSUME NEW b, NEW f, NEW r, NEW v
  PROVE  Inside(Piece(b, FALSE, f, r, v)) = Piece(b, FALSE, f, r, v)
BY DEF Inside, Piece

\* After the block everything is visible.
LEMMA AfterIs ==
  ASSUME NEW b, NEW i, NEW r, NEW v
  PROVE  /\ After(Piece(b, i, FALSE, r, v)) = Piece(b, i, FALSE, r, v)
         /\ After(Piece(b, i, TRUE, r, v)) = Piece(<<>>, i, TRUE, r, v \o b)
BY DEF After, Piece

\* The state of a splitter after a piece went through it.
StateOf(p) == [buffer |-> p.buffer, inside |-> p.inside, finished |-> p.finished]

\* A piece that carries on what was sent before.
Continues(text, open, r, v, p) ==
  /\ p.reasoning \in Text /\ p.visible \in Text
  /\ Streaming(text, open, StateOf(p), r \o p.reasoning, v \o p.visible)

\* The fields of a piece.
LEMMA PieceFields ==
  ASSUME NEW b, NEW i, NEW f, NEW r, NEW v
  PROVE  LET p == Piece(b, i, f, r, v)
         IN  /\ p.buffer = b /\ p.reasoning = r /\ p.visible = v
             /\ StateOf(p) = [buffer |-> b, inside |-> i, finished |-> f]
BY DEF Piece, StateOf

\* A piece carries on in one of three ways.
LEMMA ContinuesIf ==
  ASSUME NEW text \in Text, NEW open \in BOOLEAN, NEW r, NEW v, NEW b \in Text,
         NEW i \in BOOLEAN, NEW f \in BOOLEAN, NEW o \in Text, NEW w \in Text,
         NEW ro, NEW vw, ro = r \o o, vw = v \o w, ro \in Text, vw \in Text,
         LET s == [buffer |-> b, inside |-> i, finished |-> f]
         IN  BeforeBlock(text, open, s, ro, vw) \/ InBlock(text, open, s, ro, vw)
               \/ BehindBlock(text, open, s, ro, vw)
  PROVE  Continues(text, open, r, v, Piece(b, i, f, o, w))
<1> DEFINE p == Piece(b, i, f, o, w)
           s == [buffer |-> b, inside |-> i, finished |-> f]
<1>1. p.reasoning = o /\ p.visible = w /\ StateOf(p) = s
  BY PieceFields
<1>2. s.buffer = b /\ s.inside = i /\ s.finished = f
  OBVIOUS
<1>3. BeforeBlock(text, open, s, ro, vw) \/ InBlock(text, open, s, ro, vw)
        \/ BehindBlock(text, open, s, ro, vw)
  OBVIOUS
<1>4. s = [buffer |-> s.buffer, inside |-> s.inside, finished |-> s.finished]
  OBVIOUS
<1> HIDE DEF p, s
<1>5. Streaming(text, open, s, ro, vw)
  BY <1>2, <1>3, <1>4 DEF Streaming
<1>6. Continues(text, open, r, v, p)
  BY <1>1, <1>5 DEF Continues
<1> QED BY <1>6 DEF p

\* Text that arrives in the block.
LEMMA InsideStep ==
  ASSUME NEW text, NEW open \in BOOLEAN, NEW v \in Text, NEW body, NEW r, NEW b, NEW x \in Text,
         NEW old \in Text, NEW new \in Text, v = old \o new, NEW bx, bx = b \o x, NEW whole,
         whole = body \o x, Opened(text, open, v, whole), Waiting(Close, body, r, b)
  PROVE  Continues(text, open, r, old, After(Inside(Piece(bx, TRUE, FALSE, <<>>, new))))
<1> DEFINE s == Piece(bx, TRUE, FALSE, <<>>, new)
           t == Seek(s, Close)
           o == t.out
           u == t.rest
<1>1. s.buffer = b \o x
  BY DEF Piece
<1>2. /\ o \in Text /\ u \in Text /\ t.found \in BOOLEAN
      /\ ~t.found => Waiting(Close, whole, r \o o, u)
      /\ t.found => Between(Close, whole, r \o o, u)
  <2> HIDE DEF s
  <2> QED BY <1>1, Marks, SeekStep
<1>3. <<>> \o o = o
  <2>1. o \in Text
    BY <1>2
  <2> HIDE DEF o
  <2> QED BY <2>1, NothingAdded
<1>4. Inside(s) = Piece(u, ~t.found, t.found, o, new)
  BY <1>3, InsideIs
<1> HIDE DEF s, t, o, u
<1>5. text \in Text /\ r \in Text /\ r \o o \in Text
  <2>1. text \in Text
    BY OpenedText
  <2>2. r \in Text /\ o \in Text
    BY <1>2 DEF Waiting
  <2> QED BY <2>1, <2>2, Concat
<1>6. CASE t.found = FALSE
  <2>1. After(Inside(s)) = Piece(u, TRUE, FALSE, o, new)
    <3>1. Inside(s) = Piece(u, TRUE, FALSE, o, new)
      BY <1>4, <1>6
    <3>2. After(Piece(u, TRUE, FALSE, o, new)) = Piece(u, TRUE, FALSE, o, new)
      BY AfterIs
    <3> QED BY <3>1, <3>2, Zenon
  <2>2. InBlock(text, open, [buffer |-> u, inside |-> TRUE, finished |-> FALSE], r \o o, v)
    BY <1>2, <1>6 DEF InBlock
  <2>3. o \in Text /\ u \in Text
    BY <1>2
  <2>4. Continues(text, open, r, old, Piece(u, TRUE, FALSE, o, new))
    BY <1>5, <2>2, <2>3, ContinuesIf
  <2> QED BY <2>1, <2>4 DEF s
<1>7. CASE t.found = TRUE
  <2>1. After(Inside(s)) = Piece(<<>>, FALSE, TRUE, o, new \o u)
    <3>1. Inside(s) = Piece(u, FALSE, TRUE, o, new)
      BY <1>4, <1>7
    <3>2. After(Piece(u, FALSE, TRUE, o, new)) = Piece(<<>>, FALSE, TRUE, o, new \o u)
      BY AfterIs
    <3> QED BY <3>1, <3>2, Zenon
  <2>2. u \in Text /\ o \in Text /\ <<>> \in Text
    BY <1>2, NothingAdded
  <2>3. new \o u \in Text /\ v \o u \in Text /\ v \o u = old \o (new \o u)
    <3>1. new \o u \in Text
      BY <2>2, Concat
    <3>2. v \o u \in Text
      BY <2>2, Concat
    <3>3. (old \o new) \o u = old \o (new \o u)
      BY <2>2, Assoc
    <3> QED BY <3>1, <3>2, <3>3
  <2>4. BehindBlock(text, open, [buffer |-> <<>>, inside |-> FALSE, finished |-> TRUE], r \o o, v \o u)
    BY <1>2, <1>7 DEF BehindBlock
  <2>5. Continues(text, open, r, old, Piece(<<>>, FALSE, TRUE, o, new \o u))
    BY <1>5, <2>2, <2>3, <2>4, ContinuesIf
  <2> QED BY <2>1, <2>5 DEF s
<1>8. t.found = TRUE \/ t.found = FALSE
  BY <1>2
<1> QED BY <1>6, <1>7, <1>8

\* One call of feed.
LEMMA FeedStep ==
  ASSUME NEW text, NEW open, NEW s, NEW r, NEW v, NEW x \in Text, Streaming(text, open, s, r, v)
  PROVE  Continues(text \o x, open, r, v, feed(s, x))
<1> DEFINE b == s.buffer
           bx == b \o x
           T == text \o x
           p == feed(s, x)
<1>0. /\ text \in Text /\ open \in BOOLEAN /\ r \in Text /\ v \in Text /\ b \in Text
      /\ s.inside \in BOOLEAN /\ s.finished \in BOOLEAN
      /\ s = [buffer |-> b, inside |-> s.inside, finished |-> s.finished]
  BY DEF Streaming
<1>1. p = After(Inside(Outside(Piece(bx, s.inside, s.finished, <<>>, <<>>))))
  <2>1. WithOutput([s EXCEPT !.buffer = @ \o x]) = Piece(bx, s.inside, s.finished, <<>>, <<>>)
    BY <1>0 DEF WithOutput, Piece
  <2> QED BY <2>1 DEF feed
<1> HIDE DEF p
<1>2. T \in Text /\ bx \in Text /\ <<>> \in Text
  <2>1. b \in Text /\ text \in Text
    BY <1>0
  <2> HIDE DEF b
  <2> QED BY <2>1, Concat, NothingAdded
<1>3. /\ r \o <<>> = r /\ v \o <<>> = v /\ <<>> \o x = x /\ <<>> \o <<>> = <<>> /\ x \o <<>> = x
  BY <1>0, NothingAdded
<1>4. CASE BeforeBlock(text, open, s, r, v)
  <2> DEFINE q == Piece(bx, FALSE, FALSE, <<>>, <<>>)
             t == Seek(q, Open)
             o == t.out
             u == t.rest
             vo == v \o o
  <2>1. /\ open = FALSE /\ r = <<>> /\ Waiting(Open, text, v, b)
        /\ s.inside = FALSE /\ s.finished = FALSE
    BY <1>0, <1>4 DEF BeforeBlock
  <2>2. q.buffer = b \o x
    BY DEF Piece
  <2>3. /\ o \in Text /\ u \in Text /\ t.found \in BOOLEAN
        /\ ~t.found => Waiting(Open, T, vo, u)
        /\ t.found => Between(Open, T, vo, u)
    <3> HIDE DEF q, b
    <3> QED BY <2>1, <2>2, Marks, SeekStep
  <2>4. <<>> \o o = o /\ vo \in Text /\ <<>> \o u = u
    <3>1. o \in Text /\ u \in Text
      BY <2>3
    <3> HIDE DEF o, u
    <3> QED BY <1>0, <3>1, NothingAdded, Concat
  <2>5. p = After(Inside(Piece(u, t.found, FALSE, <<>>, o)))
    <3>1. Outside(q) = Piece(u, t.found, FALSE, <<>>, <<>> \o o)
      BY OutsideIs
    <3>2. Outside(q) = Piece(u, t.found, FALSE, <<>>, o)
      BY <2>4, <3>1
    <3>3. p = After(Inside(Outside(q)))
      BY <1>1, <2>1
    <3> QED BY <3>2, <3>3
  <2> HIDE DEF q, t, o, u, b, bx, T, vo
  <2>6. CASE t.found = FALSE
    <3>1. p = Piece(u, FALSE, FALSE, <<>>, o)
      <4>1. Inside(Piece(u, FALSE, FALSE, <<>>, o)) = Piece(u, FALSE, FALSE, <<>>, o)
        BY InsideNot
      <4>2. After(Piece(u, FALSE, FALSE, <<>>, o)) = Piece(u, FALSE, FALSE, <<>>, o)
        BY AfterIs
      <4> QED BY <2>5, <2>6, <4>1, <4>2
    <3>2. BeforeBlock(T, open, [buffer |-> u, inside |-> FALSE, finished |-> FALSE], <<>>, vo)
      BY <2>1, <2>3, <2>6 DEF BeforeBlock
    <3>3. o \in Text /\ u \in Text /\ <<>> = r \o <<>>
      BY <1>3, <2>1, <2>3
    <3>4. Continues(T, open, r, v, Piece(u, FALSE, FALSE, <<>>, o))
      <4>1. vo = v \o o
        BY DEF vo
      <4> QED BY <1>0, <1>2, <2>4, <3>2, <3>3, <4>1, ContinuesIf
    <3> QED BY <3>1, <3>4 DEF p, T
  <2>7. CASE t.found = TRUE
    <3>1. p = After(Inside(Piece(u, TRUE, FALSE, <<>>, o)))
      BY <2>5, <2>7
    <3>2. Opened(T, open, vo, u)
      BY <2>1, <2>3, <2>7 DEF Opened
    <3>3. Waiting(Close, <<>>, <<>>, <<>>)
      BY <1>2, <1>3, FindNothing, Marks DEF Waiting
    <3>4. Continues(T, open, <<>>, v, After(Inside(Piece(u, TRUE, FALSE, <<>>, o))))
      <4>1. o \in Text /\ u \in Text /\ u = <<>> \o u
        BY <2>3, <2>4
      <4>2. vo = v \o o
        BY DEF vo
      <4> QED BY <1>0, <2>4, <3>2, <3>3, <4>1, <4>2, InsideStep
    <3> QED BY <2>1, <3>1, <3>4 DEF p, T
  <2> QED BY <2>3, <2>6, <2>7
<1>5. CASE InBlock(text, open, s, r, v)
  <2>1. PICK body : Opened(text, open, v, body) /\ Waiting(Close, body, r, b)
    BY <1>5 DEF InBlock
  <2>2. p = After(Inside(Piece(bx, TRUE, FALSE, <<>>, <<>>)))
    <3>1. s.inside = TRUE /\ s.finished = FALSE
      BY <1>0, <1>5 DEF InBlock
    <3> HIDE DEF bx
    <3>2. Outside(Piece(bx, TRUE, FALSE, <<>>, <<>>)) = Piece(bx, TRUE, FALSE, <<>>, <<>>)
      BY OutsideNot
    <3> QED BY <1>1, <3>1, <3>2
  <2>3. Opened(T, open, v, body \o x)
    BY <1>0, <2>1, OpenedAppend
  <2>4. v = v \o <<>> /\ bx = b \o x
    BY <1>3
  <2> HIDE DEF b, bx, T
  <2>5. Continues(T, open, r, v, p)
    <3> DEFINE w == body \o x
    <3>1. w = body \o x /\ Opened(T, open, v, w)
      BY <2>3
    <3> HIDE DEF w
    <3> QED BY <1>0, <1>2, <2>1, <2>2, <2>4, <3>1, InsideStep
  <2> QED BY <2>5 DEF p, T
<1>6. CASE BehindBlock(text, open, s, r, v)
  <2>1. PICK head, body, rest :
          Opened(text, open, head, body) /\ Between(Close, body, r, rest) /\ v = head \o rest
    BY <1>6 DEF BehindBlock
  <2>2. s.inside = FALSE /\ s.finished = TRUE /\ b = <<>>
    BY <1>0, <1>6 DEF BehindBlock
  <2>3. p = Piece(<<>>, FALSE, TRUE, <<>>, x)
    <3>1. bx = x
      BY <1>3, <2>2
    <3>2. Outside(Piece(x, FALSE, TRUE, <<>>, <<>>)) = Piece(x, FALSE, TRUE, <<>>, <<>>)
      BY OutsideNot
    <3>3. Inside(Piece(x, FALSE, TRUE, <<>>, <<>>)) = Piece(x, FALSE, TRUE, <<>>, <<>>)
      BY InsideNot
    <3>4. After(Piece(x, FALSE, TRUE, <<>>, <<>>)) = Piece(<<>>, FALSE, TRUE, <<>>, <<>> \o x)
      BY AfterIs
    <3> HIDE DEF bx
    <3> QED BY <1>1, <1>3, <2>2, <3>1, <3>2, <3>3, <3>4
  <2>5. head \in Text /\ rest \in Text
    <3>1. head \in Text
      BY <1>0, <2>1, OpenedText
    <3> QED BY <2>1, <3>1 DEF Between
  <2>6. v \o x \in Text /\ v \o x = head \o (rest \o x)
    <3>1. (head \o rest) \o x = head \o (rest \o x)
      BY <2>5, Assoc
    <3>2. v \o x \in Text
      BY <1>0, Concat
    <3> QED BY <2>1, <3>1, <3>2
  <2>7. /\ Opened(T, open, head, body \o x)
        /\ Between(Close, body \o x, r, rest \o x)
    <3>1. Opened(T, open, head, body \o x)
      BY <1>0, <2>1, OpenedAppend
    <3>2. Between(Close, body \o x, r, rest \o x)
      BY <2>1, BetweenAppend, Marks
    <3> QED BY <3>1, <3>2
  <2>8. BehindBlock(T, open, [buffer |-> <<>>, inside |-> FALSE, finished |-> TRUE], r, v \o x)
    BY <2>6, <2>7 DEF BehindBlock
  <2> DEFINE vx == v \o x
  <2>9. vx = v \o x /\ vx \in Text /\ r = r \o <<>>
    BY <1>3, <2>6
  <2> HIDE DEF T, bx, b, vx
  <2>10. Continues(T, open, r, v, Piece(<<>>, FALSE, TRUE, <<>>, x))
    <3>1. BehindBlock(T, open, [buffer |-> <<>>, inside |-> FALSE, finished |-> TRUE], r, vx)
      BY <2>8 DEF vx
    <3> QED BY <1>0, <1>2, <2>9, <3>1, ContinuesIf
  <2> QED BY <2>3, <2>10 DEF p, T
<1> QED BY <1>4, <1>5, <1>6 DEF Streaming

\* A splitter that has read nothing.
LEMMA StreamStart ==
  ASSUME NEW open \in BOOLEAN
  PROVE  Streaming(<<>>, open, Splitter(open), <<>>, <<>>)
<1> DEFINE s == Splitter(open)
<1>1. s = [buffer |-> <<>>, inside |-> open, finished |-> FALSE]
  BY DEF Splitter
<1>2. <<>> \in Text /\ <<>> \o <<>> = <<>>
  BY NothingAdded
<1>3. \A m \in Mark : Find(m, <<>>) = 0
  BY FindNothing
<1>4. \A m \in Mark : Waiting(m, <<>>, <<>>, <<>>)
  BY <1>2, <1>3 DEF Waiting
<1> HIDE DEF s
<1>5. CASE open
  <2>1. Opened(<<>>, open, <<>>, <<>>)
    BY <1>2, <1>5 DEF Opened
  <2>2. InBlock(<<>>, open, s, <<>>, <<>>)
    BY <1>1, <1>4, <1>5, <2>1, Marks DEF InBlock
  <2> QED BY <1>1, <1>2, <2>2 DEF Streaming, s
<1>6. CASE ~open
  <2>1. BeforeBlock(<<>>, open, s, <<>>, <<>>)
    BY <1>1, <1>4, <1>6, Marks DEF BeforeBlock
  <2> QED BY <1>1, <1>2, <2>1 DEF Streaming, s
<1> QED BY <1>5, <1>6

\* Split in one go, as for a reply with tools.
LEMMA SplitComplete ==
  ASSUME NEW text \in Text, NEW open \in BOOLEAN
  PROVE  /\ split_complete(text, open).reasoning = Reasoned(text, open).reasoning
         /\ split_complete(text, open).visible = Reasoned(text, open).visible
         /\ Reasoned(text, open).visible \in Text
<1> DEFINE p == feed(Splitter(open), text)
<1>1. Streaming(<<>>, open, Splitter(open), <<>>, <<>>)
  BY StreamStart
<1>2. Continues(<<>> \o text, open, <<>>, <<>>, p)
  BY <1>1, FeedStep
<1>3. <<>> \o text = text
  BY NothingAdded
<1> HIDE DEF p
<1>4. /\ p.reasoning \in Text /\ p.visible \in Text
      /\ Streaming(text, open, StateOf(p), <<>> \o p.reasoning, <<>> \o p.visible)
  BY <1>2, <1>3 DEF Continues
<1>5. <<>> \o p.reasoning = p.reasoning /\ <<>> \o p.visible = p.visible
  <2>1. p.reasoning \in Text /\ p.visible \in Text
    BY <1>4
  <2> QED BY <2>1, NothingAdded
<1>6. flush(p) = flush(StateOf(p))
  BY DEF flush, StateOf
<1>7. Streaming(text, open, StateOf(p), p.reasoning, p.visible)
  BY <1>4, <1>5
<1>8. Complete(Reasoned(text, open), flush(p), p.reasoning, p.visible)
  BY <1>6, <1>7, StreamedText
<1>9. split_complete(text, open) = [reasoning |-> p.reasoning \o flush(p).reasoning,
                                    visible |-> p.visible \o flush(p).visible]
  BY DEF split_complete, p
<1>10. /\ Reasoned(text, open).reasoning = p.reasoning \o flush(p).reasoning
       /\ Reasoned(text, open).visible = p.visible \o flush(p).visible
  BY <1>8, Zenon DEF Complete
<1> DEFINE w == split_complete(text, open)
           ro == p.reasoning \o flush(p).reasoning
           vo == p.visible \o flush(p).visible
<1>11. w = [reasoning |-> ro, visible |-> vo]
  BY <1>9
<1> HIDE DEF p, w, ro, vo
<1>12. w.reasoning = ro /\ w.visible = vo
  BY <1>11
<1>13. vo \in Text
  <2>1. p.visible \in Text /\ flush(p).visible \in Text
    BY <1>4, <1>8 DEF Complete
  <2> QED BY <2>1, Concat DEF vo
<1> QED BY <1>10, <1>12, <1>13 DEF w, ro, vo

\* The start of a text.
LEMMA Prefix ==
  ASSUME NEW r \in Text, NEW x \in Text, NEW w, w = r \o x
  PROVE  IsPrefix(r, w)
<1>1. /\ w \in Text /\ Len(w) = Len(r) + Len(x) /\ Len(r) \in Nat /\ Len(x) \in Nat
      /\ \A k \in 1 .. Len(r) : w[k] = r[k]
  BY Concat
<1> DEFINE n == Len(r)
           a == SubSeq(r, 1, n)
           b == SubSeq(w, 1, n)
<1>2. n \in Nat /\ n <= Len(r) /\ n <= Len(w) /\ 1 \in Nat /\ 1 >= 1
  BY <1>1
<1>3. a \in Text /\ Len(a) = (IF 1 <= n THEN n - 1 + 1 ELSE 0) /\ \A k \in 1 .. Len(a) : a[k] = r[1 + k - 1]
  BY <1>2, Part
<1>4. b \in Text /\ Len(b) = (IF 1 <= n THEN n - 1 + 1 ELSE 0) /\ \A k \in 1 .. Len(b) : b[k] = w[1 + k - 1]
  BY <1>1, <1>2, Part
<1> HIDE DEF a, b
<1>5. Len(a) = Len(b) /\ \A k \in 1 .. Len(a) : a[k] = b[k]
  BY <1>1, <1>3, <1>4
<1>6. a = b
  BY <1>3, <1>4, <1>5, Same
<1> QED BY <1>2, <1>6 DEF IsPrefix, a, b

-----------------------------------------------------------------------------
(* A streamed reply: what went to the client is the start of the reply.    *)

\* The reply is split as it comes, not parsed for calls.
Streams(j) == j.policy = NoPolicy /\ j.split

\* What went out on each channel, and nothing else did.
Pieces(s) == s = [reasoning |-> s.reasoning, visible |-> s.visible, calls |-> <<>>]

Sending(j, text, s, out, end) ==
  /\ j.open \in BOOLEAN /\ Pieces(out)
  /\ end = "none" => Streaming(text, j.open, s, out.reasoning, out.visible)
  /\ end # "none" => /\ text \in Text /\ out.reasoning \in Text /\ out.visible \in Text
                     /\ out.reasoning = Reasoned(text, j.open).reasoning
                     /\ out.visible = Reasoned(text, j.open).visible

SplitInv == Streams(job) => Sending(job, raw, split, sent, final)

\* More on both channels.
LEMMA SentMore ==
  ASSUME NEW o, NEW p, Pieces(o)
  PROVE  /\ More(o, p).reasoning = o.reasoning \o p.reasoning
         /\ More(o, p).visible = o.visible \o p.visible
         /\ Pieces(More(o, p))
<1>1. o.calls = <<>>
  BY DEF Pieces
<1> DEFINE x == o.reasoning \o p.reasoning
           y == o.visible \o p.visible
<1>2. More(o, p) = [reasoning |-> x, visible |-> y, calls |-> <<>>]
  BY <1>1 DEF More
<1> HIDE DEF x, y
<1>3. More(o, p).reasoning = x /\ More(o, p).visible = y
  BY <1>2
<1> QED BY <1>2, <1>3 DEF Pieces, x, y

\* A reply that starts has sent nothing.
LEMMA SplitStart ==
  ASSUME NEW j, Start(j), j.open \in BOOLEAN
  PROVE  SplitInv'
<1> USE DEF Start
<1>1. /\ sent'.reasoning = <<>> /\ sent'.visible = <<>> /\ Pieces(sent')
  BY DEF NothingSent, Pieces
<1>2. Streaming(<<>>, j.open, Splitter(j.open), <<>>, <<>>)
  BY StreamStart
<1> QED BY <1>1, <1>2 DEF SplitInv, Sending

\* A fragment sends what the splitter lets out.
LEMMA SplitEmit ==
  ASSUME SplitInv, Streams(job), NEW f \in Fragments, Emit(f)
  PROVE  SplitInv'
<1> DEFINE p == feed(split, f)
           r == sent.reasoning
           v == sent.visible
<1>1. /\ final = "none" /\ final' = "none" /\ job' = job /\ raw' = raw \o f
      /\ split' = [buffer |-> p.buffer, inside |-> p.inside, finished |-> p.finished]
      /\ sent' = More(sent, p)
  BY DEF Emit, Streams
<1>2. job.open \in BOOLEAN /\ Pieces(sent) /\ Streaming(raw, job.open, split, r, v)
  BY <1>1 DEF SplitInv, Sending
<1>3. Continues(raw \o f, job.open, r, v, p)
  <2>1. f \in Text
    BY ReplyAssumption DEF Text, Atom
  <2> HIDE DEF p, r, v
  <2> QED BY <1>2, <2>1, FeedStep DEF p
<1>4. /\ sent'.reasoning = r \o p.reasoning /\ sent'.visible = v \o p.visible
      /\ Pieces(sent')
  <2> HIDE DEF p, r, v
  <2>1. sent' = More(sent, p) /\ Pieces(sent)
    BY <1>1, <1>2, <1>3
  <2> QED BY <2>1, SentMore DEF r, v
<1>5. split' = StateOf(p)
  BY <1>1 DEF StateOf
<1> HIDE DEF p, r, v
<1>6. Streaming(raw', job'.open, split', sent'.reasoning, sent'.visible)
  BY <1>1, <1>3, <1>4, <1>5 DEF Continues
<1> QED BY <1>1, <1>2, <1>4, <1>6 DEF SplitInv, Sending

\* The end of the text sends what the splitter still holds.
LEMMA SplitEnd ==
  ASSUME SplitInv, Streams(job), End
  PROVE  SplitInv'
<1> DEFINE tail == flush(split)
           r == sent.reasoning
           v == sent.visible
           whole == Reasoned(raw, job.open)
<1>1. PICK finish \in {"stop"} \cup (IF tokens = job.limit THEN {"length"} ELSE {}) :
        EndText(finish) \/ EndTools(finish)
  BY DEF End
<1>2. /\ final = "none" /\ final' # "none" /\ job' = job /\ raw' = raw
      /\ sent' = More(sent, tail)
  BY <1>1 DEF End, EndText, EndTools, Streams
<1>3. job.open \in BOOLEAN /\ Pieces(sent) /\ Streaming(raw, job.open, split, r, v)
  BY <1>2 DEF SplitInv, Sending
<1>4. Complete(whole, tail, r, v) /\ raw \in Text /\ r \in Text /\ v \in Text
  <2>1. raw \in Text /\ r \in Text /\ v \in Text
    BY <1>3 DEF Streaming
  <2> HIDE DEF r, v
  <2> QED BY <1>3, <2>1, StreamedText
<1> HIDE DEF tail, whole
<1>5. /\ sent'.reasoning = r \o tail.reasoning /\ sent'.visible = v \o tail.visible
      /\ Pieces(sent')
  <2> HIDE DEF tail, r, v
  <2>1. sent' = More(sent, tail) /\ Pieces(sent)
    BY <1>1, <1>2, <1>3
  <2> QED BY <2>1, SentMore DEF r, v
<1>6. sent'.reasoning = whole.reasoning /\ sent'.visible = whole.visible
  BY <1>4, <1>5 DEF Complete
<1>7. sent'.reasoning \in Text /\ sent'.visible \in Text
  <2>1. r \o tail.reasoning \in Text
    <3> HIDE DEF r
    <3> QED BY <1>4, Concat DEF Complete
  <2>2. v \o tail.visible \in Text
    <3> HIDE DEF v
    <3> QED BY <1>4, Concat DEF Complete
  <2> QED BY <1>5, <2>1, <2>2
<1> QED BY <1>2, <1>3, <1>4, <1>5, <1>6, <1>7 DEF SplitInv, Sending, whole

\* Every step keeps the pieces sent against the text read.
LEMMA SplitStep ==
  ASSUME SplitInv, [Next]_chat
  PROVE  SplitInv'
<1>1. CASE UNCHANGED chat
  BY <1>1 DEF SplitInv, chat, reply, dialogue, Streams
<1>2. CASE \E m \in MadeUp : Write(m)
  BY <1>2 DEF SplitInv, Write, reply, Streams
<1>3. ASSUME NEW b \in Bodies, Post(b) PROVE SplitInv'
  <2>1. CASE UNCHANGED reply
    BY <2>1 DEF SplitInv, reply, Streams
  <2>2. CASE \E open \in MayOpen : Start(Job(b, open))
    <3>1. PICK open \in MayOpen : Start(Job(b, open))
      BY <2>2
    <3>2. open \in BOOLEAN
      BY DEF MayOpen
    <3>3. Job(b, open).open \in BOOLEAN
      BY <3>2 DEF Job
    <3> QED BY <3>1, <3>3, SplitStart
  <2> QED BY <1>3, <2>1, <2>2 DEF Post, Refuse
<1>4. CASE Generate
  <2>1. CASE Streams(job)
    <3>1. PICK f \in Fragments : Emit(f)
      BY <1>4, <2>1 DEF Generate, Streams
    <3> QED BY <2>1, <3>1, SplitEmit
  <2>2. CASE ~Streams(job)
    <3>1. job' = job
      BY <1>4 DEF Generate, Emit
    <3> QED BY <2>2, <3>1 DEF SplitInv, Streams
  <2> QED BY <2>1, <2>2
<1>5. CASE Conclude
  <2>1. CASE Streams(job)
    BY <1>5, <2>1, SplitEnd DEF Conclude
  <2>2. CASE ~Streams(job)
    <3>1. job' = job
      BY <1>5 DEF Conclude, End
    <3> QED BY <2>2, <3>1 DEF SplitInv, Streams
  <2> QED BY <2>1, <2>2
<1>6. CASE Keep
  <2>1. Start([policy |-> NoPolicy, split |-> FALSE, open |-> FALSE])
    BY <1>6 DEF Keep
  <2> QED BY <2>1, SplitStart
<1> QED BY <1>1, <1>2, <1>3, <1>4, <1>5, <1>6 DEF Next

\* The pieces sent are the start of the whole reply, and at the end all of it.
LEMMA SplitImplies ==
  ASSUME SplitInv
  PROVE  SplitExact
<1> SUFFICES ASSUME Streams(job) PROVE SplitExact
  BY DEF SplitExact, Streams
<1> DEFINE r == sent.reasoning
           v == sent.visible
           whole == Reasoned(raw, job.open)
<1>1. Pieces(sent) /\ sent.calls = <<>>
  BY DEF SplitInv, Sending, Pieces
<1>2. CASE final = "none"
  <2>1. Streaming(raw, job.open, split, r, v)
    BY <1>2 DEF SplitInv, Sending
  <2>2. Complete(whole, flush(split), r, v) /\ r \in Text /\ v \in Text
    <3>1. r \in Text /\ v \in Text
      BY <2>1 DEF Streaming
    <3> HIDE DEF r, v
    <3> QED BY <2>1, <3>1, StreamedText
  <2> HIDE DEF r, v, whole
  <2>3. IsPrefix(r, whole.reasoning) /\ IsPrefix(v, whole.visible)
    BY <2>2, Prefix DEF Complete
  <2> QED BY <1>2, <2>3 DEF SplitExact, r, v, whole
<1>3. CASE final # "none"
  <2>1. r \in Text /\ v \in Text /\ r = whole.reasoning /\ v = whole.visible
    BY <1>3 DEF SplitInv, Sending
  <2>2. <<>> \in Text /\ r = r \o <<>> /\ v = v \o <<>>
    BY <2>1, NothingAdded
  <2> HIDE DEF r, v, whole
  <2>3. IsPrefix(r, r) /\ IsPrefix(v, v)
    BY <2>1, <2>2, Prefix
  <2> QED BY <1>1, <2>1, <2>3 DEF SplitExact, r, v, whole
<1> QED BY <1>2, <1>3

\* Streaming shows exactly what reading the whole text at once gives, however it is cut
\* into fragments (ReasoningSplitter.feed, flush).
THEOREM DialogueSplit == Spec => []SplitExact
<1>1. Init => SplitInv
  BY DEF Init, ReplyInit, SplitInv, Streams
<1>2. SplitInv /\ [Next]_chat => SplitInv'
  BY SplitStep
<1>3. SplitInv => SplitExact
  BY SplitImplies
<1> QED BY <1>1, <1>2, <1>3, PTL DEF Spec

-----------------------------------------------------------------------------
(* A reply with tools: the scan of the text for calls.                     *)

\* No fence and no call opens in the first i atoms.
Plain(text, i) == \A b \in 1 .. i : text[b] \notin Fences \cup {"<tool_call>"}

\* The first fence of the text opens at a, before any call, and is open behind i.
Opens(text, a, i) ==
  text[a] \in Fences /\ Plain(text, a - 1) /\ \A b \in a + 1 .. i : text[b] # text[a]

\* A call stands whole at i, outside the first fence.
WholeAt(text, policy, call, i) ==
  /\ i + 2 <= Len(text) /\ text[i] = "<tool_call>" /\ text[i + 2] = "</tool_call>"
  /\ text[i + 1] \in DOMAIN Written /\ Written[text[i + 1]].name = call.name /\ ~InFence(text, i)
  /\ call.name \in policy.tools /\ Required[call.name] \subseteq DOMAIN call.args
  /\ \A key \in DOMAIN call.args : call.args[key] = Schema[call.name][key]

\* The calls that the text holds.
Parsed(text, policy) == {parse_call(SubSeq(text, i + 1, j - 1), policy) : i \in Nat, j \in Nat}
CallsIn(text, policy) ==
  {c \in Parsed(text, policy) : c # Malformed /\ \E i \in DOMAIN text : WholeAt(text, policy, c, i)}

Scanning(text, policy) ==
  [ok : BOOLEAN, pos : Nat \ {0}, fence : Fences \cup {"none"}, calls : Seq(CallsIn(text, policy)),
   content : Text]

\* The scan behind the first i atoms.
ScanOk(text, scan, i) ==
  scan.ok =>
    /\ Plain(text, i) => scan.fence = "none" /\ scan.pos = 1
    /\ \A a \in 1 .. i : Opens(text, a, i) => scan.fence = text[a] /\ scan.pos = 1

Scanned(text, policy) ==
  [i \in 0 .. Len(text) |-> {scan \in Scanning(text, policy) : ScanOk(text, scan, i)}]

\* parse_call takes a body only where it is one atom that writes a valid call.
LEMMA ParsedCall ==
  ASSUME NEW body, NEW policy, parse_call(body, policy) # Malformed
  PROVE  LET c == parse_call(body, policy)
         IN  /\ Len(body) = 1 /\ body[1] \in DOMAIN Written
             /\ c.name = Written[body[1]].name /\ c.name \in policy.tools
             /\ Required[c.name] \subseteq DOMAIN c.args
             /\ \A key \in DOMAIN c.args : c.args[key] = Schema[c.name][key]
<1> DEFINE b == Written[body[1]]
           a == Arguments(b, policy.protocol)
<1>1. Len(body) = 1 /\ body[1] \in DOMAIN Written
  BY DEF parse_call
<1>2. /\ b.name \in policy.tools /\ Valid(b.name, a)
      /\ parse_call(body, policy) = [is |-> "call", name |-> b.name, args |-> a]
  BY <1>1 DEF parse_call
<1> HIDE DEF b, a
<1>3. parse_call(body, policy).name = b.name /\ parse_call(body, policy).args = a
  BY <1>2
<1> QED BY <1>1, <1>2, <1>3 DEF Valid, b

\* The atoms that a fence or a marker is.
LEMMA EndIs ==
  ASSUME NEW text \in Text, NEW i \in 1 .. Len(text), EndOfCall(text, i) # 0
  PROVE  /\ EndOfCall(text, i) \in (i + 1) .. Len(text)
         /\ text[EndOfCall(text, i)] = "</tool_call>"
<1> DEFINE ends == {j \in (i + 1) .. Len(text) : text[j] = "</tool_call>"}
           first == CHOOSE k \in ends : \A l \in ends : k <= l
<1>1. EndOfCall(text, i) = first /\ ends # {}
  BY DEF EndOfCall
<1>2. ends \in SUBSET Nat
  <2>1. Len(text) \in Nat
    BY LenProperties DEF Text
  <2> QED BY <2>1
<1> HIDE DEF ends
<1>3. \E k \in ends : \A l \in ends : k <= l
  BY <1>1, <1>2, Least
<1>4. first \in ends
  BY <1>3
<1> QED BY <1>1, <1>4 DEF ends

\* What one more atom changes of Plain and Opens.
LEMMA PlainOne ==
  ASSUME NEW text, NEW i \in Nat \ {0}
  PROVE  Plain(text, i) <=> Plain(text, i - 1) /\ text[i] \notin Fences \cup {"<tool_call>"}
<1>1. 1 .. i = (1 .. i - 1) \cup {i}
  OBVIOUS
<1> QED BY <1>1 DEF Plain

\* A fence open at a place was open just before it, or opens there.
LEMMA OpensOne ==
  ASSUME NEW text, NEW i \in Nat \ {0}, NEW a \in 1 .. i, Opens(text, a, i)
  PROVE  /\ text[a] \in Fences
         /\ a = i => Plain(text, i - 1)
         /\ a # i => a \in 1 .. i - 1 /\ Opens(text, a, i - 1) /\ text[i] # text[a]
<1>1. CASE a = i
  BY <1>1 DEF Opens
<1>2. CASE a # i
  <2>1. a \in 1 .. i - 1 /\ i \in a + 1 .. i /\ \A b \in a + 1 .. i - 1 : b \in a + 1 .. i
    BY <1>2
  <2> QED BY <1>2, <2>1 DEF Opens
<1> QED BY <1>1, <1>2

\* InFence of a text, by its opening atom.
LEMMA InFenceIs ==
  ASSUME NEW text, NEW i
  PROVE  InFence(text, i) <=> \E a \in 1 .. i - 1 : Opens(text, a, i - 1)
BY DEF InFence, Opens, Plain

\* A whole call, met outside a fence.
LEMMA MetStep ==
  ASSUME NEW text \in Text, NEW policy, NEW i \in 1 .. Len(text), NEW scan \in Scanning(text, policy),
         ScanOk(text, scan, i - 1), scan.ok, scan.pos <= i, scan.fence = "none",
         text[i] = "<tool_call>", EndOfCall(text, i) # 0,
         NEW call, call = parse_call(SubSeq(text, i + 1, EndOfCall(text, i) - 1), policy), call # Malformed
  PROVE  LET next == Met(scan, SubSeq(text, scan.pos, i - 1), call, EndOfCall(text, i))
         IN  next \in Scanning(text, policy) /\ ScanOk(text, next, i)
<1> DEFINE end == EndOfCall(text, i)
           between == SubSeq(text, scan.pos, i - 1)
           body == SubSeq(text, i + 1, end - 1)
           next == Met(scan, between, call, end)
           calls == Append(scan.calls, call)
           content == scan.content \o between
<1>0. Len(text) \in Nat /\ i \in Nat \ {0} /\ i <= Len(text)
  <2>1. Len(text) \in Nat
    BY LenProperties DEF Text
  <2> QED BY <2>1
<1>1. /\ scan.pos \in Nat \ {0} /\ scan.calls \in Seq(CallsIn(text, policy)) /\ scan.content \in Text
  BY DEF Scanning
<1>2. between \in Text
  <2>1. scan.pos >= 1 /\ i - 1 \in Nat /\ i - 1 <= Len(text) /\ scan.pos \in Nat
    BY <1>0, <1>1
  <2> QED BY <2>1, Part
<1>3. end \in (i + 1) .. Len(text) /\ text[end] = "</tool_call>"
  BY EndIs
<1> HIDE DEF end
<1>4. end = i + 2 /\ text[i + 1] = body[1] /\ body[1] \in DOMAIN Written
  <2>1. Len(body) = 1 /\ body[1] \in DOMAIN Written
    <3> HIDE DEF body
    <3>1. call = parse_call(body, policy)
      BY DEF body, end
    <3> QED BY <3>1, ParsedCall
  <2>2. /\ Len(body) = IF i + 1 <= end - 1 THEN end - 1 - (i + 1) + 1 ELSE 0
        /\ \A k \in 1 .. Len(body) : body[k] = text[i + 1 + k - 1]
    <3>1. i + 1 \in Nat /\ end - 1 \in Nat /\ i + 1 >= 1 /\ end - 1 <= Len(text)
      BY <1>0, <1>3
    <3> QED BY <3>1, Part
  <2> HIDE DEF body
  <2>3. end = i + 2
    <3> DEFINE l == Len(body)
    <3>1. l = 1 /\ l = IF i + 1 <= end - 1 THEN end - 1 - (i + 1) + 1 ELSE 0
      BY <2>1, <2>2
    <3>2. end \in Int /\ i \in Int
      BY <1>0, <1>3
    <3> HIDE DEF l
    <3> QED BY <3>1, <3>2
  <2>4. 1 \in 1 .. Len(body) /\ i + 1 + 1 - 1 = i + 1
    BY <1>0, <2>1
  <2> QED BY <2>1, <2>2, <2>3, <2>4
<1>5. ~InFence(text, i)
  <2> SUFFICES ASSUME NEW a \in 1 .. i - 1, Opens(text, a, i - 1) PROVE FALSE
    BY InFenceIs
  <2>1. scan.fence = text[a] /\ text[a] \in Fences
    BY DEF ScanOk, Opens
  <2> QED BY <2>1 DEF Fences
<1>6. WholeAt(text, policy, call, i)
  <2>1. /\ call.name = Written[body[1]].name /\ call.name \in policy.tools
        /\ Required[call.name] \subseteq DOMAIN call.args
        /\ \A key \in DOMAIN call.args : call.args[key] = Schema[call.name][key]
    <3> HIDE DEF body
    <3>1. call = parse_call(body, policy)
      BY DEF body, end
    <3> QED BY <3>1, ParsedCall
  <2>2. i + 2 <= Len(text) /\ text[i + 2] = "</tool_call>" /\ text[i + 1] \in DOMAIN Written
    BY <1>3, <1>4
  <2> HIDE DEF body
  <2> QED BY <1>4, <1>5, <2>1, <2>2 DEF WholeAt
<1>7. call \in CallsIn(text, policy)
  <2>1. call \in Parsed(text, policy)
    <3>1. end - 1 + 1 = end /\ i \in Nat /\ end \in Nat
      BY <1>0, <1>3
    <3> QED BY <3>1 DEF Parsed, end
  <2>2. i \in DOMAIN text
    BY LenProperties DEF Text
  <2> QED BY <1>6, <2>1, <2>2 DEF CallsIn
<1>8. calls \in Seq(CallsIn(text, policy))
  BY <1>1, <1>7, AppendProperties
<1>9. content \in Text
  <2> HIDE DEF between
  <2> QED BY <1>1, <1>2, Concat
<1>10. next = [ok |-> TRUE, pos |-> end + 1, fence |-> "none", calls |-> calls, content |-> content]
  BY DEF Met
<1>11. end + 1 \in Nat \ {0}
  BY <1>0, <1>3
<1> HIDE DEF calls, content, between, body
<1>12. next \in Scanning(text, policy)
  <2> HIDE DEF next
  <2> QED BY <1>8, <1>9, <1>10, <1>11 DEF Scanning
<1>13. ScanOk(text, next, i)
  <2>1. ~Plain(text, i)
    BY <1>0, PlainOne
  <2>2. ASSUME NEW a \in 1 .. i, Opens(text, a, i) PROVE FALSE
    <3>1. text[a] \in Fences /\ (a # i => a \in 1 .. i - 1 /\ Opens(text, a, i - 1))
      BY <1>0, <2>2, OpensOne
    <3>2. a # i
      BY <3>1 DEF Fences
    <3> QED BY <1>5, <3>1, <3>2, InFenceIs
  <2> QED BY <2>1, <2>2 DEF ScanOk
<1> QED BY <1>12, <1>13 DEF end, between

\* One turn of the loop.
LEMMA MarkerStep ==
  ASSUME NEW text \in Text, NEW policy, NEW i \in 1 .. Len(text), NEW scan \in Scanning(text, policy),
         ScanOk(text, scan, i - 1)
  PROVE  Marker(text, policy, scan, i) \in Scanning(text, policy)
         /\ ScanOk(text, Marker(text, policy, scan, i), i)
<1> DEFINE atom == text[i]
           between == SubSeq(text, scan.pos, i - 1)
           end == EndOfCall(text, i)
           call == parse_call(SubSeq(text, i + 1, end - 1), policy)
           next == Marker(text, policy, scan, i)
           bad == atom = "</tool_call>" \/ end = 0 \/ (scan.calls # <<>> /\ ~IsBlank(between))
                    \/ call = Malformed
<1>0. i \in Nat \ {0} /\ Len(text) \in Nat
  <2>1. Len(text) \in Nat
    BY LenProperties DEF Text
  <2> QED BY <2>1
<1>1. /\ i < scan.pos \/ ~scan.ok => next = scan
      /\ ~(i < scan.pos \/ ~scan.ok) =>
           /\ atom \in Fences => next = Fenced(scan, atom)
           /\ atom \notin Fences =>
                /\ scan.fence # "none" \/ atom \notin {"<tool_call>", "</tool_call>"} => next = scan
                /\ ~(scan.fence # "none" \/ atom \notin {"<tool_call>", "</tool_call>"}) =>
                     /\ bad => next = [scan EXCEPT !.ok = FALSE]
                     /\ ~bad => next = Met(scan, between, call, end)
  BY Zenon DEF Marker
<1> HIDE DEF next, between, end, call
<1>2. scan.pos \in Nat \ {0} /\ scan.ok \in BOOLEAN /\ scan.fence \in Fences \cup {"none"}
  BY DEF Scanning
<1>3. CASE i < scan.pos \/ ~scan.ok
  <2>1. next = scan
    BY <1>1, <1>3
  <2>2. ScanOk(text, scan, i)
    <3> SUFFICES ASSUME scan.ok PROVE ScanOk(text, scan, i)
      BY DEF ScanOk
    <3>1. scan.pos # 1
      BY <1>0, <1>2, <1>3
    <3>2. ~Plain(text, i)
      BY <1>0, <3>1, PlainOne DEF ScanOk
    <3>3. ASSUME NEW a \in 1 .. i, Opens(text, a, i) PROVE FALSE
      BY <1>0, <3>1, <3>3, OpensOne DEF ScanOk
    <3> QED BY <3>2, <3>3 DEF ScanOk
  <2> QED BY <2>1, <2>2 DEF next
<1>4. CASE ~(i < scan.pos \/ ~scan.ok) /\ atom \in Fences
  <2> DEFINE f == IF scan.fence = "none" THEN atom ELSE IF scan.fence = atom THEN "none" ELSE scan.fence
  <2>1. next = [scan EXCEPT !.fence = f]
    BY <1>1, <1>4, Zenon DEF Fenced
  <2>2. f \in Fences \cup {"none"}
    BY <1>2, <1>4
  <2>3. ASSUME NEW a \in 1 .. i, Opens(text, a, i) PROVE f = text[a] /\ scan.pos = 1
    <3>1. CASE a = i
      <4>1. scan.fence = "none" /\ scan.pos = 1
        BY <1>0, <1>4, <2>3, <3>1, OpensOne DEF ScanOk
      <4> QED BY <3>1, <4>1
    <3>2. CASE a # i
      <4>1. /\ text[a] \in Fences /\ a \in 1 .. i - 1 /\ Opens(text, a, i - 1) /\ text[i] # text[a]
        BY <1>0, <2>3, <3>2, OpensOne
      <4>2. scan.fence = text[a] /\ scan.pos = 1
        BY <1>4, <4>1 DEF ScanOk
      <4>3. text[a] # "none"
        BY <4>1 DEF Fences
      <4> QED BY <4>1, <4>2, <4>3
    <3> QED BY <3>1, <3>2
  <2>4. ~Plain(text, i)
    BY <1>0, <1>4, PlainOne
  <2> HIDE DEF f
  <2>5. next \in Scanning(text, policy) /\ next.fence = f /\ next.pos = scan.pos
    BY <2>1, <2>2 DEF Scanning
  <2>6. ScanOk(text, next, i)
    BY <2>3, <2>4, <2>5 DEF ScanOk
  <2> QED BY <2>5, <2>6 DEF next
<1>5. CASE /\ ~(i < scan.pos \/ ~scan.ok) /\ atom \notin Fences
           /\ scan.fence # "none" \/ atom \notin {"<tool_call>", "</tool_call>"}
  <2>1. next = scan
    BY <1>1, <1>5
  <2>2. ScanOk(text, scan, i)
    <3>1. Plain(text, i) => Plain(text, i - 1)
      BY <1>0, PlainOne
    <3>2. ASSUME NEW a \in 1 .. i, Opens(text, a, i)
          PROVE  a \in 1 .. i - 1 /\ Opens(text, a, i - 1)
      <4>1. a # i
        BY <1>0, <1>5, <3>2, OpensOne
      <4> QED BY <1>0, <3>2, <4>1, OpensOne
    <3> QED BY <3>1, <3>2 DEF ScanOk
  <2> QED BY <2>1, <2>2 DEF next
<1>6. CASE /\ ~(i < scan.pos \/ ~scan.ok) /\ atom \notin Fences
           /\ ~(scan.fence # "none" \/ atom \notin {"<tool_call>", "</tool_call>"}) /\ bad
  <2>1. next = [scan EXCEPT !.ok = FALSE]
    BY <1>1, <1>6
  <2>2. next \in Scanning(text, policy) /\ next.ok = FALSE
    BY <2>1 DEF Scanning
  <2> QED BY <2>2 DEF ScanOk, next
<1>7. CASE /\ ~(i < scan.pos \/ ~scan.ok) /\ atom \notin Fences
           /\ ~(scan.fence # "none" \/ atom \notin {"<tool_call>", "</tool_call>"}) /\ ~bad
  <2>1. next = Met(scan, between, call, end)
    BY <1>1, <1>7
  <2>2. /\ scan.ok /\ scan.pos <= i /\ scan.fence = "none" /\ text[i] = "<tool_call>"
        /\ end # 0 /\ call # Malformed
    BY <1>0, <1>2, <1>7
  <2>3. call = parse_call(SubSeq(text, i + 1, end - 1), policy) /\ end = EndOfCall(text, i)
        /\ between = SubSeq(text, scan.pos, i - 1)
    BY DEF call, end, between
  <2> HIDE DEF atom, bad
  <2>4. next \in Scanning(text, policy) /\ ScanOk(text, next, i)
    BY <2>1, <2>2, <2>3, MetStep
  <2> QED BY <2>4 DEF next
<1> QED BY <1>3, <1>4, <1>5, <1>6, <1>7

\* The loop of _parse_response, as the recursive function of its turns.
IsScan(text, policy, f) ==
  f = [i \in 0 .. Len(text) |-> IF i = 0 THEN Unread ELSE Marker(text, policy, f[i - 1], i)]

\* The whole loop of _parse_response keeps what each of its turns keeps.
LEMMA ScanIs ==
  ASSUME NEW text \in Text, NEW policy
  PROVE  Scan(text, policy) \in Scanning(text, policy)
<1> DEFINE N == Len(text)
           I == Scanned(text, policy)
           go == [p \in UNION {{<<n, x>> : x \in I[n]} : n \in 0 .. N} |-> Marker(text, policy, p[2], p[1] + 1)]
           w == CHOOSE f : IsScan(text, policy, f)
<1>0. N \in Nat
  BY LenProperties DEF Text
<1>1. ASSUME NEW n \in 0 .. N, NEW x \in I[n] PROVE go[<<n, x>>] = Marker(text, policy, x, n + 1)
  <2>1. <<n, x>> \in UNION {{<<m, y>> : y \in I[m]} : m \in 0 .. N}
    OBVIOUS
  <2> QED BY <2>1
<1> HIDE DEF go
<1>2. KeepsUpto(N, I, Unread, go)
  <2>1. Unread \in I[0]
    <3>1. Unread \in Scanning(text, policy)
      BY NothingAdded, EmptySeq DEF Unread, Scanning
    <3>2. ScanOk(text, Unread, 0)
      BY DEF ScanOk, Unread
    <3> QED BY <1>0, <3>1, <3>2 DEF Scanned
  <2>2. ASSUME NEW n \in 0 .. N - 1, NEW x \in I[n] PROVE go[<<n, x>>] \in I[n + 1]
    <3>1. n + 1 \in 1 .. N /\ n \in 0 .. N /\ n + 1 \in 0 .. N /\ n + 1 - 1 = n
      BY <1>0
    <3>2. x \in Scanning(text, policy) /\ ScanOk(text, x, n + 1 - 1)
      BY <3>1 DEF Scanned
    <3>3. /\ Marker(text, policy, x, n + 1) \in Scanning(text, policy)
          /\ ScanOk(text, Marker(text, policy, x, n + 1), n + 1)
      BY <3>1, <3>2, MarkerStep
    <3>4. go[<<n, x>>] = Marker(text, policy, x, n + 1)
      BY <1>1, <3>1
    <3> HIDE DEF N
    <3> QED BY <3>1, <3>3, <3>4 DEF Scanned, N
  <2> QED BY <2>1, <2>2 DEF KeepsUpto
<1> HIDE DEF I
<1>3. PICK f : /\ f = [n \in 0 .. N |-> f[n]] /\ f[0] = Unread
               /\ \A n \in 0 .. N : f[n] \in I[n]
               /\ \A n \in 0 .. N - 1 : f[n + 1] = go[<<n, f[n]>>]
  <2> HIDE DEF N
  <2> QED BY <1>0, <1>2, BoundedRecursion
<1>4. IsScan(text, policy, f)
  <2>1. ASSUME NEW n \in 0 .. N PROVE f[n] = IF n = 0 THEN Unread ELSE Marker(text, policy, f[n - 1], n)
    <3>1. CASE n = 0
      BY <1>3, <3>1
    <3>2. CASE n # 0
      <4>1. n - 1 \in 0 .. N - 1 /\ n - 1 \in 0 .. N /\ n - 1 + 1 = n
        BY <1>0, <3>2
      <4>2. f[n - 1 + 1] = go[<<n - 1, f[n - 1]>>] /\ f[n - 1] \in I[n - 1]
        BY <1>3, <4>1
      <4>3. go[<<n - 1, f[n - 1]>>] = Marker(text, policy, f[n - 1], n - 1 + 1)
        BY <1>1, <4>1, <4>2
      <4> QED BY <3>2, <4>1, <4>2, <4>3
    <3> QED BY <3>1, <3>2
  <2>2. f = [n \in 0 .. N |-> f[n]]
    BY <1>3
  <2>3. [n \in 0 .. N |-> f[n]] = [n \in 0 .. N |-> IF n = 0 THEN Unread ELSE Marker(text, policy, f[n - 1], n)]
    BY <2>1
  <2> HIDE DEF N
  <2>4. f = [n \in 0 .. N |-> IF n = 0 THEN Unread ELSE Marker(text, policy, f[n - 1], n)]
    BY <2>2, <2>3, Zenon
  <2> QED BY <2>4 DEF IsScan, N
<1>5. IsScan(text, policy, w)
  BY <1>4
<1>6. Scan(text, policy) = w[N]
  BY DEF Scan, IsScan
<1> HIDE DEF w
<1> DEFINE S == {n \in Nat : n <= N => w[n] \in I[n]}
<1>7. Nat \subseteq S
  <2>1. 0 \in S
    <3>1. w[0] = Unread
      BY <1>0, <1>5 DEF IsScan
    <3> QED BY <1>2, <3>1 DEF KeepsUpto
  <2>2. ASSUME NEW n \in Nat, n \in S PROVE n + 1 \in S
    <3> SUFFICES ASSUME n + 1 <= N PROVE w[n + 1] \in I[n + 1]
      OBVIOUS
    <3>1. n \in 0 .. N - 1 /\ n \in 0 .. N /\ n + 1 \in 0 .. N /\ n + 1 # 0 /\ n + 1 - 1 = n
      BY <1>0
    <3>2. w[n] \in I[n]
      BY <2>2, <3>1
    <3>3. w[n + 1] = Marker(text, policy, w[n], n + 1)
      BY <1>5, <3>1 DEF IsScan
    <3> QED BY <1>1, <1>2, <3>1, <3>2, <3>3 DEF KeepsUpto
  <2> HIDE DEF S
  <2> QED BY <2>1, <2>2, NatSetInduction
<1>8. w[N] \in I[N]
  BY <1>0, <1>7
<1> QED BY <1>0, <1>6, <1>8 DEF I, Scanned

ToolChoices == {"auto", "none", "required", "f", "g"}

\* The calls that went out, against the text they were read from.
Delivered(policy, text, calls, end) ==
  /\ calls # <<>> => end = "tool_calls" /\ policy.choice # "none" /\ (policy.parallel \/ Len(calls) = 1)
  /\ calls \in Seq(CallsIn(text, policy))
  /\ \A k \in DOMAIN calls : policy.choice \in {"auto", "required", calls[k].name}

\* Where calls are looked for.
Searched(j, text) == IF j.recognise THEN Reasoned(text, j.open).visible ELSE text

Reading(j, text, out, end) ==
  /\ text \in Text /\ j.open \in BOOLEAN /\ j.policy.choice \in ToolChoices
  /\ end \in {"none", "invalid"} => out = NothingSent
  /\ end \notin {"none", "invalid"} => Delivered(j.policy, Searched(j, text), out.calls, end)

ToolInv == job.policy # NoPolicy => Reading(job, raw, sent, final)

\* The text searched for calls is a text, and the one EndTools parses.
LEMMA SearchedText ==
  ASSUME NEW j, NEW text \in Text, j.open \in BOOLEAN
  PROVE  /\ Searched(j, text) \in Text
         /\ (IF j.recognise THEN split_complete(text, j.open)
             ELSE [reasoning |-> <<>>, visible |-> text]).visible = Searched(j, text)
<1>1. CASE j.recognise
  BY <1>1, SplitComplete DEF Searched
<1>2. CASE ~j.recognise
  BY <1>2 DEF Searched
<1> QED BY <1>1, <1>2

\* What the parser lets through.
LEMMA ParsedReply ==
  ASSUME NEW text \in Text, NEW policy, policy.choice \in ToolChoices, NEW finish,
         NEW parsed, parsed = parse_response(text, policy, finish), parsed # Unusable
  PROVE  Delivered(policy, text, parsed.calls, IF parsed.calls = <<>> THEN finish ELSE "tool_calls")
<1> DEFINE scan == Scan(text, policy)
           calls == scan.calls
<1>1. scan \in Scanning(text, policy)
  BY ScanIs
<1>2. calls \in Seq(CallsIn(text, policy))
  BY <1>1 DEF Scanning
<1>3. /\ Allowed(calls, policy, finish)
      /\ parsed.calls = calls
  <2>1. parsed = (IF calls = <<>> THEN [is |-> "reply", visible |-> text, calls |-> <<>>]
                  ELSE [is |-> "reply", visible |-> Trimmed(scan.content), calls |-> calls])
        /\ Allowed(calls, policy, finish)
    BY DEF parse_response
  <2> HIDE DEF calls, scan
  <2> QED BY <2>1
<1> HIDE DEF scan, calls
<1>4. ASSUME calls # <<>>
      PROVE  policy.choice # "none" /\ (policy.parallel \/ Len(calls) = 1)
  <2>1. Len(calls) \in Nat /\ Len(calls) # 0
    BY <1>2, <1>4, LenProperties, EmptySeq
  <2>2. policy.choice # "none" /\ (policy.parallel \/ Len(calls) <= 1)
    BY <1>3, <1>4, Zenon DEF Allowed
  <2>3. Len(calls) <= 1 => Len(calls) = 1
    <3> DEFINE l == Len(calls)
    <3>1. l \in Nat /\ l # 0
      BY <2>1
    <3> HIDE DEF l
    <3>2. l <= 1 => l = 1
      BY <3>1
    <3> QED BY <3>2 DEF l
  <2> QED BY <2>2, <2>3, Zenon
<1>5. ASSUME NEW k \in DOMAIN calls
      PROVE  policy.choice \in {"auto", "required", calls[k].name}
  <2>1. calls # <<>>
    BY EmptySeq
  <2>2. policy.choice # "none"
    BY <1>4, <2>1
  <2>3. policy.choice \in {"f", "g"} => policy.choice \in DOMAIN Schema
    BY DEF Schema
  <2>4. policy.choice \in {"f", "g"} => calls[k].name = policy.choice
    BY <1>3, <2>3 DEF Allowed
  <2> QED BY <2>2, <2>4 DEF ToolChoices
<1> QED BY <1>2, <1>3, <1>4, <1>5 DEF Delivered

\* A reply that starts has no call.
LEMMA ToolsStart ==
  ASSUME NEW j, Start(j), j.policy # NoPolicy => j.open \in BOOLEAN /\ j.policy.choice \in ToolChoices
  PROVE  ToolInv'
BY NothingAdded DEF ToolInv, Start, Reading

\* A reply with tools sends nothing before its end.
LEMMA ToolsEmit ==
  ASSUME ToolInv, job.policy # NoPolicy, NEW f \in ToolFragments, Emit(f)
  PROVE  ToolInv'
<1>1. job' = job /\ raw' = raw \o f /\ sent' = sent /\ final' = "none" /\ final = "none"
  BY DEF Emit
<1>2. f \in Text
  BY ReplyAssumption DEF Text, Atom
<1>3. raw' \in Text
  BY <1>1, <1>2, Concat DEF ToolInv, Reading
<1> QED BY <1>1, <1>3 DEF ToolInv, Reading

\* At the end the calls found are sent, or nothing.
LEMMA ToolsEnd ==
  ASSUME ToolInv, job.policy # NoPolicy, End
  PROVE  ToolInv'
<1> DEFINE text == Searched(job, raw)
           s == IF job.recognise THEN split_complete(raw, job.open) ELSE [reasoning |-> <<>>, visible |-> raw]
<1>1. PICK finish \in {"stop"} \cup (IF tokens = job.limit THEN {"length"} ELSE {}) :
        EndText(finish) \/ EndTools(finish)
  BY DEF End
<1>2. final = "none" /\ job' = job /\ raw' = raw /\ EndTools(finish)
  BY <1>1 DEF End, EndText
<1>3. raw \in Text /\ job.open \in BOOLEAN /\ job.policy.choice \in ToolChoices /\ sent = NothingSent
  BY <1>2 DEF ToolInv, Reading
<1>4. text \in Text /\ s.visible = text
  BY <1>3, SearchedText
<1> DEFINE parsed == parse_response(text, job.policy, finish)
<1>5. parsed = parse_response(s.visible, job.policy, finish)
  BY <1>4
<1>6. CASE parsed = Unusable
  <2>1. final' = "invalid" /\ sent' = sent
    BY <1>2, <1>4, <1>6 DEF EndTools
  <2> QED BY <1>2, <1>3, <2>1 DEF ToolInv, Reading
<1>7. CASE parsed # Unusable
  <2>1. final' = (IF parsed.calls = <<>> THEN finish ELSE "tool_calls") /\ sent'.calls = parsed.calls
    <3> DEFINE r == IF s.reasoning # <<>> /\ ~job.split THEN <<>> ELSE s.reasoning
               v == (IF s.reasoning # <<>> /\ ~job.split THEN Open \o s.reasoning \o Close ELSE <<>>) \o parsed.visible
    <3>1. /\ sent' = [reasoning |-> r, visible |-> v, calls |-> parsed.calls]
          /\ final' = (IF parsed.calls = <<>> THEN finish ELSE "tool_calls")
      <4> HIDE DEF text
      <4> QED BY <1>2, <1>4, <1>7 DEF EndTools
    <3> HIDE DEF r, v, parsed
    <3> QED BY <3>1
  <2>2. Delivered(job.policy, text, parsed.calls, IF parsed.calls = <<>> THEN finish ELSE "tool_calls")
    <3> HIDE DEF text
    <3>1. parsed = parse_response(text, job.policy, finish)
      OBVIOUS
    <3> HIDE DEF parsed
    <3> QED BY <1>3, <1>4, <1>7, <3>1, ParsedReply
  <2>3. final' \notin {"none", "invalid"}
    BY <2>1
  <2>4. Delivered(job'.policy, Searched(job', raw'), sent'.calls, final')
    BY <1>2, <2>1, <2>2
  <2> HIDE DEF text, parsed
  <2> QED BY <1>2, <1>3, <2>3, <2>4 DEF ToolInv, Reading
<1> QED BY <1>6, <1>7

\* Where a chat may ask for a tool, it names one that there is.
LEMMA ChoiceOk ==
  ASSUME NEW b, ToolsOk(b), ToolChoiceOk(b)
  PROVE  ToolChoice(b) \in ToolChoices
BY DEF ToolsOk, ToolChoiceOk, ToolChoice, ToolChoices

\* Every step keeps what a reply with tools has sent.
LEMMA ToolsStep ==
  ASSUME ToolInv, [Next]_chat
  PROVE  ToolInv'
<1>1. CASE UNCHANGED chat
  BY <1>1 DEF ToolInv, chat, reply, dialogue
<1>2. CASE \E m \in MadeUp : Write(m)
  BY <1>2 DEF ToolInv, Write, reply
<1>3. ASSUME NEW b \in Bodies, Post(b) PROVE ToolInv'
  <2>1. CASE UNCHANGED reply
    BY <2>1 DEF ToolInv, reply
  <2>2. CASE BodyOk(b) /\ \E open \in MayOpen : Start(Job(b, open))
    <3>1. PICK open \in MayOpen : Start(Job(b, open))
      BY <2>2
    <3>2. open \in BOOLEAN
      BY DEF MayOpen
    <3>3. Job(b, open).open \in BOOLEAN /\ Job(b, open).policy = Policy(b)
      BY <3>2 DEF Job
    <3>4. Policy(b) # NoPolicy => Policy(b).choice \in ToolChoices
      BY <2>2, ChoiceOk DEF Policy, BodyOk
    <3> HIDE DEF Job
    <3> QED BY <3>1, <3>3, <3>4, ToolsStart
  <2> QED BY <1>3, <2>1, <2>2 DEF Post, Refuse
<1>4. CASE Generate
  <2>1. CASE job.policy # NoPolicy
    <3>1. PICK f \in ToolFragments : Emit(f)
      BY <1>4, <2>1 DEF Generate
    <3> QED BY <2>1, <3>1, ToolsEmit
  <2>2. CASE job.policy = NoPolicy
    <3>1. job' = job
      BY <1>4 DEF Generate, Emit
    <3> QED BY <2>2, <3>1 DEF ToolInv
  <2> QED BY <2>1, <2>2
<1>5. CASE Conclude
  <2>1. CASE job.policy # NoPolicy
    BY <1>5, <2>1, ToolsEnd DEF Conclude
  <2>2. CASE job.policy = NoPolicy
    <3>1. job' = job
      BY <1>5 DEF Conclude, End
    <3> QED BY <2>2, <3>1 DEF ToolInv
  <2> QED BY <2>1, <2>2
<1>6. CASE Keep
  <2>1. Start([policy |-> NoPolicy, split |-> FALSE, open |-> FALSE])
    BY <1>6 DEF Keep
  <2> QED BY <2>1, ToolsStart
<1> QED BY <1>1, <1>2, <1>3, <1>4, <1>5, <1>6 DEF Next

\* Such calls are whole.
LEMMA ToolsImply ==
  ASSUME ToolInv
  PROVE  OnlyWholeCalls
<1> DEFINE text == IF job.recognise THEN Reasoned(raw, job.open).visible ELSE raw
           Is(k, i) == /\ i + 2 <= Len(text) /\ text[i] = "<tool_call>" /\ text[i + 2] = "</tool_call>"
                       /\ text[i + 1] \in DOMAIN Written /\ Written[text[i + 1]].name = sent.calls[k].name
                       /\ ~InFence(text, i)
<1> SUFFICES ASSUME job.policy # NoPolicy
             PROVE  /\ final \in {"none", "invalid"} => sent = NothingSent
                    /\ sent.calls # <<>> => /\ final = "tool_calls" /\ job.policy.choice # "none"
                                            /\ job.policy.parallel \/ Len(sent.calls) = 1
                    /\ \A k \in DOMAIN sent.calls :
                         LET call == sent.calls[k] IN
                         /\ call.name \in job.policy.tools
                         /\ job.policy.choice \in {"auto", "required", call.name}
                         /\ Required[call.name] \subseteq DOMAIN call.args
                         /\ \A key \in DOMAIN call.args : call.args[key] = Schema[call.name][key]
                         /\ \E i \in DOMAIN text : Is(k, i)
  BY DEF OnlyWholeCalls
<1>1. Searched(job, raw) = text
  BY DEF Searched
<1> HIDE DEF text
<1>2. CASE final \in {"none", "invalid"}
  <2>1. sent = NothingSent /\ sent.calls = <<>>
    BY <1>2 DEF ToolInv, Reading, NothingSent
  <2> QED BY <2>1
<1>3. CASE final \notin {"none", "invalid"}
  <2>1. Delivered(job.policy, text, sent.calls, final)
    BY <1>1, <1>3 DEF ToolInv, Reading
  <2>2. ASSUME NEW k \in DOMAIN sent.calls
        PROVE  LET call == sent.calls[k] IN
               /\ call.name \in job.policy.tools
               /\ job.policy.choice \in {"auto", "required", call.name}
               /\ Required[call.name] \subseteq DOMAIN call.args
               /\ \A key \in DOMAIN call.args : call.args[key] = Schema[call.name][key]
               /\ \E i \in DOMAIN text : Is(k, i)
    <3>1. sent.calls[k] \in CallsIn(text, job.policy)
      BY <2>1, ElementOfSeq, LenProperties DEF Delivered
    <3>2. PICK i \in DOMAIN text : WholeAt(text, job.policy, sent.calls[k], i)
      BY <3>1 DEF CallsIn
    <3>3. Is(k, i)
      BY <3>2 DEF WholeAt
    <3>4. job.policy.choice \in {"auto", "required", sent.calls[k].name}
      BY <2>1 DEF Delivered
    <3> QED BY <3>2, <3>3, <3>4 DEF WholeAt
  <2> QED BY <1>3, <2>1, <2>2 DEF Delivered
<1> QED BY <1>2, <1>3

\* A call reaches the client only whole.
THEOREM DialogueWholeCalls == Spec => []OnlyWholeCalls
<1>1. Init => ToolInv
  BY DEF Init, ReplyInit, ToolInv
<1>2. ToolInv /\ [Next]_chat => ToolInv'
  BY ToolsStep
<1>3. ToolInv => OnlyWholeCalls
  BY ToolsImply
<1> QED BY <1>1, <1>2, <1>3, PTL DEF Spec

-----------------------------------------------------------------------------
(* The controls of a request.                                              *)

\* A sequence, whatever it holds.
IsSequence(s) == s \in Seq({s[i] : i \in DOMAIN s})

\* A sequence and one more.
LEMMA AppendIs ==
  ASSUME NEW s, IsSequence(s), NEW m
  PROVE  /\ IsSequence(Append(s, m)) /\ Len(s) \in Nat
         /\ DOMAIN s = 1 .. Len(s) /\ DOMAIN Append(s, m) = 1 .. Len(s) + 1
         /\ Len(Append(s, m)) = Len(s) + 1
         /\ \A i \in 1 .. Len(s) : Append(s, m)[i] = s[i]
         /\ Append(s, m)[Len(s) + 1] = m
<1> DEFINE S == {s[i] : i \in DOMAIN s} \cup {m}
           t == Append(s, m)
<1>1. s \in Seq(S) /\ m \in S
  BY DEF IsSequence
<1>2. /\ t \in Seq(S) /\ Len(t) = Len(s) + 1 /\ Len(s) \in Nat
      /\ \A i \in 1 .. Len(s) : t[i] = s[i]
      /\ t[Len(s) + 1] = m
      /\ DOMAIN s = 1 .. Len(s)
  <2> HIDE DEF S
  <2> QED BY <1>1, AppendProperties, LenProperties
<1>3. DOMAIN t = 1 .. Len(s) + 1
  <2> HIDE DEF S, t
  <2> QED BY <1>2, LenProperties
<1>4. IsSequence(t)
  <2>1. \A i \in 1 .. Len(s) + 1 : t[i] \in {t[k] : k \in DOMAIN t}
    BY <1>3
  <2> DEFINE R == {t[k] : k \in DOMAIN t}
  <2>2. t \in Seq(R)
    <3> HIDE DEF R
    <3>1. t = [i \in 1 .. Len(s) + 1 |-> t[i]]
      <4> HIDE DEF S, t
      <4> QED BY <1>2, <1>3
    <3> HIDE DEF t
    <3>2. t \in [1 .. Len(s) + 1 -> R]
      BY <2>1, <3>1 DEF R
    <3> QED BY <1>2, <3>2
  <2> QED BY <2>2 DEF IsSequence
<1> HIDE DEF t
<1> QED BY <1>2, <1>3, <1>4 DEF t

AskedOk(b, j) == b \in Bodies /\ BodyOk(b) /\ Preparable(b) /\ \E open : j = Job(b, open)

AskedInv == IsSequence(conv) /\ (asked # NoBody => verdict = "accepted" /\ AskedOk(asked, job))

\* Steps of the reply alone change nothing the controls depend on.
LEMMA AskedSame ==
  ASSUME AskedInv, asked' = asked, verdict' = verdict, UNCHANGED <<server, conv>>, job' = job
  PROVE  AskedInv'
<1>1. Preparable(asked)' = Preparable(asked) /\ IsSequence(conv)' = IsSequence(conv)
  BY DEF Preparable, Params, Decodable, PromptTokens, Available, IsSequence
<1>2. ASSUME NEW open PROVE Job(asked, open)' = Job(asked, open)
  BY DEF Job, Policy, UsesTools, Split, Thinking, Recognised, Available, PromptTokens, Params
<1>3. BodyOk(asked)' = BodyOk(asked)
  OBVIOUS
<1> QED BY <1>1, <1>2, <1>3 DEF AskedInv, AskedOk

\* Every step keeps the job one that the body being answered asked for.
LEMMA AskedStep ==
  ASSUME AskedInv, [Next]_chat
  PROVE  AskedInv'
<1>1. CASE UNCHANGED chat
  BY <1>1, AskedSame DEF chat, reply, dialogue
<1>2. ASSUME NEW m, Write(m) PROVE AskedInv'
  <2>1. IsSequence(conv')
    BY <1>2, AppendIs DEF Write, AskedInv
  <2>2. asked' = asked /\ asked = NoBody
    BY <1>2 DEF Write, AskedInv, Idle
  <2> QED BY <2>1, <2>2 DEF AskedInv
<1>3. ASSUME NEW b \in Bodies, Post(b) PROVE AskedInv'
  <2>0. asked = NoBody /\ conv' = conv /\ server' = server
    BY <1>3 DEF Post, AskedInv, Idle, Refuse
  <2>1. CASE asked' = asked
    BY <2>0, <2>1 DEF AskedInv
  <2>2. CASE /\ BodyOk(b) /\ Preparable(b) /\ asked' = b /\ verdict' = "accepted"
             /\ \E open \in MayOpen : Start(Job(b, open))
    <3>1. PICK open \in MayOpen : job' = Job(b, open)
      BY <2>2 DEF Start
    <3>2. Preparable(b)' = Preparable(b) /\ Job(b, open)' = Job(b, open)
      BY <2>0 DEF Preparable, Params, Decodable, PromptTokens, Available, Job, Policy, UsesTools,
                  Split, Thinking, Recognised
    <3>3. AskedOk(b, job)'
      BY <2>2, <3>1, <3>2 DEF AskedOk
    <3> QED BY <2>0, <2>2, <3>3 DEF AskedInv
  <2> QED BY <1>3, <2>1, <2>2 DEF Post, Refuse
<1>4. CASE Generate
  <2>1. asked' = NoBody /\ conv' = conv
    BY <1>4 DEF Generate
  <2> QED BY <2>1 DEF AskedInv
<1>5. CASE Conclude
  BY <1>5, AskedSame DEF Conclude, End, dialogue
<1>6. CASE Keep
  <2>1. asked' = NoBody
    BY <1>6 DEF Keep
  <2>2. IsSequence(conv')
    <3>1. conv' = conv \/ conv' = Append(conv, Replied)
      BY <1>6 DEF Keep
    <3> DEFINE r == Replied
    <3> HIDE DEF r
    <3>2. IsSequence(Append(conv, r)) /\ IsSequence(conv)
      BY AppendIs DEF AskedInv
    <3>3. conv' = conv \/ conv' = Append(conv, r)
      BY <3>1 DEF r
    <3> QED BY <3>2, <3>3
  <2> QED BY <2>1, <2>2 DEF AskedInv
<1> QED BY <1>1, <1>2, <1>3, <1>4, <1>5, <1>6 DEF Next

\* Such a job honours the controls of its body.
LEMMA AskedImplies ==
  ASSUME AskedInv
  PROVE  ControlsHonoured
<1> DEFINE on(c) == IF asked[c] = absent THEN server[c] ELSE asked[c]
<1> SUFFICES ASSUME asked # NoBody
             PROVE  /\ job.sampler = "argmax" => on("penalty") = 0 /\ (on("temperature") = 0 \/ on("top_k") = 1)
                    /\ server.batch_greedy => job.sampler = "argmax"
                    /\ PromptTokens(asked) + job.limit + Reserve <= Context
                    /\ \A m \in {asked.max_tokens, asked.max_completion_tokens} \ {absent} : job.limit = m
  BY DEF ControlsHonoured
<1>1. /\ asked \in Bodies /\ BodyOk(asked) /\ Preparable(asked)
      /\ \E open : job = Job(asked, open)
  BY DEF AskedInv, AskedOk
<1>2. /\ job.limit = (IF MaxTokens(asked) = absent THEN Available(asked) ELSE MaxTokens(asked))
      /\ job.sampler = (IF is_plain_greedy(Params(asked)) THEN "argmax" ELSE "combo")
  BY <1>1 DEF Job
<1>3. is_plain_greedy(Params(asked)) <=> on("penalty") = 0 /\ (on("temperature") = 0 \/ on("top_k") = 1)
  BY DEF is_plain_greedy, is_greedy, Params, Controls, absent
<1>4. server.batch_greedy => is_plain_greedy(Params(asked))
  BY <1>1 DEF Preparable
<1>5. PromptTokens(asked) + job.limit + Reserve <= Context
  <2>1. PromptTokens(asked) \in Int /\ MaxTokens(asked) \in Int
    <3>1. Len(conv) \in Nat
      BY AppendIs DEF AskedInv
    <3>2. asked.prompt \in Int /\ asked.max_tokens \in Int /\ asked.max_completion_tokens \in Int
      BY <1>1, DialogueAssumption DEF Numbers
    <3> QED BY <3>1, <3>2 DEF PromptTokens, MaxTokens
  <2>2. MaxTokens(asked) <= Available(asked) /\ Available(asked) = Context - PromptTokens(asked) - Reserve
    BY <1>1 DEF Preparable, Available
  <2>3. Context \in Int /\ Reserve \in Int
    BY DialogueAssumption
  <2> DEFINE p == PromptTokens(asked)
             t == MaxTokens(asked)
             l == job.limit
             a == Available(asked)
  <2>4. p \in Int /\ t \in Int /\ t <= a /\ a = Context - p - Reserve /\ l = (IF t = absent THEN a ELSE t)
    BY <1>2, <2>1, <2>2
  <2> HIDE DEF p, t, l, a
  <2>5. p + l + Reserve <= Context
    BY <2>3, <2>4
  <2> QED BY <2>5 DEF p, l
<1>6. ASSUME NEW m \in {asked.max_tokens, asked.max_completion_tokens} \ {absent} PROVE job.limit = m
  <2>1. MaxTokensOk(asked)
    BY <1>1 DEF BodyOk
  <2>2. MaxTokens(asked) = m
    BY <1>6, <2>1 DEF MaxTokensOk, MaxTokens
  <2> QED BY <1>2, <1>6, <2>2
<1> QED BY <1>2, <1>3, <1>4, <1>5, <1>6

\* What the request set is what the sampler applies.
THEOREM DialogueControls == Spec => []ControlsHonoured
<1>1. Init => AskedInv
  BY EmptySeq DEF Init, AskedInv, IsSequence
<1>2. AskedInv /\ [Next]_chat => AskedInv'
  BY AskedStep
<1>3. AskedInv => ControlsHonoured
  BY AskedImplies
<1> QED BY <1>1, <1>2, <1>3, PTL DEF Spec

-----------------------------------------------------------------------------
(* The protocol across turns.                                              *)

\* The ids of a message's calls differ.
Distinct(m) == \A k, l \in DOMAIN m.calls : m.calls[k][1] = m.calls[l][1] => k = l

\* A message has as many ids as calls just where its ids differ (the test of _messages).
LEMMA IdsIs ==
  ASSUME NEW m, IsSequence(m.calls)
  PROVE  /\ Len(m.calls) \in Nat /\ DOMAIN m.calls = 1 .. Len(m.calls)
         /\ IsFiniteSet(IdsOf(m))
         /\ Cardinality(IdsOf(m)) = Len(m.calls) <=> Distinct(m)
<1> DEFINE c == m.calls
           n == Len(c)
           ids == {c[k][1] : k \in 1 .. n}
           f == [k \in 1 .. n |-> c[k][1]]
<1>1. n \in Nat /\ DOMAIN c = 1 .. n
  <2> DEFINE S == {c[i] : i \in DOMAIN c}
  <2>1. c \in Seq(S)
    BY DEF IsSequence
  <2> HIDE DEF S, c
  <2> QED BY <2>1, LenProperties
<1>2. IdsOf(m) = ids
  BY <1>1 DEF IdsOf
<1>3. IsFiniteSet(1 .. n) /\ Cardinality(1 .. n) = n
  BY <1>1, FS_Interval
<1>4. f \in Surjection(1 .. n, ids)
  BY DEF Surjection
<1>5. f \in Injection(1 .. n, ids) <=> Distinct(m)
  <2>1. f \in [1 .. n -> ids]
    OBVIOUS
  <2> QED BY <1>1, <2>1 DEF Injection, IsInjective, Distinct
<1> HIDE DEF f, ids, n
<1>6. IsFiniteSet(ids) /\ (Cardinality(ids) = Cardinality(1 .. n) <=> f \in Injection(1 .. n, ids))
  BY <1>3, <1>4, FS_Surjection
<1> QED BY <1>1, <1>2, <1>3, <1>5, <1>6 DEF n

\* The recursive function of the turns.
IsTurns(c, f) == f = [i \in 0 .. Len(c) |-> IF i = 0 THEN Unspoken ELSE Turn(f[i - 1], c[i])]
TurnsOf(c) == CHOOSE f : IsTurns(c, f)

Spoken(c) == [ok : BOOLEAN, pending : SUBSET UNION {Awaited(c[i]) : i \in DOMAIN c},
              seen : SUBSET UNION {IdsOf(c[i]) : i \in DOMAIN c}]

\* The length and the domain of a sequence.
LEMMA SequenceIs ==
  ASSUME NEW c, IsSequence(c)
  PROVE  Len(c) \in Nat /\ DOMAIN c = 1 .. Len(c)
<1> DEFINE S == {c[i] : i \in DOMAIN c}
<1>1. c \in Seq(S)
  BY DEF IsSequence
<1> HIDE DEF S
<1> QED BY <1>1, LenProperties

\* Nothing spoken yet.
LEMMA UnspokenIs ==
  ASSUME NEW c
  PROVE  Unspoken \in Spoken(c)
<1> DEFINE P == UNION {Awaited(c[k]) : k \in DOMAIN c}
           Q == UNION {IdsOf(c[k]) : k \in DOMAIN c}
<1>1. Spoken(c) = [ok : BOOLEAN, pending : SUBSET P, seen : SUBSET Q]
  BY DEF Spoken
<1> HIDE DEF P, Q
<1>2. {} \in SUBSET P /\ {} \in SUBSET Q
  OBVIOUS
<1> QED BY <1>1, <1>2 DEF Unspoken

\* A turn leads to a state of the protocol.
LEMMA TurnSpoken ==
  ASSUME NEW c, NEW i \in DOMAIN c, NEW s \in Spoken(c)
  PROVE  Turn(s, c[i]) \in Spoken(c)
<1> DEFINE m == c[i]
           P == UNION {Awaited(c[k]) : k \in DOMAIN c}
           Q == UNION {IdsOf(c[k]) : k \in DOMAIN c}
<1>1. s.ok \in BOOLEAN /\ s.pending \subseteq P /\ s.seen \subseteq Q
  BY DEF Spoken
<1>2. Awaited(m) \subseteq P /\ IdsOf(m) \subseteq Q
  OBVIOUS
<1>3. Spoken(c) = [ok : BOOLEAN, pending : SUBSET P, seen : SUBSET Q]
  BY DEF Spoken
<1> HIDE DEF m, P, Q
<1>4. CASE HasCalls(m)
  <2> DEFINE ok == s.ok /\ s.pending = {} /\ IdsOf(m) \cap s.seen = {}
  <2>1. Turn(s, m) = [ok |-> ok, pending |-> Awaited(m), seen |-> s.seen \cup IdsOf(m)]
    BY <1>4 DEF Turn
  <2>2. ok \in BOOLEAN
    OBVIOUS
  <2> HIDE DEF ok
  <2>3. Turn(s, m) \in Spoken(c)
    BY <1>1, <1>2, <1>3, <2>1, <2>2
  <2> QED BY <2>3 DEF m
<1>5. CASE ~HasCalls(m) /\ m.role = "tool"
  <2> DEFINE ok == s.ok /\ Answering(s, m) # {} /\ \A d \in Answering(s, m) : m.name \in {"none", d[2]}
             p == s.pending \ Answering(s, m)
  <2>1. Turn(s, m) = [ok |-> ok, pending |-> p, seen |-> s.seen]
    BY <1>5 DEF Turn
  <2>2. ok \in BOOLEAN /\ p \subseteq P
    BY <1>1
  <2> HIDE DEF ok, p
  <2>3. Turn(s, m) \in Spoken(c)
    BY <1>1, <1>3, <2>1, <2>2
  <2> QED BY <2>3 DEF m
<1>6. CASE ~HasCalls(m) /\ m.role # "tool"
  <2> DEFINE ok == s.ok /\ s.pending = {}
  <2>1. Turn(s, m) = [ok |-> ok, pending |-> s.pending, seen |-> s.seen]
    BY <1>6 DEF Turn
  <2>2. ok \in BOOLEAN
    OBVIOUS
  <2> HIDE DEF ok
  <2>3. Turn(s, m) \in Spoken(c)
    BY <1>1, <1>3, <2>1, <2>2
  <2> QED BY <2>3 DEF m
<1> QED BY <1>4, <1>5, <1>6

\* The turns of a conversation, one after another.
LEMMA TurnsIs ==
  ASSUME NEW c, IsSequence(c)
  PROVE  /\ TurnsOf(c)[0] = Unspoken
         /\ \A i \in 1 .. Len(c) : TurnsOf(c)[i] = Turn(TurnsOf(c)[i - 1], c[i])
         /\ \A i \in 0 .. Len(c) : TurnsOf(c)[i] \in Spoken(c)
<1> DEFINE N == Len(c)
           I == [n \in 0 .. N |-> Spoken(c)]
           go == [p \in UNION {{<<n, x>> : x \in I[n]} : n \in 0 .. N} |-> Turn(p[2], c[p[1] + 1])]
           w == TurnsOf(c)
<1>0. N \in Nat /\ DOMAIN c = 1 .. N
  BY SequenceIs
<1>1. ASSUME NEW n \in 0 .. N, NEW x \in I[n] PROVE go[<<n, x>>] = Turn(x, c[n + 1])
  <2>1. <<n, x>> \in UNION {{<<m, y>> : y \in I[m]} : m \in 0 .. N}
    OBVIOUS
  <2> QED BY <2>1
<1>2. \A n \in 0 .. N : I[n] = Spoken(c)
  OBVIOUS
<1> HIDE DEF go, I
<1>3. KeepsUpto(N, I, Unspoken, go)
  <2>1. Unspoken \in I[0]
    BY <1>0, <1>2, UnspokenIs
  <2>2. ASSUME NEW n \in 0 .. N - 1, NEW x \in I[n] PROVE go[<<n, x>>] \in I[n + 1]
    <3>1. n + 1 \in DOMAIN c /\ n \in 0 .. N /\ n + 1 \in 0 .. N
      BY <1>0
    <3>2. x \in Spoken(c)
      BY <1>2, <3>1
    <3>3. Turn(x, c[n + 1]) \in Spoken(c)
      BY <3>1, <3>2, TurnSpoken
    <3> QED BY <1>1, <1>2, <3>1, <3>3
  <2> QED BY <2>1, <2>2 DEF KeepsUpto
<1>4. PICK f : /\ f = [n \in 0 .. N |-> f[n]] /\ f[0] = Unspoken
               /\ \A n \in 0 .. N : f[n] \in I[n]
               /\ \A n \in 0 .. N - 1 : f[n + 1] = go[<<n, f[n]>>]
  <2> HIDE DEF N
  <2> QED BY <1>0, <1>3, BoundedRecursion
<1>5. IsTurns(c, f)
  <2>1. ASSUME NEW n \in 0 .. N PROVE f[n] = IF n = 0 THEN Unspoken ELSE Turn(f[n - 1], c[n])
    <3>1. CASE n = 0
      BY <1>4, <3>1
    <3>2. CASE n # 0
      <4>1. n - 1 \in 0 .. N - 1 /\ n - 1 \in 0 .. N /\ n - 1 + 1 = n
        BY <1>0, <3>2
      <4>2. f[n - 1 + 1] = go[<<n - 1, f[n - 1]>>] /\ f[n - 1] \in I[n - 1]
        BY <1>4, <4>1
      <4>3. go[<<n - 1, f[n - 1]>>] = Turn(f[n - 1], c[n - 1 + 1])
        BY <1>1, <4>1, <4>2
      <4> QED BY <3>2, <4>1, <4>2, <4>3
    <3> QED BY <3>1, <3>2
  <2>2. f = [n \in 0 .. N |-> f[n]]
    BY <1>4
  <2>3. [n \in 0 .. N |-> f[n]] = [n \in 0 .. N |-> IF n = 0 THEN Unspoken ELSE Turn(f[n - 1], c[n])]
    BY <2>1
  <2> HIDE DEF N
  <2>4. f = [n \in 0 .. N |-> IF n = 0 THEN Unspoken ELSE Turn(f[n - 1], c[n])]
    BY <2>2, <2>3, Zenon
  <2> QED BY <2>4 DEF IsTurns, N
<1>6. IsTurns(c, w)
  BY <1>5 DEF TurnsOf
<1> HIDE DEF w
<1>7. w[0] = Unspoken
  BY <1>0, <1>6 DEF IsTurns
<1>8. ASSUME NEW i \in 1 .. N PROVE w[i] = Turn(w[i - 1], c[i])
  <2>1. i \in 0 .. N /\ i # 0
    OBVIOUS
  <2> QED BY <1>6, <2>1 DEF IsTurns
<1> DEFINE S == {n \in Nat : n <= N => w[n] \in Spoken(c)}
<1>9. Nat \subseteq S
  <2>1. 0 \in S
    BY <1>7, UnspokenIs
  <2>2. ASSUME NEW n \in Nat, n \in S PROVE n + 1 \in S
    <3> SUFFICES ASSUME n + 1 <= N PROVE w[n + 1] \in Spoken(c)
      OBVIOUS
    <3>1. n + 1 \in DOMAIN c /\ n + 1 \in 1 .. N /\ n + 1 - 1 = n /\ n <= N
      BY <1>0
    <3>2. w[n] \in Spoken(c)
      BY <2>2, <3>1
    <3>3. w[n + 1] = Turn(w[n], c[n + 1])
      BY <1>8, <3>1
    <3> QED BY <3>1, <3>2, <3>3, TurnSpoken
  <2> HIDE DEF S
  <2> QED BY <2>1, <2>2, NatSetInduction
<1> QED BY <1>0, <1>7, <1>8, <1>9 DEF w

\* The protocol of the conversation is what its last turn came to.
LEMMA ProtocolIs == Protocol = TurnsOf(conv)[Len(conv)]
BY DEF Protocol, TurnsOf, IsTurns

\* One more message is one more turn.
LEMMA TurnsAppend ==
  ASSUME NEW c, IsSequence(c), NEW m
  PROVE  TurnsOf(Append(c, m))[Len(c) + 1] = Turn(TurnsOf(c)[Len(c)], m)
<1> DEFINE d == Append(c, m)
           N == Len(c)
           f == TurnsOf(c)
           g == TurnsOf(d)
<1>1. /\ IsSequence(d) /\ N \in Nat /\ Len(d) = N + 1 /\ d[N + 1] = m
      /\ \A i \in 1 .. N : d[i] = c[i]
  BY AppendIs
<1> HIDE DEF d, N
<1>2. f[0] = Unspoken /\ \A i \in 1 .. N : f[i] = Turn(f[i - 1], c[i])
  BY TurnsIs DEF N
<1>3. g[0] = Unspoken /\ \A i \in 1 .. N + 1 : g[i] = Turn(g[i - 1], d[i])
  BY <1>1, TurnsIs
<1> HIDE DEF f, g
<1> DEFINE S == {n \in Nat : n <= N => f[n] = g[n]}
<1>4. Nat \subseteq S
  <2>1. 0 \in S
    BY <1>2, <1>3
  <2>2. ASSUME NEW n \in Nat, n \in S PROVE n + 1 \in S
    <3> SUFFICES ASSUME n + 1 <= N PROVE f[n + 1] = g[n + 1]
      OBVIOUS
    <3>1. n + 1 \in 1 .. N /\ n + 1 \in 1 .. N + 1 /\ n + 1 - 1 = n /\ n <= N
      BY <1>1
    <3> QED BY <1>1, <1>2, <1>3, <2>2, <3>1
  <2> HIDE DEF S
  <2> QED BY <2>1, <2>2, NatSetInduction
<1>5. f[N] = g[N]
  BY <1>1, <1>4
<1>6. N + 1 \in 1 .. N + 1 /\ N + 1 - 1 = N
  BY <1>1
<1>7. g[N + 1] = Turn(f[N], m)
  BY <1>1, <1>3, <1>5, <1>6
<1> QED BY <1>7 DEF d, f, g, N

\* A message that the client wrote, or that a reply was kept as.
Kept(m) ==
  /\ m.content \in {"text", "null"} /\ (m.content = "null" => HasCalls(m))
  /\ IsSequence(m.calls) /\ Distinct(m)

Apart(calls) == \A c, d \in calls : c[1] = d[1] => c = d
SeenIn(c) == UNION {IdsOf(c[i]) : i \in DOMAIN c}
Bounded(ids) == \E b \in Nat : \A n \in ids : n \in Nat /\ n <= b

\* A conversation kept honestly, against what its turns came to.
Honest(c, s) ==
  /\ \A i \in DOMAIN c : Kept(c[i])
  /\ s.ok /\ Apart(s.pending) /\ s.seen \subseteq SeenIn(c) /\ Bounded(SeenIn(c))

\* The largest of bounded numbers.
LEMMA LargestIs ==
  ASSUME NEW ids, Bounded(ids), ids # {}
  PROVE  \E n \in ids : \A k \in ids : k <= n
<1> DEFINE T == {b \in Nat : \A n \in ids : n <= b}
<1>1. ids \subseteq Nat /\ T \in SUBSET Nat /\ T # {}
  BY DEF Bounded
<1>2. PICK b \in T : \A d \in T : b <= d
  <2> HIDE DEF T
  <2> QED BY <1>1, Least
<1>3. SUFFICES ASSUME b \notin ids PROVE FALSE
  BY <1>2
<1>4. \A n \in ids : n \in Nat /\ n <= b /\ n # b
  BY <1>1, <1>2, <1>3
<1>5. b - 1 \in Nat /\ \A n \in ids : n <= b - 1
  <2>1. b \in Nat
    OBVIOUS
  <2>2. PICK n \in ids : n \in Nat /\ n <= b /\ n # b
    BY <1>4
  <2>3. b # 0
    BY <2>2
  <2> HIDE DEF T
  <2>4. ASSUME NEW k \in ids PROVE k <= b - 1
    <3>1. k \in Nat /\ k <= b /\ k # b
      BY <1>4
    <3> QED BY <2>1, <3>1
  <2> QED BY <2>1, <2>3, <2>4
<1>6. b - 1 \in T /\ ~(b <= b - 1)
  BY <1>5
<1> QED BY <1>2, <1>6

\* The ids of a reply are larger than every id of the conversation.
LEMMA FreshIs ==
  ASSUME Bounded(Seen)
  PROVE  Fresh \in Nat /\ \A n \in Seen : n \in Nat /\ n <= Fresh
<1>1. \A n \in Seen : n \in Nat
  BY DEF Bounded
<1>2. CASE Seen = {}
  BY <1>2 DEF Fresh
<1>3. CASE Seen # {}
  <2>1. \E n \in Seen : \A k \in Seen : k <= n
    BY <1>3, LargestIs
  <2>2. Fresh \in Seen /\ \A k \in Seen : k <= Fresh
    <3> HIDE DEF Seen
    <3> QED BY <1>3, <2>1 DEF Fresh
  <2> QED BY <1>1, <2>2
<1> QED BY <1>2, <1>3

\* The conversation goes on honestly.
LEMMA HonestAppend ==
  ASSUME NEW c, IsSequence(c), NEW s, Honest(c, s), NEW m, Kept(m), Bounded(IdsOf(m)), NEW t,
         t.ok, Apart(t.pending), t.seen \subseteq s.seen \cup IdsOf(m)
  PROVE  Honest(Append(c, m), t)
<1> DEFINE d == Append(c, m)
           N == Len(c)
<1>1. /\ N \in Nat /\ DOMAIN c = 1 .. N /\ DOMAIN d = 1 .. N + 1
      /\ \A i \in 1 .. N : d[i] = c[i]
      /\ d[N + 1] = m
  BY AppendIs
<1> HIDE DEF d, N
<1>2. \A i \in 1 .. N + 1 : i \in 1 .. N \/ i = N + 1
  BY <1>1
<1>3. \A i \in DOMAIN d : Kept(d[i])
  BY <1>1, <1>2 DEF Honest
<1>4. SeenIn(d) = SeenIn(c) \cup IdsOf(m)
  <2>1. \A i \in 1 .. N : i \in 1 .. N + 1
    BY <1>1
  <2>2. N + 1 \in 1 .. N + 1
    BY <1>1
  <2>3. ASSUME NEW x \in SeenIn(d) PROVE x \in SeenIn(c) \cup IdsOf(m)
    <3>1. PICK i \in DOMAIN d : x \in IdsOf(d[i])
      BY DEF SeenIn
    <3> QED BY <1>1, <1>2, <3>1 DEF SeenIn
  <2>4. ASSUME NEW x \in SeenIn(c) \cup IdsOf(m) PROVE x \in SeenIn(d)
    BY <1>1, <2>1, <2>2 DEF SeenIn
  <2> QED BY <2>3, <2>4
<1>5. Bounded(SeenIn(c) \cup IdsOf(m))
  <2>1. PICK a \in Nat : \A n \in SeenIn(c) : n \in Nat /\ n <= a
    BY DEF Honest, Bounded
  <2>2. PICK b \in Nat : \A n \in IdsOf(m) : n \in Nat /\ n <= b
    BY DEF Bounded
  <2>3. a + b \in Nat /\ \A n \in SeenIn(c) \cup IdsOf(m) : n \in Nat /\ n <= a + b
    BY <2>1, <2>2
  <2> QED BY <2>3 DEF Bounded
<1>6. t.seen \subseteq SeenIn(d)
  BY <1>4 DEF Honest
<1> QED BY <1>3, <1>4, <1>5, <1>6 DEF Honest, d

\* What a client may write itself.
LEMMA MadeUpIs ==
  ASSUME NEW m \in MadeUp, m.role \in {"user", "tool"}
  PROVE  m.calls = <<>> /\ (m.role = "tool" => m.content = "text")
BY DEF MadeUp, User, Assistant, Result, Message

\* No calls, no ids.
LEMMA NoCalls ==
  ASSUME NEW m, m.calls = <<>>
  PROVE  IsSequence(m.calls) /\ Distinct(m) /\ IdsOf(m) = {} /\ ~HasCalls(m) /\ Bounded(IdsOf(m))
<1>1. m.calls \in Seq({m.calls[i] : i \in DOMAIN m.calls}) /\ DOMAIN m.calls = {}
  BY EmptySeq
<1>2. IdsOf(m) = {}
  BY <1>1 DEF IdsOf
<1> QED BY <1>1, <1>2 DEF IsSequence, Distinct, HasCalls, Bounded

\* A message that fits in is a turn that the server lets through.
LEMMA FittingTurn ==
  ASSUME NEW c, IsSequence(c), NEW s, Honest(c, s), NEW m, m.calls = <<>>, NEW t, t = Turn(s, m),
         \/ m.role = "tool" /\ \E d \in s.pending : d[1] = m.id /\ m.name \in {"none", d[2]}
         \/ m.role = "user" /\ s.pending = {}
  PROVE  t.ok /\ Apart(t.pending) /\ t.seen \subseteq s.seen \cup IdsOf(m)
<1>1. ~HasCalls(m)
  BY NoCalls
<1>2. CASE m.role = "tool"
  <2> DEFINE ok == s.ok /\ Answering(s, m) # {} /\ \A d \in Answering(s, m) : m.name \in {"none", d[2]}
             p == s.pending \ Answering(s, m)
  <2>1. t = [ok |-> ok, pending |-> p, seen |-> s.seen]
    BY <1>1, <1>2 DEF Turn
  <2>2. PICK d \in s.pending : d[1] = m.id /\ m.name \in {"none", d[2]}
    BY <1>2
  <2>3. d \in Answering(s, m) /\ \A e \in Answering(s, m) : e = d
    BY <2>2 DEF Answering, Honest, Apart
  <2>4. ok /\ Apart(p)
    BY <2>2, <2>3 DEF Honest, Apart
  <2> HIDE DEF ok, p
  <2> QED BY <2>1, <2>4
<1>3. CASE m.role = "user" /\ s.pending = {}
  <2>1. t = [ok |-> s.ok /\ s.pending = {}, pending |-> s.pending, seen |-> s.seen]
    BY <1>1, <1>3 DEF Turn
  <2>2. t.ok = (s.ok /\ s.pending = {}) /\ t.pending = s.pending /\ t.seen = s.seen
    BY <2>1
  <2> QED BY <1>3, <2>2, Zenon DEF Honest
<1> QED BY <1>2, <1>3

\* The calls of the reply as the client keeps it.
LEMMA RepliedCalls ==
  ASSUME IsSequence(sent.calls)
  PROVE  IsSequence(Replied.calls)
<1> DEFINE calls == [k \in DOMAIN sent.calls |-> <<Fresh + k, sent.calls[k].name>>]
           content == IF sent.calls # <<>> /\ sent.visible = <<>> THEN "null" ELSE "text"
           n == Len(sent.calls)
           R == {calls[k] : k \in DOMAIN calls}
<1>1. Replied = [role |-> "assistant", content |-> content, calls |-> calls, id |-> 0, name |-> "none"]
  BY DEF Replied, Assistant, Message
<1>2. Replied.calls = calls
  <2> HIDE DEF calls, content
  <2> QED BY <1>1
<1>3. n \in Nat /\ DOMAIN sent.calls = 1 .. n
  BY SequenceIs
<1>4. calls \in [1 .. n -> R]
  <2>1. calls = [k \in 1 .. n |-> calls[k]] /\ DOMAIN calls = 1 .. n
    BY <1>3
  <2> HIDE DEF calls
  <2> QED BY <2>1
<1> HIDE DEF R, calls
<1>5. calls \in Seq(R)
  BY <1>3, <1>4
<1> QED BY <1>2, <1>5 DEF IsSequence, R

\* So is a kept reply.
LEMMA RepliedTurn ==
  ASSUME NEW s, Honest(conv, s), s.pending = {}, IsSequence(sent.calls),
         NEW m, m = Replied, NEW t, t = Turn(s, m)
  PROVE  /\ Kept(m) /\ Bounded(IdsOf(m))
         /\ t.ok /\ Apart(t.pending) /\ t.seen \subseteq s.seen \cup IdsOf(m)
<1> DEFINE calls == [k \in DOMAIN sent.calls |-> <<Fresh + k, sent.calls[k].name>>]
           content == IF sent.calls # <<>> /\ sent.visible = <<>> THEN "null" ELSE "text"
           n == Len(sent.calls)
<1>1. m = [role |-> "assistant", content |-> content, calls |-> calls, id |-> 0, name |-> "none"]
  BY DEF Replied, Assistant, Message
<1>2. n \in Nat /\ DOMAIN sent.calls = 1 .. n
  BY SequenceIs
<1>3. Bounded(Seen) /\ Seen = SeenIn(conv)
  BY DEF Honest, Seen, SeenIn
<1>4. Fresh \in Nat /\ \A i \in Seen : i \in Nat /\ i <= Fresh
  BY <1>3, FreshIs
<1>5. /\ m.role = "assistant" /\ m.content = content /\ m.calls = calls
  <2> HIDE DEF calls, content
  <2> QED BY <1>1
<1>6. DOMAIN calls = 1 .. n /\ \A k \in 1 .. n : calls[k] = <<Fresh + k, sent.calls[k].name>>
  BY <1>2
<1>7. IsSequence(calls)
  BY <1>5, RepliedCalls
<1> HIDE DEF calls
<1>8. \A k \in 1 .. n : calls[k][1] = Fresh + k /\ k \in Int
  BY <1>6
<1>9. Distinct(m)
  <2> SUFFICES ASSUME NEW k \in 1 .. n, NEW l \in 1 .. n, calls[k][1] = calls[l][1] PROVE k = l
    BY <1>5, <1>6 DEF Distinct
  <2>1. Fresh + k = Fresh + l
    BY <1>8
  <2> QED BY <1>4, <2>1
<1>10. IdsOf(m) = {Fresh + k : k \in 1 .. n}
  BY <1>5, <1>6, <1>8 DEF IdsOf
<1>11. Bounded(IdsOf(m))
  <2>1. Fresh + n \in Nat /\ \A k \in 1 .. n : Fresh + k \in Nat /\ Fresh + k <= Fresh + n
    BY <1>2, <1>4
  <2> QED BY <1>10, <2>1 DEF Bounded
<1>12. content \in {"text", "null"} /\ (content = "null" => HasCalls(m))
  <2>1. content = "null" => sent.calls # <<>>
    OBVIOUS
  <2>2. ASSUME sent.calls # <<>> PROVE calls # <<>>
    <3>1. n # 0
      <4>1. sent.calls \in Seq({sent.calls[i] : i \in DOMAIN sent.calls})
        BY DEF IsSequence
      <4> QED BY <2>2, <4>1, EmptySeq
    <3>2. 1 \in DOMAIN calls
      BY <1>2, <1>6, <3>1
    <3> QED BY <3>2
  <2> QED BY <1>5, <2>1, <2>2 DEF HasCalls
<1>13. Kept(m)
  BY <1>5, <1>7, <1>9, <1>12 DEF Kept
<1>14. t.ok /\ Apart(t.pending) /\ t.seen \subseteq s.seen \cup IdsOf(m)
  <2>1. IdsOf(m) \cap s.seen = {}
    <3> SUFFICES ASSUME NEW i \in IdsOf(m), i \in s.seen PROVE FALSE
      OBVIOUS
    <3>1. i \in Nat /\ i <= Fresh
      BY <1>3, <1>4 DEF Honest
    <3>2. PICK k \in 1 .. n : i = Fresh + k
      BY <1>10
    <3> QED BY <1>4, <3>1, <3>2
  <2>2. CASE HasCalls(m)
    <3> DEFINE ok == s.ok /\ s.pending = {} /\ IdsOf(m) \cap s.seen = {}
    <3>1. t = [ok |-> ok, pending |-> Awaited(m), seen |-> s.seen \cup IdsOf(m)]
      BY <2>2 DEF Turn
    <3>2. ok
      BY <2>1 DEF Honest
    <3>3. Apart(Awaited(m))
      <4> SUFFICES ASSUME NEW k \in 1 .. n, NEW l \in 1 .. n, calls[k][1] = calls[l][1]
                   PROVE  calls[k] = calls[l]
        BY <1>5, <1>6 DEF Apart, Awaited
      <4>1. k = l
        BY <1>5, <1>6, <1>9 DEF Distinct
      <4> QED BY <4>1
    <3> HIDE DEF ok
    <3> QED BY <3>1, <3>2, <3>3
  <2>3. CASE ~HasCalls(m)
    <3>1. m.role # "tool"
      BY <1>5
    <3>2. t = [ok |-> s.ok /\ s.pending = {}, pending |-> s.pending, seen |-> s.seen]
      BY <2>3, <3>1 DEF Turn
    <3>3. t.ok = (s.ok /\ s.pending = {}) /\ t.pending = s.pending /\ t.seen = s.seen
      BY <3>2
    <3> QED BY <3>3, Zenon DEF Honest
  <2> QED BY <2>2, <2>3
<1> QED BY <1>11, <1>13, <1>14

Spoke == TurnsOf(conv)[Len(conv)]

EchoInv ==
  /\ IsSequence(conv)
  /\ honest => Honest(conv, Spoke)
  /\ verdict = "accepted" /\ ~job.raw => Protocol.pending = {}
  /\ verdict = "bad messages" => ~MessagesOk
  /\ job.policy = NoPolicy => sent.calls = <<>>

\* Steps that leave the conversation alone keep what was said of it.
LEMMA EchoSame ==
  ASSUME EchoInv, UNCHANGED <<server, conv>>, honest' = honest
  PROVE  /\ IsSequence(conv)' /\ (honest' => Honest(conv, Spoke)')
         /\ Protocol' = Protocol /\ MessagesOk' = MessagesOk
<1>1. Protocol' = Protocol
  BY DEF Protocol
<1>2. MessagesOk' = MessagesOk
  BY <1>1 DEF MessagesOk, MessageOk, ContentOk, Images
<1>3. IsSequence(conv)' /\ Honest(conv, Spoke)' = Honest(conv, Spoke)
  BY DEF EchoInv, IsSequence, Honest, Spoke
<1> QED BY <1>1, <1>2, <1>3 DEF EchoInv

\* A message written by the client.
LEMMA EchoWrite ==
  ASSUME EchoInv, NEW m \in MadeUp, Write(m)
  PROVE  EchoInv'
<1>1. /\ conv' = Append(conv, m) /\ verdict' = "none" /\ honest' = (honest /\ Fitting(m))
      /\ job' = job /\ sent' = sent
  BY DEF Write, reply
<1>2. IsSequence(conv) /\ IsSequence(conv') /\ Len(conv') = Len(conv) + 1
  BY <1>1, AppendIs DEF EchoInv
<1>3. ASSUME honest' PROVE Honest(conv, Spoke)'
  <2> DEFINE s == Spoke
             t == Turn(s, m)
  <2>1. honest /\ Fitting(m) /\ Honest(conv, s)
    BY <1>1, <1>3 DEF EchoInv
  <2>2. Spoke' = t
    <3>1. TurnsOf(conv') = TurnsOf(Append(conv, m))
      BY <1>1
    <3>2. Spoke' = TurnsOf(conv')[Len(conv')]
      BY DEF Spoke
    <3> QED BY <1>2, <3>1, <3>2, TurnsAppend DEF Spoke
  <2>3. Protocol = s
    BY ProtocolIs DEF Spoke
  <2>4. \/ m.role = "tool" /\ \E d \in s.pending : d[1] = m.id /\ m.name \in {"none", d[2]}
        \/ m.role = "user" /\ s.pending = {} /\ m.content = "text"
    BY <2>1, <2>3 DEF Fitting
  <2>5. m.calls = <<>> /\ m.content = "text"
    BY <2>4, MadeUpIs
  <2> HIDE DEF s, t
  <2>6. t.ok /\ Apart(t.pending) /\ t.seen \subseteq s.seen \cup IdsOf(m)
    BY <1>2, <2>1, <2>4, <2>5, FittingTurn DEF t
  <2>7. Kept(m) /\ Bounded(IdsOf(m))
    BY <2>5, NoCalls DEF Kept
  <2>8. Honest(Append(conv, m), t)
    BY <1>2, <2>1, <2>6, <2>7, HonestAppend
  <2> QED BY <1>1, <2>2, <2>8
<1> QED BY <1>1, <1>2, <1>3 DEF EchoInv

\* A request, whatever becomes of it.
LEMMA EchoPost ==
  ASSUME EchoInv, NEW b \in Bodies, Post(b)
  PROVE  EchoInv'
<1>1. conv' = conv /\ server' = server /\ honest' = honest
  BY DEF Post, Refuse
<1>2. IsSequence(conv)' /\ (honest' => Honest(conv, Spoke)') /\ Protocol' = Protocol /\ MessagesOk' = MessagesOk
  BY <1>1, EchoSame
<1>3. CASE verdict' # "accepted" /\ UNCHANGED reply /\ (verdict' = "bad messages" => ~MessagesOk)
  BY <1>1, <1>2, <1>3 DEF EchoInv, reply
<1>4. CASE /\ verdict' = "accepted" /\ (b.kind = "chat" => MessagesOk)
           /\ \E open \in MayOpen : Start(Job(b, open))
  <2>1. PICK open \in MayOpen : Start(Job(b, open))
    BY <1>4
  <2>2. job'.raw = (b.kind = "completion") /\ sent'.calls = <<>>
    BY <2>1 DEF Start, Job, NothingSent
  <2>3. b.kind \in {"chat", "completion"}
    BY DialogueAssumption
  <2>4. ~job'.raw => MessagesOk
    BY <1>4, <2>2, <2>3
  <2>5. MessagesOk => Protocol.pending = {}
    BY DEF MessagesOk
  <2> QED BY <1>2, <1>4, <2>2, <2>4, <2>5 DEF EchoInv
<1> QED BY <1>3, <1>4 DEF Post, Refuse

\* The calls of a finished reply.
LEMMA SentSequence ==
  ASSUME EchoInv, ToolInv, final # "none"
  PROVE  IsSequence(sent.calls)
<1>1. CASE sent.calls = <<>>
  BY <1>1, EmptySeq DEF IsSequence
<1>2. CASE sent.calls # <<>>
  <2>1. job.policy # NoPolicy
    BY <1>2 DEF EchoInv
  <2>2. PICK C : sent.calls \in Seq(C)
    BY <1>2, <2>1 DEF ToolInv, Reading, Delivered, NothingSent
  <2>3. /\ Len(sent.calls) \in Nat /\ DOMAIN sent.calls = 1 .. Len(sent.calls)
        /\ sent.calls = [i \in 1 .. Len(sent.calls) |-> sent.calls[i]]
    BY <2>2, LenProperties
  <2> DEFINE R == {sent.calls[i] : i \in DOMAIN sent.calls}
             q == sent.calls
  <2>4. \A i \in 1 .. Len(q) : q[i] \in R
    BY <2>3
  <2>5. q = [i \in 1 .. Len(q) |-> q[i]] /\ Len(q) \in Nat
    BY <2>3
  <2> HIDE DEF R, q
  <2>6. q \in [1 .. Len(q) -> R]
    BY <2>4, <2>5
  <2>7. q \in Seq(R)
    BY <2>5, <2>6
  <2> QED BY <2>7 DEF IsSequence, R, q
<1> QED BY <1>1, <1>2

\* The client keeps the reply.
LEMMA EchoKeep ==
  ASSUME EchoInv, ToolInv, Keep
  PROVE  EchoInv'
<1>1. /\ verdict = "accepted" /\ final # "none" /\ verdict' = "none" /\ server' = server /\ honest' = honest
      /\ sent'.calls = <<>>
  BY DEF Keep, Answered, Start, NothingSent
<1>2. CASE conv' = conv
  <2>1. IsSequence(conv)' /\ (honest' => Honest(conv, Spoke)')
    BY <1>1, <1>2, EchoSame
  <2> QED BY <1>1, <2>1 DEF EchoInv
<1>3. CASE conv' # conv
  <2> DEFINE m == Replied
             s == Spoke
             t == Turn(s, m)
  <2>1. conv' = Append(conv, m) /\ ~job.raw
    BY <1>3 DEF Keep
  <2>2. IsSequence(conv) /\ IsSequence(conv') /\ Len(conv') = Len(conv) + 1
    <3> HIDE DEF m
    <3> QED BY <2>1, AppendIs DEF EchoInv
  <2>3. Protocol = s /\ s.pending = {}
    BY <1>1, <2>1, ProtocolIs DEF EchoInv, Spoke
  <2>4. IsSequence(sent.calls)
    BY <1>1, SentSequence
  <2>5. ASSUME honest' PROVE Honest(conv, Spoke)'
    <3>1. Honest(conv, s)
      BY <1>1, <2>5 DEF EchoInv
    <3>2. Spoke' = t
      <4>1. TurnsOf(conv') = TurnsOf(Append(conv, m)) /\ Spoke' = TurnsOf(conv')[Len(conv')]
        BY <2>1 DEF Spoke
      <4> HIDE DEF m
      <4> QED BY <2>2, <4>1, TurnsAppend DEF Spoke
    <3> HIDE DEF s, t, m
    <3>3. m = Replied /\ t = Turn(s, m)
      BY DEF m, t
    <3>4. /\ Kept(m) /\ Bounded(IdsOf(m))
          /\ t.ok /\ Apart(t.pending) /\ t.seen \subseteq s.seen \cup IdsOf(m)
      BY <2>3, <2>4, <3>1, <3>3, RepliedTurn
    <3>5. Honest(Append(conv, m), t)
      BY <2>2, <3>1, <3>4, HonestAppend
    <3> QED BY <2>1, <3>2, <3>5
  <2> QED BY <1>1, <2>2, <2>5 DEF EchoInv
<1> QED BY <1>2, <1>3

\* What a piece adds to the reply is no call.
LEMMA MoreCalls ==
  ASSUME NEW out, NEW piece
  PROVE  More(out, piece).calls = out.calls
BY DEF More

\* Steps that only lengthen the reply.
LEMMA EchoQuiet ==
  ASSUME EchoInv, UNCHANGED <<server, conv>>, honest' = honest, verdict' = verdict, job' = job,
         job.policy = NoPolicy => sent'.calls = sent.calls
  PROVE  EchoInv'
<1>1. /\ IsSequence(conv)' /\ (honest' => Honest(conv, Spoke)')
      /\ Protocol' = Protocol /\ MessagesOk' = MessagesOk
  BY EchoSame
<1> QED BY <1>1 DEF EchoInv

\* Every step keeps an honest conversation one that the server accepts.
LEMMA EchoStep ==
  ASSUME EchoInv, ToolInv, [Next]_chat
  PROVE  EchoInv'
<1>1. CASE UNCHANGED chat
  <2>1. UNCHANGED <<server, conv>> /\ honest' = honest /\ verdict' = verdict /\ job' = job /\ sent' = sent
    BY <1>1 DEF chat, dialogue, reply
  <2> QED BY <2>1, EchoQuiet
<1>2. ASSUME NEW m \in MadeUp, Write(m) PROVE EchoInv'
  BY <1>2, EchoWrite
<1>3. ASSUME NEW b \in Bodies, Post(b) PROVE EchoInv'
  BY <1>3, EchoPost
<1>4. CASE Generate
  <2>1. UNCHANGED <<server, conv>> /\ honest' = honest /\ verdict' = verdict
    BY <1>4 DEF Generate
  <2>2. PICK f : Emit(f)
    BY <1>4 DEF Generate
  <2>3. job' = job
    BY <2>2 DEF Emit
  <2>4. \/ sent' = sent
        \/ \E piece : sent' = More(sent, piece)
    BY <2>2 DEF Emit
  <2>5. sent'.calls = sent.calls
    BY <2>4, MoreCalls
  <2> QED BY <2>1, <2>3, <2>5, EchoQuiet
<1>5. CASE Conclude
  <2>1. UNCHANGED <<server, conv>> /\ honest' = honest /\ verdict' = verdict /\ job' = job
    BY <1>5 DEF Conclude, dialogue, End
  <2>2. ASSUME job.policy = NoPolicy PROVE sent'.calls = sent.calls
    <3>1. PICK finish : EndText(finish)
      BY <1>5, <2>2 DEF Conclude, End, EndTools
    <3>2. \/ sent' = sent
          \/ \E piece : sent' = More(sent, piece)
      BY <3>1 DEF EndText
    <3> QED BY <3>2, MoreCalls
  <2> QED BY <2>1, <2>2, EchoQuiet
<1>6. CASE Keep
  BY <1>6, EchoKeep
<1> QED BY <1>1, <1>2, <1>3, <1>4, <1>5, <1>6 DEF Next

\* Such a conversation is never refused for its messages once its calls are answered.
LEMMA EchoImplies ==
  ASSUME EchoInv
  PROVE  EchoAccepted
<1> SUFFICES ASSUME conv # <<>>, honest, Protocol.pending = {} PROVE MessagesOk
  BY DEF EchoAccepted, EchoInv
<1>1. Honest(conv, Spoke) /\ Protocol = Spoke
  BY ProtocolIs DEF EchoInv, Spoke
<1>2. \A i \in DOMAIN conv : Kept(conv[i])
  BY <1>1 DEF Honest
<1>3. ASSUME NEW i \in DOMAIN conv PROVE MessageOk(conv[i]) /\ ~ImageUrlOk(conv[i])
  <2>1. Kept(conv[i])
    BY <1>2
  <2>2. Cardinality(IdsOf(conv[i])) = Len(conv[i].calls)
    BY <2>1, IdsIs DEF Kept
  <2> QED BY <2>1, <2>2 DEF Kept, MessageOk, ContentOk, ArgumentsOk, ImageUrlOk
<1>4. Images <= MaxImages
  <2>1. {i \in DOMAIN conv : ImageUrlOk(conv[i])} = {}
    BY <1>3
  <2>2. Images = 0
    BY <2>1, FS_EmptySet DEF Images
  <2> QED BY <2>2, DialogueAssumption
<1> QED BY <1>1, <1>3, <1>4 DEF MessagesOk, Honest

\* It holds at first.
LEMMA EchoInit ==
  ASSUME Init
  PROVE  EchoInv /\ ToolInv
<1>1. ToolInv
  BY DEF Init, ReplyInit, ToolInv
<1>2. conv = <<>> /\ verdict = "none" /\ sent.calls = <<>>
  BY DEF Init, ReplyInit, NothingSent
<1>3. IsSequence(conv) /\ Len(conv) = 0 /\ DOMAIN conv = {}
  BY <1>2, EmptySeq DEF IsSequence
<1>4. Spoke = Unspoken
  BY <1>3, TurnsIs DEF Spoke
<1>5. SeenIn(conv) = {}
  BY <1>3 DEF SeenIn
<1>6. Honest(conv, Spoke)
  BY <1>3, <1>4, <1>5 DEF Honest, Unspoken, Apart, Bounded
<1> QED BY <1>1, <1>2, <1>3, <1>6 DEF EchoInv

\* What the server sends, it takes back.
THEOREM DialogueEcho == Spec => []EchoAccepted
<1> DEFINE Inv == EchoInv /\ ToolInv
<1>1. Init => Inv
  BY EchoInit
<1>2. Inv /\ [Next]_chat => Inv'
  BY EchoStep, ToolsStep
<1>3. Inv => EchoAccepted
  BY EchoImplies
<1> QED BY <1>1, <1>2, <1>3, PTL DEF Spec

-----------------------------------------------------------------------------
(* The results of tools, in the order of their calls.                      *)

\* What one accepted message says of the calls awaiting a result.
LEMMA TurnCase ==
  ASSUME NEW s, NEW m, NEW t, t = Turn(s, m), t.ok
  PROVE  /\ s.ok
         /\ HasCalls(m) => s.pending = {} /\ t.pending = Awaited(m)
         /\ m.role = "tool" => Answering(s, m) # {} /\ t.pending = s.pending \ Answering(s, m)
         /\ ~HasCalls(m) /\ m.role # "tool" => s.pending = {} /\ t.pending = {}
<1>1. HasCalls(m) => m.role # "tool"
  BY DEF HasCalls
<1>2. CASE HasCalls(m)
  <2> DEFINE ok == s.ok /\ s.pending = {} /\ IdsOf(m) \cap s.seen = {}
  <2>1. t = [ok |-> ok, pending |-> Awaited(m), seen |-> s.seen \cup IdsOf(m)]
    BY <1>2 DEF Turn
  <2> HIDE DEF ok
  <2>2. t.ok = ok /\ t.pending = Awaited(m)
    BY <2>1
  <2>3. s.ok /\ s.pending = {}
    BY <2>2, Zenon DEF ok
  <2> QED BY <1>1, <1>2, <2>2, <2>3
<1>3. CASE m.role = "tool"
  <2> DEFINE ok == s.ok /\ Answering(s, m) # {} /\ \A d \in Answering(s, m) : m.name \in {"none", d[2]}
             p == s.pending \ Answering(s, m)
  <2>1. t = [ok |-> ok, pending |-> p, seen |-> s.seen]
    BY <1>1, <1>3 DEF Turn
  <2> HIDE DEF ok
  <2>2. t.ok = ok /\ t.pending = p
    <3> HIDE DEF p
    <3> QED BY <2>1
  <2>3. s.ok /\ Answering(s, m) # {}
    BY <2>2, Zenon DEF ok
  <2> QED BY <1>1, <1>3, <2>2, <2>3
<1>4. CASE ~HasCalls(m) /\ m.role # "tool"
  <2> DEFINE ok == s.ok /\ s.pending = {}
  <2>1. t = [ok |-> ok, pending |-> s.pending, seen |-> s.seen]
    BY <1>4 DEF Turn
  <2> HIDE DEF ok
  <2>2. t.ok = ok /\ t.pending = s.pending
    BY <2>1
  <2>3. s.ok /\ s.pending = {}
    BY <2>2, Zenon DEF ok
  <2> QED BY <1>4, <2>2, <2>3
<1> QED BY <1>2, <1>3, <1>4

\* What the conversation came to at a message.
At(i) == TurnsOf(conv)[i]
L(i) == Len(conv[i].calls)

Sound ==
  /\ IsSequence(conv) /\ MessagesOk
  /\ \A i \in DOMAIN conv : IsSequence(conv[i].calls)

\* The calls and results of an accepted conversation, message by message.
Protocolled ==
  /\ Len(conv) \in Nat /\ DOMAIN conv = 1 .. Len(conv)
  /\ At(0).pending = {} /\ At(Len(conv)).pending = {}
  /\ \A i \in 1 .. Len(conv) :
       /\ L(i) \in Nat /\ DOMAIN conv[i].calls = 1 .. L(i) /\ Distinct(conv[i])
       /\ IsFiniteSet(IdsOf(conv[i])) /\ Cardinality(IdsOf(conv[i])) = L(i)
       /\ HasCalls(conv[i]) =>
            L(i) > 0 /\ At(i - 1).pending = {} /\ At(i).pending = Awaited(conv[i])
       /\ conv[i].role = "tool" =>
            /\ Answering(At(i - 1), conv[i]) # {}
            /\ At(i).pending = At(i - 1).pending \ Answering(At(i - 1), conv[i])
       /\ ~HasCalls(conv[i]) /\ conv[i].role # "tool" => At(i - 1).pending = {} /\ At(i).pending = {}

\* What the server checks of the messages, said of each of them.
LEMMA SoundIs ==
  ASSUME Sound
  PROVE  Protocolled
<1> DEFINE n == Len(conv)
<1>1. n \in Nat /\ DOMAIN conv = 1 .. n
  BY SequenceIs DEF Sound
<1>2. At(0) = Unspoken /\ \A i \in 1 .. n : At(i) = Turn(At(i - 1), conv[i])
  BY TurnsIs DEF Sound, At
<1>3. At(n).ok /\ At(n).pending = {}
  BY ProtocolIs DEF Sound, MessagesOk, At
<1> DEFINE S == {k \in Nat : k <= n => At(n - k).ok}
<1>4. Nat \subseteq S
  <2>1. 0 \in S
    BY <1>1, <1>3
  <2>2. ASSUME NEW k \in Nat, k \in S PROVE k + 1 \in S
    <3> SUFFICES ASSUME k + 1 <= n PROVE At(n - (k + 1)).ok
      OBVIOUS
    <3> DEFINE i == n - k
    <3>1. i \in 1 .. n /\ i - 1 = n - (k + 1) /\ k <= n
      BY <1>1
    <3>2. At(i).ok /\ At(i) = Turn(At(i - 1), conv[i])
      BY <1>2, <2>2, <3>1
    <3> HIDE DEF i
    <3>3. At(i - 1).ok
      BY <3>2, TurnCase
    <3> QED BY <3>1, <3>3
  <2> HIDE DEF S
  <2> QED BY <2>1, <2>2, NatSetInduction
<1>5. \A i \in 0 .. n : At(i).ok
  <2> SUFFICES ASSUME NEW i \in 0 .. n PROVE At(i).ok
    OBVIOUS
  <2>1. n - i \in Nat /\ n - i <= n /\ n - (n - i) = i
    BY <1>1
  <2>2. n - i \in S
    BY <1>4, <2>1
  <2> QED BY <2>1, <2>2
<1> HIDE DEF S, n
<1>6. ASSUME NEW i \in 1 .. n
      PROVE  /\ L(i) \in Nat /\ DOMAIN conv[i].calls = 1 .. L(i) /\ Distinct(conv[i])
             /\ IsFiniteSet(IdsOf(conv[i])) /\ Cardinality(IdsOf(conv[i])) = L(i)
             /\ HasCalls(conv[i]) => L(i) > 0
  <2>1. IsSequence(conv[i].calls) /\ MessageOk(conv[i])
    BY <1>1 DEF Sound, MessagesOk
  <2>2. Cardinality(IdsOf(conv[i])) = Len(conv[i].calls)
    BY <2>1 DEF MessageOk
  <2>3. /\ Len(conv[i].calls) \in Nat /\ DOMAIN conv[i].calls = 1 .. Len(conv[i].calls)
        /\ IsFiniteSet(IdsOf(conv[i])) /\ Distinct(conv[i])
    BY <2>1, <2>2, IdsIs
  <2>4. ASSUME conv[i].calls # <<>> PROVE Len(conv[i].calls) > 0
    <3>1. conv[i].calls \in Seq({conv[i].calls[k] : k \in DOMAIN conv[i].calls})
      BY <2>1 DEF IsSequence
    <3>2. Len(conv[i].calls) # 0
      BY <2>4, <3>1, EmptySeq
    <3> QED BY <2>3, <3>2
  <2> QED BY <2>2, <2>3, <2>4 DEF L, HasCalls
<1>7. ASSUME NEW i \in 1 .. n
      PROVE  /\ HasCalls(conv[i]) => At(i - 1).pending = {} /\ At(i).pending = Awaited(conv[i])
             /\ conv[i].role = "tool" =>
                  /\ Answering(At(i - 1), conv[i]) # {}
                  /\ At(i).pending = At(i - 1).pending \ Answering(At(i - 1), conv[i])
             /\ ~HasCalls(conv[i]) /\ conv[i].role # "tool" => At(i - 1).pending = {} /\ At(i).pending = {}
  <2>1. At(i).ok /\ At(i) = Turn(At(i - 1), conv[i])
    BY <1>1, <1>2, <1>5
  <2> QED BY <2>1, TurnCase
<1>8. At(0).pending = {}
  BY <1>2 DEF Unspoken
<1> QED BY <1>1, <1>3, <1>6, <1>7, <1>8 DEF Protocolled, n

\* The ids of the first k results after a message.
Given(i, k) == {conv[i + j].id : j \in 1 .. k}

\* k results stand after the calls of message i, each for another call.
AnsweredTo(i, k) ==
  /\ i + k <= Len(conv)
  /\ \A j \in 1 .. k : conv[i + j].role = "tool"
  /\ \A a, b \in 1 .. k : conv[i + a].id = conv[i + b].id => a = b
  /\ Given(i, k) \subseteq IdsOf(conv[i])
  /\ IsFiniteSet(Given(i, k)) /\ Cardinality(Given(i, k)) = k
  /\ At(i + k).pending = {d \in Awaited(conv[i]) : d[1] \notin Given(i, k)}

\* While a call awaits its result the next message is a result.
LEMMA NextResult ==
  ASSUME Protocolled, NEW i \in 1 .. Len(conv), HasCalls(conv[i]), NEW k \in Nat, k < L(i), AnsweredTo(i, k)
  PROVE  AnsweredTo(i, k + 1)
<1> DEFINE c == conv[i].calls
           p == i + k
           q == i + (k + 1)
           id == conv[q].id
           n == Len(conv)
<1>1. /\ n \in Nat /\ p \in Nat /\ p >= 1 /\ q = p + 1 /\ p <= n /\ L(i) \in Nat
      /\ DOMAIN c = 1 .. L(i) /\ IsFiniteSet(IdsOf(conv[i])) /\ Cardinality(IdsOf(conv[i])) = L(i)
  BY DEF Protocolled, AnsweredTo
<1>2. At(p).pending # {}
  <2>1. IdsOf(conv[i]) # Given(i, k)
    BY <1>1 DEF AnsweredTo
  <2>2. PICK x \in IdsOf(conv[i]) : x \notin Given(i, k)
    BY <2>1 DEF AnsweredTo
  <2>3. PICK l \in DOMAIN c : x = c[l][1]
    BY <2>2 DEF IdsOf
  <2>4. c[l] \in Awaited(conv[i]) /\ c[l][1] \notin Given(i, k)
    BY <2>2, <2>3 DEF Awaited
  <2> QED BY <2>4 DEF AnsweredTo
<1>3. q \in 1 .. n
  <2>1. p # n
    BY <1>2 DEF Protocolled
  <2> QED BY <1>1, <2>1
<1>4. q - 1 = p
  BY <1>1
<1> HIDE DEF p, q, n
<1>5. /\ conv[q].role = "tool" /\ Answering(At(p), conv[q]) # {}
      /\ At(q).pending = At(p).pending \ Answering(At(p), conv[q])
  BY <1>2, <1>3, <1>4 DEF Protocolled, n
<1>6. At(p).pending = {d \in Awaited(conv[i]) : d[1] \notin Given(i, k)}
  BY DEF AnsweredTo, p
<1>7. id \in IdsOf(conv[i]) /\ id \notin Given(i, k)
  <2>1. PICK d \in At(p).pending : d[1] = id
    BY <1>5 DEF Answering
  <2>2. d \in Awaited(conv[i]) /\ id \notin Given(i, k)
    BY <1>6, <2>1
  <2> QED BY <2>1, <2>2 DEF Awaited, IdsOf
<1>8. Given(i, k + 1) = Given(i, k) \cup {id}
  <2>1. 1 .. k + 1 = (1 .. k) \cup {k + 1}
    OBVIOUS
  <2> QED BY <2>1 DEF Given, q
<1>9. IsFiniteSet(Given(i, k + 1)) /\ Cardinality(Given(i, k + 1)) = k + 1
  BY <1>7, <1>8, FS_AddElement DEF AnsweredTo
<1>10. \A j \in 1 .. k + 1 : j \in 1 .. k \/ j = k + 1
  OBVIOUS
<1>11. \A j \in 1 .. k + 1 : conv[i + j].role = "tool"
  BY <1>5, <1>10 DEF AnsweredTo, q
<1>12. ASSUME NEW a \in 1 .. k + 1, NEW b \in 1 .. k + 1, conv[i + a].id = conv[i + b].id PROVE a = b
  <2>1. \A j \in 1 .. k : conv[i + j].id # id
    BY <1>7 DEF Given
  <2>2. id = conv[i + (k + 1)].id
    BY DEF q
  <2> HIDE DEF id
  <2> QED BY <1>10, <1>12, <2>1, <2>2 DEF AnsweredTo
<1>13. At(q).pending = {d \in Awaited(conv[i]) : d[1] \notin Given(i, k + 1)}
  BY <1>5, <1>6, <1>8 DEF Answering
<1> QED BY <1>3, <1>7, <1>8, <1>9, <1>11, <1>12, <1>13 DEF AnsweredTo, q, n

\* Every call has its result among the messages right after it.
LEMMA AllAnswered ==
  ASSUME Protocolled, NEW i \in 1 .. Len(conv), HasCalls(conv[i])
  PROVE  AnsweredTo(i, L(i)) /\ Given(i, L(i)) = IdsOf(conv[i]) /\ At(i + L(i)).pending = {}
<1>1. L(i) \in Nat /\ L(i) > 0 /\ Len(conv) \in Nat
  BY DEF Protocolled
<1> DEFINE S == {k \in Nat : k <= L(i) => AnsweredTo(i, k)}
<1>2. Nat \subseteq S
  <2>1. AnsweredTo(i, 0)
    <3>1. 1 .. 0 = {} /\ i + 0 = i
      BY <1>1
    <3>2. Given(i, 0) = {}
      BY <3>1 DEF Given
    <3>3. At(i).pending = Awaited(conv[i])
      BY DEF Protocolled
    <3>4. At(i + 0).pending = {d \in Awaited(conv[i]) : d[1] \notin Given(i, 0)}
      BY <3>1, <3>2, <3>3
    <3>5. i + 0 <= Len(conv)
      BY <1>1
    <3>6. IsFiniteSet(Given(i, 0)) /\ Cardinality(Given(i, 0)) = 0 /\ Given(i, 0) \subseteq IdsOf(conv[i])
      BY <3>2, FS_EmptySet
    <3>7. /\ \A j \in 1 .. 0 : conv[i + j].role = "tool"
          /\ \A a, b \in 1 .. 0 : conv[i + a].id = conv[i + b].id => a = b
      BY <3>1
    <3> QED BY <3>4, <3>5, <3>6, <3>7, Zenon DEF AnsweredTo
  <2>2. ASSUME NEW k \in Nat, k \in S PROVE k + 1 \in S
    <3> SUFFICES ASSUME k + 1 <= L(i) PROVE AnsweredTo(i, k + 1)
      OBVIOUS
    <3>1. k < L(i) /\ k <= L(i)
      BY <1>1
    <3> QED BY <2>2, <3>1, NextResult
  <2>3. 0 \in S
    BY <2>1
  <2> HIDE DEF S
  <2> QED BY <2>2, <2>3, NatSetInduction
<1>3. AnsweredTo(i, L(i))
  BY <1>1, <1>2
<1>4. Given(i, L(i)) = IdsOf(conv[i])
  BY <1>3, FS_Subset DEF AnsweredTo, Protocolled
<1>5. \A d \in Awaited(conv[i]) : d[1] \in IdsOf(conv[i])
  BY DEF Awaited, IdsOf
<1> QED BY <1>3, <1>4, <1>5 DEF AnsweredTo

\* A group: the message with calls before a result.
Heads(i, t) == i \in 1 .. t - 1 /\ HasCalls(conv[i]) /\ t - i <= L(i)

\* Every result stands among those of one message with calls.
LEMMA HeadIs ==
  ASSUME Protocolled, NEW t \in 1 .. Len(conv), conv[t].role = "tool"
  PROVE  \E i : Heads(i, t)
<1> DEFINE n == Len(conv)
           Early(u) == \E i \in 1 .. u : HasCalls(conv[i]) /\ u - i < L(i)
           S == {u \in Nat : u <= n /\ At(u).pending # {} => Early(u)}
<1>0. n \in Nat
  BY DEF Protocolled
<1>1. Nat \subseteq S
  <2>1. 0 \in S
    BY DEF Protocolled
  <2>2. ASSUME NEW u \in Nat, u \in S PROVE u + 1 \in S
    <3> DEFINE q == u + 1
    <3> SUFFICES ASSUME q <= n, At(q).pending # {} PROVE Early(q)
      OBVIOUS
    <3>1. q \in 1 .. n /\ q - 1 = u /\ u <= n /\ q > u /\ q \in Nat
      BY <1>0
    <3>2. CASE HasCalls(conv[q])
      <4>1. L(q) > 0 /\ q - q = 0 /\ q \in 1 .. q
        BY <3>1, <3>2 DEF Protocolled
      <4> QED BY <3>2, <4>1
    <3>3. CASE conv[q].role = "tool"
      <4>1. At(q).pending \subseteq At(u).pending
        BY <3>1, <3>3 DEF Protocolled
      <4>2. PICK i \in 1 .. u : HasCalls(conv[i]) /\ u - i < L(i)
        BY <2>2, <3>1, <4>1
      <4>3. i \in 1 .. n /\ i \in 1 .. q /\ L(i) \in Nat
        BY <3>1 DEF Protocolled
      <4>4. At(i + L(i)).pending = {}
        BY <4>2, <4>3, AllAnswered
      <4>5. q # i + L(i)
        BY <4>4
      <4>6. q - i < L(i)
        BY <3>1, <4>2, <4>3, <4>5
      <4> QED BY <4>2, <4>3, <4>6
    <3>4. CASE ~HasCalls(conv[q]) /\ conv[q].role # "tool"
      BY <3>1, <3>4 DEF Protocolled
    <3> QED BY <3>2, <3>3, <3>4
  <2> HIDE DEF S
  <2> QED BY <2>1, <2>2, NatSetInduction
<1>2. t - 1 \in Nat /\ t - 1 <= n
  BY <1>0
<1>3. At(t - 1).pending # {}
  BY DEF Protocolled, Answering
<1>4. PICK i \in 1 .. t - 1 : HasCalls(conv[i]) /\ t - 1 - i < L(i)
  BY <1>1, <1>2, <1>3
<1>5. i \in 1 .. Len(conv)
  BY <1>0
<1>6. L(i) \in Nat
  BY <1>5 DEF Protocolled
<1>7. t - i <= L(i)
  BY <1>4, <1>6
<1> QED BY <1>4, <1>7 DEF Heads

\* Between a result and the message it belongs to stand results only.
LEMMA GroupIs ==
  ASSUME Protocolled, NEW i \in 1 .. Len(conv), HasCalls(conv[i]), NEW t \in i + 1 .. i + L(i)
  PROVE  t \in 1 .. Len(conv) /\ conv[t].role = "tool" /\ ~HasCalls(conv[t])
<1> DEFINE l == L(i)
           n == Len(conv)
<1>1. AnsweredTo(i, l) /\ l \in Nat /\ n \in Nat
  BY AllAnswered DEF Protocolled
<1>2. t - i \in 1 .. l /\ i + (t - i) = t /\ t \in 1 .. n
  <2>1. i + l <= n /\ i \in 1 .. n /\ t \in i + 1 .. i + l
    BY <1>1 DEF AnsweredTo
  <2> HIDE DEF l, n
  <2> QED BY <1>1, <2>1
<1>3. conv[t].role = "tool"
  BY <1>1, <1>2 DEF AnsweredTo
<1> QED BY <1>2, <1>3 DEF HasCalls

\* One message has the calls of a result: the one that Caller finds.
LEMMA CallerIs ==
  ASSUME Protocolled, NEW t \in 1 .. Len(conv), conv[t].role = "tool", NEW i, Heads(i, t)
  PROVE  Caller(t) = i
<1> DEFINE Calls(j) == HasCalls(conv[j]) /\ \A k \in (j + 1) .. t : conv[k].role = "tool"
<1>0. Len(conv) \in Nat /\ i \in 1 .. Len(conv) /\ i \in 1 .. t /\ i < t /\ t <= i + L(i) /\ L(i) \in Nat
  <2>1. Len(conv) \in Nat /\ i \in 1 .. t - 1
    BY DEF Protocolled, Heads
  <2>2. i \in 1 .. Len(conv)
    BY <2>1
  <2>3. L(i) \in Nat
    BY <2>2 DEF Protocolled
  <2> QED BY <2>1, <2>2, <2>3 DEF Heads
<1>1. HasCalls(conv[i])
  BY DEF Heads
<1>2. \A k \in i + 1 .. t : conv[k].role = "tool" /\ ~HasCalls(conv[k])
  <2> SUFFICES ASSUME NEW k \in i + 1 .. t PROVE conv[k].role = "tool" /\ ~HasCalls(conv[k])
    OBVIOUS
  <2>1. k \in i + 1 .. i + L(i)
    BY <1>0
  <2> QED BY <1>0, <1>1, <2>1, GroupIs
<1>3. Calls(i)
  BY <1>1, <1>2
<1>4. ASSUME NEW j \in 1 .. t, Calls(j) PROVE j = i
  <2>1. CASE j < i
    <3>1. i \in j + 1 .. t
      BY <1>0, <2>1
    <3> QED BY <1>1, <1>4, <3>1 DEF HasCalls
  <2>2. CASE j > i
    <3>1. j \in i + 1 .. t
      BY <1>0, <2>2
    <3> QED BY <1>2, <1>4, <3>1
  <2> QED BY <1>0, <2>1, <2>2
<1> QED BY <1>0, <1>3, <1>4 DEF Caller

\* Anything but a result keeps its place.
LEMMA RankOwn ==
  ASSUME NEW t, conv[t].role # "tool"
  PROVE  Rank(t) = t
BY DEF Rank

\* A result goes to the place of its call.
LEMMA RankIs ==
  ASSUME Protocolled, NEW t \in 1 .. Len(conv), conv[t].role = "tool", NEW i, Heads(i, t)
  PROVE  \E k \in 1 .. L(i) : Rank(t) = i + k /\ conv[i].calls[k][1] = conv[t].id
<1> DEFINE c == conv[i].calls
           id == conv[t].id
           l == L(i)
           n == Len(conv)
<1>0. n \in Nat /\ i \in 1 .. n /\ HasCalls(conv[i]) /\ t - i \in 1 .. l /\ i + (t - i) = t
  <2>1. n \in Nat /\ i \in 1 .. t - 1 /\ HasCalls(conv[i]) /\ t \in 1 .. n /\ t - i <= l
    BY DEF Protocolled, Heads
  <2> HIDE DEF n
  <2>2. i \in 1 .. n
    BY <2>1
  <2>3. l \in Nat
    BY <2>2 DEF Protocolled, n
  <2> HIDE DEF l
  <2> QED BY <2>1, <2>2, <2>3
<1>1. AnsweredTo(i, l) /\ Given(i, l) = IdsOf(conv[i]) /\ DOMAIN c = 1 .. l
  BY <1>0, AllAnswered DEF Protocolled
<1>2. id \in IdsOf(conv[i])
  <2>1. conv[i + (t - i)].id \in Given(i, l)
    BY <1>0 DEF Given
  <2> QED BY <1>0, <1>1, <2>1
<1>3. \E k \in DOMAIN c : c[k][1] = id
  BY <1>2 DEF IdsOf
<1>4. Rank(t) = i + (CHOOSE k \in DOMAIN c : c[k][1] = id)
  BY CallerIs DEF Rank
<1> DEFINE k == CHOOSE k \in DOMAIN c : c[k][1] = id
<1>5. k \in DOMAIN c /\ c[k][1] = id
  <2> HIDE DEF c, id
  <2> QED BY <1>3
<1> QED BY <1>1, <1>4, <1>5

\* Places are exchanged within a group only.
LEMMA RankInto ==
  ASSUME Protocolled, NEW j \in 1 .. Len(conv)
  PROVE  /\ Rank(j) \in 1 .. Len(conv)
         /\ conv[j].role = "tool" <=> conv[Rank(j)].role = "tool"
         /\ conv[j].role # "tool" => Rank(j) = j
         /\ conv[j].role = "tool" =>
              \E i : /\ i \in 1 .. Len(conv) /\ Heads(i, j) /\ Heads(i, Rank(j))
                     /\ conv[i].calls[Rank(j) - i][1] = conv[j].id
<1>1. CASE conv[j].role # "tool"
  BY <1>1, RankOwn
<1>2. CASE conv[j].role = "tool"
  <2>1. PICK i : Heads(i, j)
    BY <1>2, HeadIs
  <2>2. PICK k \in 1 .. L(i) : Rank(j) = i + k /\ conv[i].calls[k][1] = conv[j].id
    BY <1>2, <2>1, RankIs
  <2> DEFINE l == L(i)
             n == Len(conv)
             p == Rank(j)
  <2>3. n \in Nat /\ i \in 1 .. j - 1 /\ HasCalls(conv[i]) /\ j \in 1 .. n
    BY <2>1 DEF Protocolled, Heads
  <2>4. i \in 1 .. n
    <3> HIDE DEF n
    <3> QED BY <2>3
  <2>5. l \in Nat
    BY <2>4 DEF Protocolled
  <2>6. k \in 1 .. l /\ p = i + k
    BY <2>2
  <2>7. p \in i + 1 .. i + l /\ i \in 1 .. p - 1 /\ p - i = k /\ p - i <= l
    <3> HIDE DEF n, l, p
    <3> QED BY <2>3, <2>4, <2>5, <2>6
  <2>8. p \in 1 .. n /\ conv[p].role = "tool"
    BY <2>3, <2>4, <2>7, GroupIs
  <2>9. Heads(i, p)
    BY <2>3, <2>7 DEF Heads
  <2> QED BY <1>2, <2>1, <2>2, <2>4, <2>7, <2>8, <2>9
<1> QED BY <1>1, <1>2

\* No two messages go to one place.
LEMMA RankOne ==
  ASSUME Protocolled, NEW a \in 1 .. Len(conv), NEW b \in 1 .. Len(conv), Rank(a) = Rank(b)
  PROVE  a = b
<1>1. conv[a].role = "tool" <=> conv[b].role = "tool"
  BY RankInto
<1>2. CASE conv[a].role # "tool"
  BY <1>1, <1>2, RankOwn
<1>3. CASE conv[a].role = "tool"
  <2> DEFINE p == Rank(a)
             n == Len(conv)
  <2>1. p \in 1 .. n /\ conv[p].role = "tool"
    BY <1>3, RankInto
  <2>2. PICK i : i \in 1 .. n /\ Heads(i, a) /\ Heads(i, p) /\ conv[i].calls[p - i][1] = conv[a].id
    BY <1>3, RankInto
  <2>3. PICK h : h \in 1 .. n /\ Heads(h, b) /\ Heads(h, p) /\ conv[h].calls[p - h][1] = conv[b].id
    BY <1>1, <1>3, RankInto
  <2>4. i = h
    BY <2>1, <2>2, <2>3, CallerIs
  <2> DEFINE l == L(i)
             x == a - i
             y == b - i
  <2>5. n \in Nat /\ HasCalls(conv[i]) /\ l \in Nat
    BY <2>2 DEF Heads, Protocolled
  <2>6. AnsweredTo(i, l)
    BY <2>2, <2>5, AllAnswered
  <2>7. x \in 1 .. l /\ y \in 1 .. l /\ i + x = a /\ i + y = b
    <3>1. i \in 1 .. a - 1 /\ i \in 1 .. b - 1 /\ a - i <= l /\ b - i <= l /\ a \in 1 .. n /\ b \in 1 .. n
      BY <2>2, <2>3, <2>4 DEF Heads
    <3> HIDE DEF l, n
    <3> QED BY <2>5, <3>1
  <2>8. conv[i + x].id = conv[i + y].id
    BY <2>2, <2>3, <2>4, <2>7
  <2> HIDE DEF x, y, l
  <2>9. x = y
    BY <2>6, <2>7, <2>8 DEF AnsweredTo
  <2> QED BY <2>7, <2>9
<1> QED BY <1>2, <1>3

\* Every place is taken.
LEMMA RankOnto ==
  ASSUME Protocolled, NEW p \in 1 .. Len(conv)
  PROVE  \E j \in 1 .. Len(conv) : Rank(j) = p
<1>1. CASE conv[p].role # "tool"
  BY <1>1, RankOwn
<1>2. CASE conv[p].role = "tool"
  <2>1. PICK i : Heads(i, p)
    BY <1>2, HeadIs
  <2> DEFINE l == L(i)
             n == Len(conv)
             c == conv[i].calls
             k == p - i
  <2>2. n \in Nat /\ i \in 1 .. p - 1 /\ HasCalls(conv[i]) /\ p \in 1 .. n /\ p - i <= l
    BY <2>1 DEF Protocolled, Heads
  <2>3. i \in 1 .. n
    <3> HIDE DEF n
    <3> QED BY <2>2
  <2>4. l \in Nat /\ DOMAIN c = 1 .. l /\ Distinct(conv[i])
    BY <2>3 DEF Protocolled
  <2>5. k \in 1 .. l /\ i + k = p
    <3> HIDE DEF l, n
    <3> QED BY <2>2, <2>4
  <2>6. AnsweredTo(i, l) /\ Given(i, l) = IdsOf(conv[i])
    BY <2>2, <2>3, AllAnswered
  <2>7. PICK a \in 1 .. l : conv[i + a].id = c[k][1]
    <3>1. c[k][1] \in IdsOf(conv[i])
      BY <2>4, <2>5 DEF IdsOf
    <3> QED BY <2>6, <3>1 DEF Given
  <2> DEFINE j == i + a
  <2>8. j \in 1 .. n /\ conv[j].role = "tool" /\ Heads(i, j)
    <3>1. j \in i + 1 .. i + l /\ i \in 1 .. j - 1 /\ j - i <= l
      <4> HIDE DEF l, n
      <4> QED BY <2>3, <2>4, <2>2
    <3>2. j \in 1 .. n /\ conv[j].role = "tool"
      BY <2>2, <2>3, <3>1, GroupIs
    <3> QED BY <2>2, <3>1, <3>2 DEF Heads
  <2>9. PICK d \in 1 .. l : Rank(j) = i + d /\ c[d][1] = conv[j].id
    BY <2>8, RankIs
  <2>10. d = k
    <3>1. c[d][1] = c[k][1]
      BY <2>7, <2>9
    <3> QED BY <2>4, <2>5, <3>1 DEF Distinct
  <2> QED BY <2>5, <2>8, <2>9, <2>10
<1> QED BY <1>1, <1>2

\* The messages that reach the template.
LEMMA OrderedIs ==
  ASSUME Protocolled
  PROVE  /\ DOMAIN Ordered = 1 .. Len(conv) /\ Len(Ordered) = Len(conv)
         /\ \A j \in 1 .. Len(conv) : Rank(j) \in 1 .. Len(conv) /\ Ordered[Rank(j)] = conv[j]
<1> DEFINE n == Len(conv)
           q == Ordered
<1>1. n \in Nat /\ DOMAIN conv = 1 .. n
  BY DEF Protocolled
<1>2. q = [i \in 1 .. n |-> conv[CHOOSE j \in 1 .. n : Rank(j) = i]]
  BY <1>1 DEF Ordered
<1>3. DOMAIN q = 1 .. n
  <2> HIDE DEF q
  <2> QED BY <1>2
<1>4. ASSUME NEW j \in 1 .. n PROVE Rank(j) \in 1 .. n /\ q[Rank(j)] = conv[j]
  <2> DEFINE p == Rank(j)
             x == CHOOSE k \in 1 .. n : Rank(k) = p
  <2>1. p \in 1 .. n
    BY RankInto
  <2>2. x \in 1 .. n /\ Rank(x) = p
    <3>1. \E k \in 1 .. n : Rank(k) = p
      OBVIOUS
    <3> HIDE DEF p
    <3> QED BY <3>1
  <2>3. x = j
    <3> HIDE DEF x
    <3> QED BY <2>2, RankOne
  <2>4. q[p] = conv[x]
    <3> HIDE DEF q, p
    <3> QED BY <1>2, <2>1
  <2> QED BY <2>1, <2>3, <2>4
<1>5. Len(q) = n
  <2> DEFINE R == {q[i] : i \in 1 .. n}
  <2>1. q = [i \in 1 .. n |-> q[i]]
    <3> HIDE DEF q
    <3> QED BY <1>2
  <2> HIDE DEF q
  <2>2. q \in [1 .. n -> R]
    BY <2>1
  <2> HIDE DEF R
  <2>3. q \in Seq(R)
    BY <1>1, <2>2
  <2>4. Len(q) \in Nat /\ DOMAIN q = 1 .. Len(q)
    BY <2>3, LenProperties
  <2> QED BY <1>1, <1>3, <2>4
<1> QED BY <1>3, <1>4, <1>5

\* A template that reads the results in this order pairs each with its call.
Paired(q) ==
  /\ \A i \in DOMAIN q : HasCalls(q[i]) =>
        /\ i + Len(q[i].calls) <= Len(q)
        /\ \A k \in DOMAIN q[i].calls : q[i + k].role = "tool" /\ q[i + k].id = q[i].calls[k][1]
  /\ \A i \in DOMAIN q : q[i].role = "tool" =>
        \E j \in 1..(i - 1) : HasCalls(q[j]) /\ i - j <= Len(q[j].calls)
  /\ Len(q) = Len(conv) /\ {q[i] : i \in DOMAIN q} = {conv[i] : i \in DOMAIN conv}

\* The order the server puts the results in pairs them.
LEMMA OrderedPaired ==
  ASSUME Protocolled
  PROVE  Paired(Ordered)
<1> DEFINE n == Len(conv)
           q == Ordered
<1>1. /\ n \in Nat /\ DOMAIN conv = 1 .. n /\ DOMAIN q = 1 .. n /\ Len(q) = n
      /\ \A j \in 1 .. n : Rank(j) \in 1 .. n /\ q[Rank(j)] = conv[j]
  BY OrderedIs DEF Protocolled
<1> HIDE DEF q, n
\* Results stand where results stood, and everything else where it was.
<1>2. ASSUME NEW i \in 1 .. n
      PROVE  /\ q[i].role = "tool" <=> conv[i].role = "tool"
             /\ conv[i].role # "tool" => q[i] = conv[i]
  <2>1. PICK j \in 1 .. n : Rank(j) = i
    BY RankOnto DEF n
  <2>2. q[i] = conv[j]
    BY <1>1, <2>1
  <2>3. /\ conv[j].role = "tool" <=> conv[i].role = "tool"
        /\ conv[j].role # "tool" => i = j
    BY <2>1, RankInto DEF n
  <2> QED BY <2>2, <2>3
<1>3. ASSUME NEW i \in 1 .. n, HasCalls(q[i])
      PROVE  /\ q[i] = conv[i] /\ i + L(i) <= n /\ L(i) \in Nat /\ DOMAIN conv[i].calls = 1 .. L(i)
             /\ \A k \in 1 .. L(i) : i + k \in 1 .. n /\ conv[i + k].role = "tool"
  <2>1. q[i] = conv[i]
    BY <1>2, <1>3 DEF HasCalls
  <2>2. AnsweredTo(i, L(i)) /\ L(i) \in Nat /\ DOMAIN conv[i].calls = 1 .. L(i)
    BY <1>3, <2>1, AllAnswered DEF n, Protocolled
  <2>3. i + L(i) <= n
    BY <2>2 DEF AnsweredTo, n
  <2>4. \A k \in 1 .. L(i) : conv[i + k].role = "tool"
    BY <2>2 DEF AnsweredTo
  <2>5. \A k \in 1 .. L(i) : i + k \in 1 .. n
    <3> DEFINE l == L(i)
    <3>1. l \in Nat /\ i + l <= n
      BY <2>2, <2>3
    <3> HIDE DEF l
    <3>2. \A k \in 1 .. l : i + k \in 1 .. n
      BY <1>1, <3>1
    <3> QED BY <3>2 DEF l
  <2> QED BY <2>1, <2>2, <2>3, <2>4, <2>5
<1>4. ASSUME NEW i \in 1 .. n, HasCalls(q[i]), NEW k \in 1 .. L(i)
      PROVE  q[i + k].role = "tool" /\ q[i + k].id = conv[i].calls[k][1]
  <2> DEFINE p == i + k
  <2>1. /\ q[i] = conv[i] /\ p \in 1 .. n /\ conv[p].role = "tool" /\ L(i) \in Nat
        /\ k \in 1 .. L(i) /\ i \in 1 .. n /\ p - i = k
    BY <1>1, <1>3, <1>4
  <2>2. PICK j \in 1 .. n : Rank(j) = p
    BY <2>1, RankOnto DEF n
  <2>3. q[p] = conv[j] /\ conv[j].role = "tool"
    BY <1>1, <2>1, <2>2, RankInto DEF n
  <2>4. PICK h : /\ h \in 1 .. n /\ Heads(h, j) /\ Heads(h, p)
                 /\ conv[h].calls[p - h][1] = conv[j].id
    <3>1. \E h : /\ h \in 1 .. n /\ Heads(h, j) /\ Heads(h, Rank(j))
                 /\ conv[h].calls[Rank(j) - h][1] = conv[j].id
      BY <2>3, RankInto DEF n
    <3> HIDE DEF p
    <3> QED BY <2>2, <3>1
  <2>5. Heads(i, p)
    <3>1. i \in 1 .. p - 1 /\ p - i <= L(i)
      BY <2>1
    <3> QED BY <1>4, <2>1, <3>1 DEF Heads
  <2>6. h = i
    BY <2>1, <2>4, <2>5, CallerIs DEF n
  <2> QED BY <2>1, <2>3, <2>4, <2>6
<1>5. ASSUME NEW i \in 1 .. n, q[i].role = "tool"
      PROVE  \E j \in 1..(i - 1) : HasCalls(q[j]) /\ i - j <= Len(q[j].calls)
  <2>1. conv[i].role = "tool"
    BY <1>2, <1>5
  <2>2. PICK j : Heads(j, i)
    BY <2>1, HeadIs DEF n
  <2>3. j \in 1 .. i - 1 /\ j \in 1 .. n /\ HasCalls(conv[j]) /\ i - j <= L(j)
    BY <1>1, <2>2 DEF Heads
  <2>4. q[j] = conv[j]
    BY <1>2, <2>3 DEF HasCalls
  <2> QED BY <2>3, <2>4 DEF L
<1>6. {q[i] : i \in DOMAIN q} = {conv[i] : i \in DOMAIN conv}
  <2>1. ASSUME NEW i \in 1 .. n PROVE \E j \in 1 .. n : q[i] = conv[j]
    <3>1. PICK j \in 1 .. n : Rank(j) = i
      BY RankOnto DEF n
    <3> QED BY <1>1, <3>1
  <2>2. ASSUME NEW j \in 1 .. n PROVE \E i \in 1 .. n : conv[j] = q[i]
    BY <1>1
  <2>3. DOMAIN q = 1 .. n /\ DOMAIN conv = 1 .. n
    BY <1>1
  <2> DEFINE A == {q[i] : i \in 1 .. n}
             B == {conv[i] : i \in 1 .. n}
  <2>4. A = B
    <3>1. \A x : x \in A <=> \E i \in 1 .. n : x = q[i]
      OBVIOUS
    <3>2. \A x : x \in B <=> \E i \in 1 .. n : x = conv[i]
      OBVIOUS
    <3> HIDE DEF A, B
    <3>3. A \subseteq B
      BY <2>1, <3>1, <3>2
    <3>4. B \subseteq A
      BY <2>2, <3>1, <3>2
    <3> QED BY <3>3, <3>4
  <2> QED BY <2>3, <2>4
<1>7. ASSUME NEW i \in DOMAIN q, HasCalls(q[i])
      PROVE  /\ i + Len(q[i].calls) <= Len(q)
             /\ \A k \in DOMAIN q[i].calls : q[i + k].role = "tool" /\ q[i + k].id = q[i].calls[k][1]
  <2>1. q[i] = conv[i] /\ i + L(i) <= n /\ DOMAIN conv[i].calls = 1 .. L(i)
    BY <1>1, <1>3, <1>7
  <2>2. \A k \in 1 .. L(i) : q[i + k].role = "tool" /\ q[i + k].id = conv[i].calls[k][1]
    BY <1>1, <1>4, <1>7
  <2> QED BY <1>1, <2>1, <2>2 DEF L
<1>8. Len(q) = Len(conv)
  BY <1>1 DEF n
<1> QED BY <1>1, <1>5, <1>6, <1>7, <1>8 DEF Paired, q

\* Calls are sequences, and what the template renders is the conversation in order.
PairInv ==
  /\ \A i \in DOMAIN conv : IsSequence(conv[i].calls)
  /\ verdict = "accepted" /\ ~job.raw => MessagesOk /\ prompt = Ordered

\* The calls of a message that the client made up.
LEMMA MadeUpCalls ==
  ASSUME NEW m \in MadeUp
  PROVE  IsSequence(m.calls)
<1>1. m.calls \in {<<>>, <<<<1, "f">>>>, <<<<2, "g">>, <<1, "f">>>>, <<<<1, "f">>, <<1, "g">>>>}
  BY DEF MadeUp, User, Assistant, Result, Message
<1> DEFINE c == m.calls
           R == {c[i] : i \in DOMAIN c}
<1>2. CASE c = <<>>
  BY <1>2, NoCalls
<1>3. CASE c = <<<<1, "f">>>>
  <2>1. DOMAIN c = 1 .. 1 /\ c = [i \in 1 .. 1 |-> c[i]]
    BY <1>3
  <2> HIDE DEF c
  <2>2. c \in Seq(R)
    BY <2>1
  <2> QED BY <2>2 DEF IsSequence, c
<1>4. CASE c \in {<<<<2, "g">>, <<1, "f">>>>, <<<<1, "f">>, <<1, "g">>>>}
  <2>1. DOMAIN c = 1 .. 2 /\ c = [i \in 1 .. 2 |-> c[i]]
    BY <1>4
  <2> HIDE DEF c
  <2>2. c \in Seq(R)
    BY <2>1
  <2> QED BY <2>2 DEF IsSequence, c
<1> QED BY <1>1, <1>2, <1>3, <1>4

\* One more message whose calls are a sequence.
LEMMA CallsAppend ==
  ASSUME PairInv, IsSequence(conv), NEW m, IsSequence(m.calls), conv' = Append(conv, m)
  PROVE  \A i \in DOMAIN conv' : IsSequence(conv'[i].calls)
<1>1. /\ Len(conv) \in Nat /\ DOMAIN conv = 1 .. Len(conv) /\ DOMAIN conv' = 1 .. Len(conv) + 1
      /\ \A i \in 1 .. Len(conv) : conv'[i] = conv[i]
      /\ conv'[Len(conv) + 1] = m
  BY AppendIs
<1>2. \A i \in DOMAIN conv' : i \in DOMAIN conv \/ i = Len(conv) + 1
  BY <1>1
<1> QED BY <1>1, <1>2 DEF PairInv

\* Steps that leave the conversation and the request alone.
LEMMA PairSame ==
  ASSUME EchoInv, PairInv, UNCHANGED <<server, conv>>, honest' = honest
  PROVE  /\ (\A i \in DOMAIN conv : IsSequence(conv[i].calls))'
         /\ MessagesOk' = MessagesOk /\ Ordered' = Ordered
<1>1. MessagesOk' = MessagesOk
  BY EchoSame
<1>2. Ordered' = Ordered
  BY DEF Ordered, Rank, Caller, HasCalls
<1>3. (\A i \in DOMAIN conv : IsSequence(conv[i].calls))'
  BY DEF PairInv, IsSequence
<1> QED BY <1>1, <1>2, <1>3

\* A request that is accepted hands the template its conversation in order.
LEMMA PairPost ==
  ASSUME EchoInv, PairInv, NEW b \in Bodies, Post(b)
  PROVE  PairInv'
<1>1. conv' = conv /\ server' = server /\ honest' = honest
  BY DEF Post, Refuse
<1>2. /\ (\A i \in DOMAIN conv : IsSequence(conv[i].calls))'
      /\ MessagesOk' = MessagesOk /\ Ordered' = Ordered
  BY <1>1, PairSame
<1>3. CASE verdict' # "accepted"
  BY <1>2, <1>3 DEF PairInv
<1>4. CASE /\ verdict' = "accepted" /\ (b.kind = "chat" => MessagesOk /\ prompt' = Ordered)
           /\ \E open \in MayOpen : Start(Job(b, open))
  <2>1. PICK open \in MayOpen : Start(Job(b, open))
    BY <1>4
  <2>2. job'.raw = (b.kind = "completion")
    BY <2>1 DEF Start, Job
  <2>3. b.kind \in {"chat", "completion"}
    BY DialogueAssumption
  <2>4. ~job'.raw => MessagesOk /\ prompt' = Ordered
    BY <1>4, <2>2, <2>3
  <2> QED BY <1>2, <1>4, <2>4 DEF PairInv
<1> QED BY <1>3, <1>4 DEF Post, Refuse

\* Every step keeps it.
LEMMA PairStep ==
  ASSUME EchoInv, ToolInv, PairInv, [Next]_chat
  PROVE  PairInv'
<1>0. IsSequence(conv)
  BY DEF EchoInv
<1>1. ASSUME UNCHANGED <<server, conv, prompt>>, honest' = honest, verdict' = verdict, job' = job
      PROVE  PairInv'
  <2>1. /\ (\A i \in DOMAIN conv : IsSequence(conv[i].calls))'
        /\ MessagesOk' = MessagesOk /\ Ordered' = Ordered
    BY <1>1, PairSame
  <2> QED BY <1>1, <2>1 DEF PairInv
<1>2. CASE UNCHANGED chat
  BY <1>1, <1>2 DEF chat, dialogue, reply
<1>3. ASSUME NEW m \in MadeUp, Write(m) PROVE PairInv'
  <2>1. conv' = Append(conv, m) /\ verdict' = "none"
    BY <1>3 DEF Write
  <2>2. \A i \in DOMAIN conv' : IsSequence(conv'[i].calls)
    BY <1>0, <2>1, MadeUpCalls, CallsAppend
  <2> QED BY <2>1, <2>2 DEF PairInv, IsSequence
<1>4. ASSUME NEW b \in Bodies, Post(b) PROVE PairInv'
  BY <1>4, PairPost
<1>5. CASE Generate
  <2>1. PICK f : Emit(f)
    BY <1>5 DEF Generate
  <2>2. job' = job
    BY <2>1 DEF Emit
  <2> QED BY <1>1, <1>5, <2>2 DEF Generate
<1>6. CASE Conclude
  BY <1>1, <1>6 DEF Conclude, dialogue, End
<1>7. CASE Keep
  <2>1. verdict' = "none" /\ final # "none" /\ server' = server /\ honest' = honest
    BY <1>7 DEF Keep, Answered
  <2>2. CASE conv' = conv
    <3>1. (\A i \in DOMAIN conv : IsSequence(conv[i].calls))'
      BY <2>1, <2>2, PairSame
    <3> QED BY <2>1, <3>1 DEF PairInv
  <2>3. CASE conv' # conv
    <3> DEFINE m == Replied
    <3>1. conv' = Append(conv, m)
      BY <1>7, <2>3 DEF Keep
    <3>2. IsSequence(m.calls)
      BY <2>1, SentSequence, RepliedCalls
    <3> HIDE DEF m
    <3>3. \A i \in DOMAIN conv' : IsSequence(conv'[i].calls)
      BY <1>0, <3>1, <3>2, CallsAppend
    <3> QED BY <2>1, <3>3 DEF PairInv, IsSequence
  <2> QED BY <2>2, <2>3
<1> QED BY <1>2, <1>3, <1>4, <1>5, <1>6, <1>7 DEF Next

\* The template reads every result in the order of the calls, and nothing the client sent
\* is lost (_check_messages).
THEOREM DialoguePairs == Spec => []PairedResults
<1> DEFINE Inv == EchoInv /\ ToolInv /\ PairInv
<1>1. Init => Inv
  <2>1. Init => EchoInv /\ ToolInv
    BY EchoInit
  <2>2. Init => PairInv
    <3> SUFFICES ASSUME Init PROVE PairInv
      OBVIOUS
    <3>1. DOMAIN conv = {} /\ verdict = "none"
      BY EmptySeq DEF Init
    <3> QED BY <3>1 DEF PairInv
  <2> QED BY <2>1, <2>2
<1>2. Inv /\ [Next]_chat => Inv'
  BY EchoStep, ToolsStep, PairStep
<1>3. Inv => PairedResults
  <2> SUFFICES ASSUME EchoInv, PairInv, verdict = "accepted", ~job.raw PROVE Paired(prompt)
    BY DEF PairedResults, Paired
  <2>1. Sound /\ prompt = Ordered
    BY DEF EchoInv, PairInv, Sound
  <2> QED BY <2>1, SoundIs, OrderedPaired
<1> QED BY <1>1, <1>2, <1>3, PTL DEF Spec
=============================================================================
