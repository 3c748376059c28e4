---------------------------- MODULE MCGenerator ----------------------------
(* Small instances of the generator for TLC. *)
EXTENDS Generator, TLC

Bit == {0, 1}

\* No, one and two tokens behind the full pages of two tokens.
ShortPrompts == {<<0>>, <<0, 0, 1>>, <<0, 0, 0, 1>>}

\* With one sequence that grows from conversation to conversation.
Growing == {<<0>>, <<0, 0, 0, 1>>, <<0, 0, 0, 1, 0, 1>>}

\* One prefix of four pages of two tokens, and nearly nothing.
LongPrefix == {<<1>>, <<0, 0, 0, 0, 0, 0, 0, 0>>, <<0, 0, 0, 0, 0, 0, 0, 0, 0>>}

\* For pages of three tokens: one whole page, one token more, another start.
Mixed == {<<0, 0, 1>>, <<0, 0, 1, 0>>, <<1, 0, 0, 1>>}

TwoStarts == {<<0, 0, 1>>, <<1, 0, 0>>}

\* The second prompt is what the first one may generate.
Follow == {<<0, 0, 1>>, <<0, 0, 1, 0, 0>>}

\* One token more than a page of two.
Repeat == {<<0, 0, 1>>}

\* Pages and jobs are interchangeable.
Symm == Permutations(Pages) \cup Permutations(Jobs)
=============================================================================
