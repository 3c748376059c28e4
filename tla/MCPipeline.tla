---- MODULE MCPipeline ----
EXTENDS HeadRecovery, Packaging, FiniteSets, TLC

\* Each behaviour has the head recovery or the packaging beside the conversion: the
\* two never touch the same files.
VARIABLE scenario

MCInit == Init /\ RecoveryInit /\ PackagingInit /\ scenario \in {"recovery", "packaging"}
MCNext ==
    \/ scenario = "recovery" /\ RecoveryNext /\ UNCHANGED <<packaging, scenario>>
    \/ scenario = "packaging" /\ PackagingNext /\ UNCHANGED <<recovery, scenario>>
MCSpec == MCInit /\ [][MCNext]_<<work, packaging, scenario>>

Folders == {<<"a">>, <<"a", "a">>, <<"b">>, <<"c">>, <<"d">>, <<"e">>}

\* A bound of the packaging: of a third run, an edited source, a second packager, a
\* spoiled directory and a stray report, one at a time.
Dear == {d \in {"run", "edit", "packager", "spoil", "stray"} :
            \/ d = "run" /\ run > 2
            \/ d = "edit" /\ world > 0
            \/ d = "packager" /\ Cardinality({p \in Packagers : ppc[p] # "idle"}) > 1
            \/ d = "spoil" /\ spoiled
            \/ d = "stray" /\ stray}
Affordable == scenario = "packaging" => Cardinality(Dear) <= 1

Interchangeable == Permutations(Packagers)
====
