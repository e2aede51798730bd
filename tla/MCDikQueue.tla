----------------------------- MODULE MCDikQueue -----------------------------
(***************************************************************************)
(* Small instances of DikQueue for TLC.                                    *)
(***************************************************************************)
EXTENDS DikQueue, TLC

OneEvent == {1}
FullBlocks == {1, 2, 3}

\* Node addresses are interchangeable, and so are producers.
NodeSymmetry == Permutations(Nodes)
Symmetry == Permutations(Nodes) \cup Permutations(Producers)
=============================================================================
