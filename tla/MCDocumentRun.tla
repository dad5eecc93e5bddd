---------------------------- MODULE MCDocumentRun ----------------------------
(* Two documents that share one base name, so that one is told apart by a   *)
(* copy number and may be given the other's name once it is deleted.        *)
EXTENDS DocumentRun, TLC

CONSTANTS d1, d2, n1

MCDocs == {d1, d2}
MCNames == {n1}
MCNameOf == [d \in MCDocs |-> n1]

\* One document, for longer histories of it.
MCOne == {d1}
MCNameOfOne == [d \in MCOne |-> n1]

Symmetry == Permutations(MCDocs)
=============================================================================
