------------------------------ MODULE MCRunState ------------------------------
(* Three records, any of which may be the one that is written last. *)
EXTENDS RunState, TLC

CONSTANTS k1, k2, k3

MCKeys == {k1, k2, k3}
MCSymmetry == Permutations(MCKeys)
===============================================================================
