------------------------------- MODULE MCRename -------------------------------
(* Three documents: two trade names and one wants another's, or a ring of three, *)
(* or a chain, as their plan says. *)
EXTENDS Rename

CONSTANTS a, b, c, x, A, B, C, F, t1, t2

MCDocs == {a, b, c}
MCStrangers == {x}
MCNames == {A, B, C, F}
MCTemps == {t1, t2}
MCHome == [d \in MCDocs |-> IF d = a THEN A ELSE IF d = b THEN B ELSE C]
===============================================================================
