------------------------- MODULE MCRequestedStatements -------------------------
(* One month or two of one card, and runs of all of it or of none. *)
EXTENDS RequestedStatements

CONSTANTS oct, dec

MCOneMonth == {oct}
MCTwoMonths == {oct, dec}
MCAllOrNone == {{}, {oct}}
MCAll == {{oct, dec}}
=============================================================================
