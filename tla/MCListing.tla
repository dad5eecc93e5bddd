------------------------------- MODULE MCListing -------------------------------
(* Two things listed, one of them inside the scope the person sets. *)
EXTENDS Listing

CONSTANTS i1, i2

MCItems == {i1, i2}
MCParts == {{i1}}
=============================================================================
