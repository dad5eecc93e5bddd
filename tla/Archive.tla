-------------------------------- MODULE Archive --------------------------------
(***************************************************************************)
(* What the output folder of one account promises, whatever becomes of the *)
(* runs that fill it: the shelf of copies that passed the check, and the   *)
(* catalogue that says which document is saved and where.                  *)
(*                                                                         *)
(* A copy stays until the person takes it.  A document is saved once a     *)
(* copy of it was shelved, at the place where it was, and stops counting   *)
(* as saved only when nothing stands there any more.  The index lists what *)
(* the catalogue held when it was listed.  DocumentRun implements this.    *)
(***************************************************************************)
CONSTANTS
    Docs,      \* documents
    Places,    \* where copies stand
    Empty,     \* what stands where nothing does
    Nowhere    \* where a document that is not saved is

VARIABLES
    listed,    \* the documents the provider has shown
    shelf,     \* the document whose copy stands at each place
    entry,     \* the catalogue: where each document was saved
    pending,   \* an entry a run holds that is not written yet
    rows       \* the index: documents and their places

vars == <<listed, shelf, entry, pending, rows>>

Init ==
    /\ listed = {}
    /\ shelf = [p \in Places |-> Empty]
    /\ entry = [d \in Docs |-> Nowhere] /\ pending = [d \in Docs |-> Nowhere]
    /\ rows = {}

\* The provider shows some documents.
List ==
    /\ listed' \in SUBSET Docs /\ listed \subseteq listed'
    /\ UNCHANGED <<shelf, entry, pending, rows>>

\* A copy of d that passed the check takes a free place; its entry is written
\* or is still to be.
Shelve(d, p) ==
    /\ d \in listed /\ shelf[p] = Empty
    /\ shelf' = [shelf EXCEPT ![p] = d]
    /\ \/ entry' = [entry EXCEPT ![d] = p] /\ UNCHANGED pending
       \/ pending' = [pending EXCEPT ![d] = p] /\ UNCHANGED entry
    /\ UNCHANGED <<listed, rows>>

\* The copy d's entry names has gone.
Gone(d) == entry[d] # Nowhere /\ shelf[entry[d]] = Empty

\* The catalogue is written, or is not and what was to be written is forgotten.
Write ==
    /\ entry' \in [Docs -> Places \cup {Nowhere}] /\ pending' \in [Docs -> Places \cup {Nowhere}]
    /\ \A d \in Docs :
          /\ \/ entry'[d] = entry[d]
             \/ pending[d] # Nowhere /\ entry'[d] = pending[d]
             \/ Gone(d) /\ entry'[d] = Nowhere
          /\ pending'[d] \in {pending[d], Nowhere}
    /\ UNCHANGED <<listed, shelf, rows>>

\* A saved document is listed in the index.
AddRow(d) ==
    /\ entry[d] # Nowhere
    /\ rows' = rows \cup {<<d, entry[d]>>}
    /\ UNCHANGED <<listed, shelf, entry, pending>>

\* The person takes a copy.
Withdraw(p) ==
    /\ shelf[p] # Empty
    /\ shelf' = [shelf EXCEPT ![p] = Empty]
    /\ UNCHANGED <<listed, entry, pending, rows>>

Next ==
    \/ List
    \/ \E d \in Docs, p \in Places : Shelve(d, p)
    \/ Write
    \/ \E d \in Docs : AddRow(d)
    \/ \E p \in Places : Withdraw(p)

Spec == Init /\ [][Next]_vars
=============================================================================
