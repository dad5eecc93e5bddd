-------------------------- MODULE DocumentRun_archive --------------------------
(***************************************************************************)
(* Proof that the runs of one install implement Archive, for any set of    *)
(* documents and names and any bounds.  The run's own invariant (IInv) is  *)
(* proved in DocumentRun_proofs; ArchiveInv is added to it here, and each  *)
(* action is mapped to a step of Archive or to no step.                    *)
(***************************************************************************)
EXTENDS DocumentRun_proofs

AInv == IInv /\ ArchiveInv

\* A write of the record r takes r or leaves what was there.
LEMMA WriteMem ==
    ASSUME TypeOK, NEW d \in Docs, NEW r \in Record, NEW next, NEW onError,
           Write(d, r, next, onError)
    PROVE  /\ mem'[d] \in {mem[d], r}
           /\ r.ok => mem'[d] = r
           /\ \A e \in Docs : e # d => mem'[e] = mem[e]
           /\ disk' \in {disk, mem'}
  BY DEF Write, HeldBack, TypeOK, Record

-----------------------------------------------------------------------------
(* ArchiveInv *)

\* An install with nothing saved has nothing to take.
LEMMA InitArchiveInv == Init => ArchiveInv
  BY DEF Init, ArchiveInv, Attempting

\* Every step keeps ArchiveInv, one action at a time.
LEMMA ArchiveInvStep == AInv /\ [Next]_vars => ArchiveInv'
<1> SUFFICES ASSUME AInv, [Next]_vars PROVE ArchiveInv'
  OBVIOUS
<1>a. TypeOK /\ AttemptInv /\ ArchiveInv
  BY DEF AInv, IInv
<1>1. ASSUME NEW resume \in BOOLEAN, NEW redownload \in BOOLEAN, Start(resume, redownload)
      PROVE  ArchiveInv'
  BY <1>a, <1>1 DEF Start, ArchiveInv, Attempting, TypeOK
<1>2. ASSUME NEW listed \in SUBSET Docs, NEW selected \in SUBSET Docs, List(listed, selected)
      PROVE  ArchiveInv'
  BY <1>a, <1>2 DEF List, ArchiveInv, Attempting
<1>3. ASSUME NEW d \in Docs, Skip(d) \/ Take(d) PROVE ArchiveInv'
  BY <1>a, <1>3 DEF Skip, Take, ArchiveInv, Attempting
<1>4. ASSUME NEW kind \in {"whole", "broken"}, FetchSaves(kind) PROVE ArchiveInv'
  BY <1>a, <1>4 DEF FetchSaves, ArchiveInv, Attempting
<1>5. CASE FetchSavesNothing \/ FetchRaises \/ Finish
  BY <1>a, <1>5 DEF FetchSavesNothing, FetchRaises, Finish, ArchiveInv, Attempting
<1>6. CASE SignedOut \/ RecordReview
  <2>1. ~docOk /\ docOk' = docOk /\ Attempting
    BY <1>a, <1>6 DEF SignedOut, RecordReview, AttemptInv, Attempting
  <2> QED  BY <1>a, <1>6, <2>1 DEF SignedOut, RecordReview, ArchiveInv
<1>7. CASE RecordPlaced \/ PutAside
  <2>1. ~docOk /\ Attempting
    BY <1>a, <1>7 DEF RecordPlaced, PutAside, AttemptInv, Attempting
  <2>2. UNCHANGED <<known, todo, cur, docOk>>
    BY <1>7 DEF RecordPlaced, PutAside
  <2> QED  BY <1>a, <2>1, <2>2 DEF ArchiveInv
<1>8. CASE Complete
  <2> DEFINE r == [state |-> "Completed", ok |-> TRUE, path |-> out]
  <2>1. cur \in Docs /\ out \in Path /\ docPath = out /\ Attempting
    BY <1>a, <1>8 DEF Complete, AttemptInv, Attempting
  <2>2. r \in Record /\ r.ok /\ r.path = out /\ Write(cur, r, "row", "failing")
    BY <1>8, <2>1 DEF Complete, State, Record
  <2> HIDE DEF r
  <2>3. mem'[cur] = r
    BY <1>a, <2>1, <2>2, WriteMem
  <2> QED  BY <1>a, <1>8, <2>1, <2>2, <2>3 DEF Complete, ArchiveInv
<1>9. CASE WriteRow
  <2>1. Attempting /\ UNCHANGED <<known, todo, mem>>
    BY <1>9 DEF WriteRow, Attempting
  <2>2. pc' = "take" \/ UNCHANGED <<cur, docPath, docOk>>
    BY <1>9 DEF WriteRow
  <2> QED  BY <1>a, <2>1, <2>2 DEF ArchiveInv, Attempting
<1>10. CASE RecordFailed
  <2>1. pc' \in {"take", "leaving"}
    BY <1>10 DEF RecordFailed, Write
  <2> QED  BY <1>a, <1>10, <2>1 DEF RecordFailed, ArchiveInv, Attempting
<1>11. CASE SaveAndExit \/ Crash
  BY <1>a, <1>11 DEF SaveAndExit, Crash, RunEnded, ArchiveInv, Attempting
<1>12. CASE Leave
  BY <1>a, <1>12 DEF Leave, ArchiveInv, Attempting
<1>13. ASSUME NEW p \in Path, Delete(p) \/ Mend(p) PROVE ArchiveInv'
  BY <1>a, <1>13 DEF Delete, Mend, run, ArchiveInv, Attempting
<1>14. CASE UNCHANGED vars
  BY <1>a, <1>14 DEF vars, run, ArchiveInv, Attempting
<1> QED  BY <1>1, <1>2, <1>3, <1>4, <1>5, <1>6, <1>7, <1>8, <1>9, <1>10, <1>11, <1>12,
            <1>13, <1>14
            DEF Next, RunStep

\* AInv is inductive.
LEMMA AInvStep == AInv /\ [Next]_vars => AInv'
  BY ArchiveInvStep, IInvStep DEF AInv

-----------------------------------------------------------------------------
(* The steps *)

\* A file that is not a kept one changes nothing on the shelf.
LEMMA SameShelf ==
    ASSUME UNCHANGED kept, \A p \in kept : files'[p] = files[p]
    PROVE  Shelf' = Shelf
  BY DEF Shelf

\* What an entry may become: what it is, what the run holds, or nothing; and
\* what the run holds is what is then on disk, nothing, or both are as they were.
MayBecome(d) ==
    /\ PlaceOf(disk'[d]) \in {PlaceOf(disk[d]), PlaceOf(mem[d]), NoPath}
    /\ \/ PlaceOf(mem'[d]) \in {PlaceOf(disk'[d]), NoPath}
       \/ PlaceOf(disk'[d]) = PlaceOf(disk[d]) /\ PlaceOf(mem'[d]) = PlaceOf(mem[d])

\* Where a saved document's record names a place, it is one.
LEMMA EntryPlace ==
    ASSUME AInv, NEW d \in Docs
    PROVE  /\ PlaceOf(disk[d]) \in Path \cup {NoPath} /\ PlaceOf(mem[d]) \in Path \cup {NoPath}
           /\ disk[d].ok <=> PlaceOf(disk[d]) # NoPath
           /\ mem[d].ok <=> PlaceOf(mem[d]) # NoPath
<1>1. VouchedBy(disk) /\ VouchedBy(mem)
  BY DEF AInv, IInv
<1> QED  BY <1>1, NoPathAssumption DEF VouchedBy, PlaceOf

\* A step that writes records and leaves the shelf is a Write of the archive.
LEMMA WriteRefines ==
    ASSUME AInv, AInv', Shelf' = Shelf, Rows' = Rows, known' = known,
           \A d \in Docs : MayBecome(d),
           \A d \in Docs : disk[d].ok /\ disk[d].path \in kept => disk'[d].ok
    PROVE  Archived!Write
<1>1. ASSUME NEW d \in Docs
      PROVE  /\ PlaceOf(disk[d]) \in Path \cup {NoPath} /\ PlaceOf(mem[d]) \in Path \cup {NoPath}
             /\ disk[d].ok <=> PlaceOf(disk[d]) # NoPath
             /\ mem[d].ok <=> PlaceOf(mem[d]) # NoPath
             /\ PlaceOf(disk'[d]) \in Path \cup {NoPath} /\ PlaceOf(mem'[d]) \in Path \cup {NoPath}
             /\ disk'[d].ok <=> PlaceOf(disk'[d]) # NoPath
  <2>1. VouchedBy(disk)' /\ VouchedBy(mem)'
    BY DEF AInv, IInv
  <2> QED  BY EntryPlace, <2>1, NoPathAssumption DEF VouchedBy, PlaceOf
<1>2. Entry' \in [Docs -> Path \cup {NoPath}] /\ Pending' \in [Docs -> Path \cup {NoPath}]
  BY <1>1 DEF Entry, Pending
<1>3. ASSUME NEW d \in Docs, Entry[d] # NoPath, Entry[d] \notin kept
      PROVE  Archived!Gone(d)
  BY <1>1, <1>3 DEF Archived!Gone, Entry, Shelf
<1>4. ASSUME NEW d \in Docs
      PROVE  \/ Entry'[d] = Entry[d]
             \/ Pending[d] # NoPath /\ Entry'[d] = Pending[d]
             \/ Archived!Gone(d) /\ Entry'[d] = NoPath
  <2>1. CASE PlaceOf(disk'[d]) = PlaceOf(disk[d])
    BY <2>1 DEF Entry
  <2>2. CASE PlaceOf(disk'[d]) # PlaceOf(disk[d]) /\ PlaceOf(disk'[d]) # NoPath
    BY <2>2 DEF Entry, Pending, MayBecome
  <2>3. CASE PlaceOf(disk'[d]) # PlaceOf(disk[d]) /\ PlaceOf(disk'[d]) = NoPath
    <3>1. disk[d].ok /\ ~disk'[d].ok
      BY <1>1, <2>3
    <3>2. Entry[d] # NoPath /\ Entry[d] \notin kept
      BY <1>1, <3>1 DEF Entry, PlaceOf
    <3> QED  BY <1>3, <2>3, <3>2 DEF Entry
  <2> QED  BY <2>1, <2>2, <2>3
<1>5. ASSUME NEW d \in Docs PROVE Pending'[d] \in {Pending[d], NoPath}
  BY DEF Pending, MayBecome
<1> QED  BY <1>2, <1>4, <1>5 DEF Archived!Write

\* A step that touches no record, copy or row, and may list documents.
LEMMA ListRefines ==
    ASSUME AInv', Shelf' = Shelf, UNCHANGED <<disk, mem, index>>, known \subseteq known'
    PROVE  Archived!List
<1>1. known' \in SUBSET Docs
  BY DEF AInv, IInv, TypeOK
<1>2. UNCHANGED <<Entry, Pending, Rows>>
  BY DEF Entry, Pending, Rows
<1> QED  BY <1>1, <1>2 DEF Archived!List

\* No step but the person's takes a kept file from its place.
LEMMA RunShelf ==
    ASSUME AInv, [Next]_vars, UNCHANGED <<kept, edits>>
    PROVE  Shelf' = Shelf
<1>1. ASSUME NEW p \in kept PROVE files'[p] = files[p]
  <2>1. p \in Path /\ files[p] # NoFile
    BY <1>1 DEF AInv, IInv, TypeOK, PlaceInv
  <2> QED  BY <1>1, <2>1, FilesStep DEF AInv, IInv, Typed
<1> QED  BY <1>1, SameShelf

\* The write of a record that names no new place is one WriteRefines speaks of.
LEMMA WriteMayBecome ==
    ASSUME TypeOK, NEW d \in Docs, NEW r \in Record, NEW next, NEW onError,
           Write(d, r, next, onError),
           PlaceOf(r) \in {PlaceOf(mem[d]), NoPath}
    PROVE  \A e \in Docs : MayBecome(e)
<1>1. \A e \in Docs : PlaceOf(mem'[e]) \in {PlaceOf(mem[e]), NoPath}
  <2>1. mem'[d] \in {mem[d], r} /\ \A e \in Docs : e # d => mem'[e] = mem[e]
    BY WriteMem
  <2> QED  BY <2>1
<1>2. disk' = disk \/ disk' = mem'
  BY WriteMem
<1> QED  BY <1>1, <1>2 DEF MayBecome

\* A copy that passed the check is shelved.
LEMMA CompleteRefines == ASSUME AInv, AInv', Complete PROVE Archived!Shelve(cur, out)
<1> DEFINE r == [state |-> "Completed", ok |-> TRUE, path |-> out]
<1>1. cur \in Docs /\ out \in Path /\ Attempting /\ mem = disk /\ cur \in known
  BY DEF AInv, IInv, ArchiveInv, Complete, AttemptInv, SavedInv, Attempting
<1>2. out \notin kept /\ files[out].of = cur
  BY DEF AInv, IInv, Complete, AttemptInv, PlaceInv, Whole
<1>3. /\ r \in Record /\ PlaceOf(r) = out /\ r.ok
      /\ Write(cur, r, "row", "failing")
      /\ kept' = kept \cup {out} /\ UNCHANGED <<files, index, known>>
  BY <1>1 DEF Complete, State, Record, PlaceOf
<1> HIDE DEF r
<1>4. Shelf[out] = NoDoc /\ Shelf' = [Shelf EXCEPT ![out] = cur]
  BY <1>1, <1>2, <1>3 DEF Shelf
<1>5. /\ mem'[cur] = r /\ \A e \in Docs : e # cur => mem'[e] = mem[e]
      /\ disk' = disk \/ disk' = mem'
  BY <1>1, <1>3, WriteMem DEF AInv, IInv
<1>6. UNCHANGED <<known, Rows>>
  BY <1>3 DEF Rows
<1>7. \/ Entry' = [Entry EXCEPT ![cur] = out] /\ Pending' = Pending
      \/ Entry' = Entry /\ Pending' = [Pending EXCEPT ![cur] = out]
  <2>1. Pending = [d \in Docs |-> NoPath]
    BY <1>1 DEF Pending
  <2>2. CASE disk' = mem'
    <3>1. Pending' = [d \in Docs |-> NoPath]
      BY <2>2 DEF Pending
    <3>2. Entry' = [Entry EXCEPT ![cur] = out]
      BY <1>1, <1>3, <1>5, <2>2 DEF Entry
    <3> QED  BY <2>1, <3>1, <3>2
  <2>3. CASE disk' = disk /\ PlaceOf(disk[cur]) = out
    <3>1. \A d \in Docs : PlaceOf(mem'[d]) = PlaceOf(disk'[d])
      BY <1>1, <1>3, <1>5, <2>3
    <3>2. Pending' = [d \in Docs |-> NoPath]
      BY <3>1 DEF Pending
    <3>3. Entry' = [Entry EXCEPT ![cur] = out]
      BY <1>1, <2>3 DEF Entry
    <3> QED  BY <2>1, <3>2, <3>3
  <2>4. CASE disk' = disk /\ PlaceOf(disk[cur]) # out
    <3>1. Entry' = Entry
      BY <2>4 DEF Entry
    <3>2. \A d \in Docs : Pending'[d] = IF d = cur THEN out ELSE NoPath
      BY <1>1, <1>3, <1>5, <2>4 DEF Pending
    <3>3. Pending' = [d \in Docs |-> IF d = cur THEN out ELSE NoPath]
      BY <3>2 DEF Pending
    <3>4. Pending' = [Pending EXCEPT ![cur] = out]
      BY <2>1, <3>3
    <3> QED  BY <3>1, <3>4
  <2> QED  BY <1>5, <2>2, <2>3, <2>4
<1> QED  BY <1>1, <1>4, <1>6, <1>7 DEF Archived!Shelve

\* A row of a saved document is listed; any other changes nothing Archive has.
LEMMA WriteRowRefines ==
    ASSUME AInv, AInv', [Next]_vars, WriteRow
    PROVE  (\E d \in Docs : Archived!AddRow(d)) \/ Archived!List
<1>1. UNCHANGED <<kept, edits, files, disk, mem, known>>
  BY DEF WriteRow
<1>2. Shelf' = Shelf
  BY <1>1, RunShelf
<1>3. UNCHANGED <<Entry, Pending>>
  BY <1>1 DEF Entry, Pending
<1>4. CASE index' = index
  BY <1>1, <1>2, <1>4, ListRefines
<1>5. CASE index' # index
  <2> DEFINE row == [doc |-> cur, path |-> docPath,
                     status |-> IF docOk THEN "Completed" ELSE "Needs Manual Review"]
  <2>1. index' = index \cup {row} /\ pc = "row" /\ cur \in Docs
    BY <1>5 DEF WriteRow, AInv, IInv, AttemptInv, Attempting
  <2>2. row.doc = cur /\ row.path = docPath
        /\ (docOk => row.status = "Completed") /\ (~docOk => row.status # "Completed")
    BY DEF AInv, IInv, TypeOK
  <2> HIDE DEF row
  <2>3. CASE docOk
    <3>1. Entry[cur] = docPath /\ Entry[cur] # NoPath
      BY <2>1, <2>3, EntryPlace DEF AInv, IInv, SavedInv, Entry, PlaceOf
    <3>2. Rows' = Rows \cup {<<cur, Entry[cur]>>}
      BY <2>1, <2>2, <2>3, <3>1 DEF Rows
    <3> QED  BY <1>1, <1>2, <1>3, <2>1, <3>1, <3>2 DEF Archived!AddRow
  <2>4. CASE ~docOk
    <3>1. Rows' = Rows
      BY <2>1, <2>2, <2>4 DEF Rows
    <3> QED  BY <1>1, <1>2, <1>3, <3>1 DEF Archived!List, AInv, IInv, TypeOK
  <2> QED  BY <2>3, <2>4
<1> QED  BY <1>4, <1>5

\* The person takes a copy from the shelf, or a file that was never on it.
LEMMA DeleteRefines ==
    ASSUME AInv, AInv', NEW p \in Path, Delete(p)
    PROVE  Archived!Withdraw(p) \/ Archived!List
<1>1. UNCHANGED <<disk, mem, index, known>>
  BY DEF Delete, run
<1>2. UNCHANGED <<Entry, Pending, Rows>>
  BY <1>1 DEF Entry, Pending, Rows
<1>3. files' = [files EXCEPT ![p] = NoFile] /\ kept' = kept \ {p} /\ files[p] # NoFile
  BY DEF Delete
<1>4. CASE p \in kept
  <2>1. Shelf[p] \in Docs
    BY <1>3, <1>4 DEF AInv, IInv, TypeOK, File, Shelf
  <2>2. Shelf' = [Shelf EXCEPT ![p] = NoDoc]
    BY <1>3, <1>4 DEF Shelf, AInv, IInv, TypeOK
  <2> QED  BY <1>1, <1>2, <2>1, <2>2, NoneAssumption DEF Archived!Withdraw
<1>5. CASE p \notin kept
  <2>1. Shelf' = Shelf
    BY <1>3, <1>5 DEF Shelf, AInv, IInv, TypeOK
  <2> QED  BY <1>1, <2>1, ListRefines
<1> QED  BY <1>4, <1>5

\* Every step of an install is one of Archive, or changes nothing Archive has.
LEMMA StepRefines ==
    AInv /\ AInv' /\ [Next]_vars => Archived!Next \/ UNCHANGED Archived!vars
<1> SUFFICES ASSUME AInv, AInv', [Next]_vars
             PROVE  Archived!Next \/ UNCHANGED Archived!vars
  OBVIOUS
<1> DEFINE Here == Archived!Next \/ UNCHANGED Archived!vars
<1>a. TypeOK /\ AttemptInv /\ SavedInv /\ ArchiveInv
  BY DEF AInv, IInv
<1>b. \A d \in Docs : disk[d].ok /\ disk[d].path \in kept => disk'[d].ok
  BY SavedStep DEF AInv, IInv, Typed
<1>c. ASSUME UNCHANGED <<kept, edits, index, known>>, \A d \in Docs : MayBecome(d)
      PROVE  Here
  <2>1. Shelf' = Shelf /\ Rows' = Rows
    BY <1>c, RunShelf DEF Rows
  <2> QED  BY <1>b, <1>c, <2>1, WriteRefines DEF Archived!Next
<1>d. ASSUME UNCHANGED <<kept, edits, disk, mem, index>>, known \subseteq known'
      PROVE  Here
  BY <1>d, RunShelf, ListRefines DEF Archived!Next
<1>1. ASSUME NEW resume \in BOOLEAN, NEW redownload \in BOOLEAN, Start(resume, redownload)
      PROVE  Here
  BY <1>1, <1>c DEF Start, MayBecome
<1>2. ASSUME NEW listed \in SUBSET Docs, NEW selected \in SUBSET Docs, List(listed, selected)
      PROVE  Here
  BY <1>2, <1>d DEF List
<1>3. ASSUME NEW d \in Docs, Skip(d) \/ Take(d) PROVE Here
  BY <1>3, <1>d DEF Skip, Take
<1>4. ASSUME NEW kind \in {"whole", "broken"}, FetchSaves(kind) PROVE Here
  BY <1>4, <1>d DEF FetchSaves
<1>5. CASE FetchSavesNothing \/ FetchRaises \/ PutAside \/ Finish
  BY <1>5, <1>d DEF FetchSavesNothing, FetchRaises, PutAside, Finish
<1>6. ASSUME NEW st \in {"Discovered", "Needs Manual Review", "Failed"}, NEW next, NEW onError,
             Write(cur, Attempt(st), next, onError), Attempting,
             UNCHANGED <<kept, edits, index, known>>
      PROVE  Here
  <2>1. cur \in Docs /\ Attempt(st) \in Record
        /\ Attempt(st).ok = docOk /\ Attempt(st).path = docPath
    BY <1>a, <1>6, AttemptType DEF AttemptInv, State
  <2>2. PlaceOf(Attempt(st)) \in {PlaceOf(mem[cur]), NoPath}
    BY <1>a, <1>6, <2>1 DEF PlaceOf, ArchiveInv
  <2>3. \A d \in Docs : MayBecome(d)
    BY <1>a, <1>6, <2>1, <2>2, WriteMayBecome
  <2> QED  BY <1>6, <1>c, <2>3
<1>7. CASE SignedOut
  BY <1>7, <1>6 DEF SignedOut, Attempting
<1>8. CASE RecordReview
  BY <1>8, <1>6 DEF RecordReview, Attempting
<1>9. CASE RecordFailed
  BY <1>9, <1>6 DEF RecordFailed, Attempting
<1>10. CASE RecordPlaced
  <2> DEFINE r == [state |-> "PDF Saved", ok |-> docOk, path |-> out]
  <2>1. cur \in Docs /\ out \in Path /\ ~docOk
    BY <1>a, <1>10 DEF RecordPlaced, AttemptInv, Attempting
  <2>2. r \in Record /\ PlaceOf(r) = NoPath
    BY <1>a, <2>1 DEF State, Record, TypeOK, PlaceOf
  <2>3. Write(cur, r, "check", "failing") /\ UNCHANGED <<kept, edits, index, known>>
    BY <1>10 DEF RecordPlaced
  <2> HIDE DEF r
  <2>4. \A d \in Docs : MayBecome(d)
    BY <1>a, <2>1, <2>2, <2>3, WriteMayBecome
  <2> QED  BY <1>c, <2>3, <2>4
<1>11. CASE Complete
  <2>1. cur \in Docs /\ out \in Path
    BY <1>a, <1>11 DEF Complete, AttemptInv, Attempting
  <2> QED  BY <1>11, <2>1, CompleteRefines DEF Archived!Next
<1>12. CASE WriteRow
  BY <1>12, WriteRowRefines DEF Archived!Next
<1>13. CASE SaveAndExit
  <2>1. (disk' = mem \/ disk' = disk) /\ mem' = disk' /\ UNCHANGED <<kept, edits, index, known>>
    BY <1>13 DEF SaveAndExit
  <2> QED  BY <1>c, <2>1 DEF MayBecome
<1>14. CASE Leave
  BY <1>14, <1>d DEF Leave
<1>15. CASE Crash
  <2>1. disk' = disk /\ mem' = disk /\ UNCHANGED <<kept, edits, index, known>>
    BY <1>15 DEF Crash
  <2> QED  BY <1>c, <2>1 DEF MayBecome
<1>16. ASSUME NEW p \in Path, Delete(p) PROVE Here
  BY <1>16, DeleteRefines DEF Archived!Next
<1>17. ASSUME NEW p \in Path, Mend(p) PROVE Here
  <2>1. p \notin kept
    BY <1>17 DEF Mend, AInv, IInv, PlaceInv
  <2>2. \A q \in kept : files'[q] = files[q]
    BY <1>a, <1>17, <2>1 DEF Mend, TypeOK
  <2>3. UNCHANGED <<kept, disk, mem, index, known>>
    BY <1>17 DEF Mend, run
  <2> QED  BY <2>2, <2>3, SameShelf, ListRefines DEF Archived!Next
<1>18. CASE UNCHANGED vars
  BY <1>18, <1>d DEF vars, run
<1> QED  BY <1>1, <1>2, <1>3, <1>4, <1>5, <1>7, <1>8, <1>9, <1>10, <1>11, <1>12, <1>13,
            <1>14, <1>15, <1>16, <1>17, <1>18 DEF Next, RunStep

\* An install with nothing saved is an archive with nothing shelved.
LEMMA InitRefines == Init => Archived!Init
  BY DEF Init, Archived!Init, Shelf, Entry, Pending, Rows, PlaceOf, NoRecord

-----------------------------------------------------------------------------
(* Theorems *)

\* ArchiveInv holds in every state of an install.
THEOREM ArchiveInvariant == Spec => []AInv
<1>1. Init => AInv
  BY InitIInv, InitArchiveInv DEF AInv
<1> QED  BY <1>1, AInvStep, PTL DEF Spec

\* The runs of an install keep what Archive promises of its folder, for any
\* documents, names and bounds, however they are cut and whatever writes fail.
THEOREM ArchiveKept == Spec => KeepsArchive
  BY ArchiveInvariant, InitRefines, StepRefines, PTL DEF Spec, KeepsArchive, Archived!Spec
=============================================================================
