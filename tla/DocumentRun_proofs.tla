-------------------------- MODULE DocumentRun_proofs --------------------------
(***************************************************************************)
(* Proofs about DocumentRun, for any set of documents and names and any    *)
(* bounds.  The invariant IInv is proved in the order its parts lean on    *)
(* one another: types with attempts, then places, vouching and saving.     *)
(***************************************************************************)
EXTENDS DocumentRun, TLAPS

Typed == TypeOK /\ AttemptInv

\* What one write of a record may change, whatever comes of it.
LEMMA WriteType ==
    ASSUME TypeOK, NEW d \in Docs, NEW r \in Record,
           NEW next \in PCs, NEW onError \in PCs, Write(d, r, next, onError)
    PROVE  /\ mem' \in [Docs -> Record]
           /\ disk' \in [Docs -> Record]
           /\ savedNow' \subseteq Docs
           /\ loose' \subseteq Path
           /\ pc' \in {next, onError}
           /\ faults' \in 0 .. MaxFaults
<1>1. mem' \in [Docs -> Record]
  BY DEF Write, TypeOK
<1>2. savedNow' \subseteq Docs
  BY DEF Write, TypeOK
<1>3. faults' \in 0 .. MaxFaults
  <2>1. UNCHANGED faults \/ Fault
    BY DEF Write
  <2> QED  BY <2>1, BoundsAssumption DEF TypeOK, Fault
<1>4. disk' \in [Docs -> Record] /\ loose' \subseteq Path /\ pc' \in {next, onError}
  BY <1>1 DEF Write, TypeOK
<1> QED  BY <1>1, <1>2, <1>3, <1>4

\* The record an attempt writes is a record.
LEMMA AttemptType ==
    ASSUME TypeOK, NEW st \in State
    PROVE  /\ Attempt(st) \in Record
           /\ Attempt(st).state = st /\ Attempt(st).ok = docOk
           /\ Attempt(st).path = docPath
  BY DEF Attempt, Record, TypeOK

\* An install with nothing saved has its types, and no attempt.
LEMMA InitTyped == Init => Typed
<1> SUFFICES ASSUME Init PROVE Typed
  OBVIOUS
<1>1. NoRecord \in Record
  BY DEF NoRecord, Record, State
<1>2. TypeOK
  <2>1. faults \in 0 .. MaxFaults /\ agains \in 0 .. MaxAgains /\ edits \in 0 .. MaxEdits
    BY BoundsAssumption DEF Init
  <2>2. files \in [Path -> File \cup {NoFile}] /\ disk \in [Docs -> Record]
        /\ mem \in [Docs -> Record]
    BY <1>1 DEF Init
  <2> QED  BY <2>1, <2>2 DEF Init, TypeOK, PCs
<1>3. AttemptInv
  BY DEF Init, AttemptInv, Attempting
<1> QED  BY <1>2, <1>3 DEF Typed

\* A fault is counted within its bound.
LEMMA FaultType == ASSUME TypeOK, Fault PROVE faults' \in 0 .. MaxFaults
  BY BoundsAssumption DEF TypeOK, Fault

\* A file cut short stands at a path of the install.
LEMMA CutShortType ==
    ASSUME Typed, CutShort
    PROVE  files' \in [Path -> File \cup {NoFile}] /\ loose' \subseteq Path
  BY DEF Typed, TypeOK, AttemptInv, Attempting, CutShort, File

\* Every step keeps the types, one action at a time.
LEMMA TypeStep == Typed /\ [Next]_vars => TypeOK'
<1> SUFFICES ASSUME Typed, [Next]_vars PROVE TypeOK'
  OBVIOUS
<1> USE DEF Typed
<1>1. ASSUME NEW resume \in BOOLEAN, NEW redownload \in BOOLEAN, Start(resume, redownload)
      PROVE  TypeOK'
  BY <1>1, BoundsAssumption DEF TypeOK, Start, PCs
<1>2. ASSUME NEW listed \in SUBSET Docs, NEW selected \in SUBSET Docs, List(listed, selected)
      PROVE  TypeOK'
  BY <1>2 DEF TypeOK, List, PCs
<1>3. ASSUME NEW d \in Docs, Skip(d) PROVE TypeOK'
  BY <1>3 DEF TypeOK, Skip
<1>4. ASSUME NEW d \in Docs, Take(d) PROVE TypeOK'
  BY <1>4 DEF TypeOK, Take, UniquePath, PCs
<1>5. ASSUME NEW kind \in {"whole", "broken"}, FetchSaves(kind) PROVE TypeOK'
  <2>1. faults' \in 0 .. MaxFaults
    BY <1>5, FaultType DEF FetchSaves, TypeOK
  <2> QED  BY <1>5, <2>1 DEF TypeOK, AttemptInv, Attempting, FetchSaves, PCs, File
<1>6. CASE FetchSavesNothing
  BY <1>6 DEF TypeOK, FetchSavesNothing, PCs
<1>7. CASE FetchRaises
  <2>1. files' \in [Path -> File \cup {NoFile}] /\ loose' \subseteq Path
    BY <1>7, CutShortType DEF FetchRaises, TypeOK
  <2> QED  BY <1>7, <2>1, FaultType DEF TypeOK, FetchRaises, PCs
<1>8. CASE SignedOut
  <2>1. Attempt("Discovered") \in Record /\ cur \in Docs
    BY <1>8, AttemptType DEF SignedOut, AttemptInv, Attempting, State
  <2> QED  BY <1>8, <2>1, WriteType DEF TypeOK, SignedOut, PCs
<1>9. CASE RecordPlaced
  <2> DEFINE r == [state |-> "PDF Saved", ok |-> docOk, path |-> out]
  <2>1. r \in Record /\ cur \in Docs /\ out \in Path
    BY <1>9 DEF RecordPlaced, AttemptInv, Attempting, State, Record, TypeOK
  <2> QED  BY <1>9, <2>1, WriteType DEF TypeOK, RecordPlaced, PCs
<1>10. CASE Complete
  <2> DEFINE r == [state |-> "Completed", ok |-> TRUE, path |-> out]
  <2>1. r \in Record /\ cur \in Docs /\ out \in Path
    BY <1>10 DEF Complete, AttemptInv, Attempting, State, Record, TypeOK
  <2> QED  BY <1>10, <2>1, WriteType DEF TypeOK, Complete, PCs
<1>11. CASE PutAside
  <2>1. faults' \in 0 .. MaxFaults
    BY <1>11, FaultType DEF PutAside, TypeOK
  <2>2. files' \in [Path -> File \cup {NoFile}] /\ loose' \subseteq Path
        /\ docPath' \in Path \cup {NoPath}
    <3>1. out \in Path
      BY <1>11 DEF PutAside, AttemptInv, Attempting
    <3>2. CASE UNCHANGED <<files, docPath, loose>>
      BY <3>2 DEF TypeOK
    <3>3. ASSUME NEW q \in UniquePath("review", out.name), files[out] # NoFile,
                 files' = [files EXCEPT ![q] = files[out], ![out] = NoFile],
                 docPath' = q, loose' = (loose \ {out}) \cup {q}
          PROVE  files' \in [Path -> File \cup {NoFile}] /\ loose' \subseteq Path
                 /\ docPath' \in Path \cup {NoPath}
      <4>1. q \in Path /\ files[out] \in File \cup {NoFile}
        BY <3>1 DEF UniquePath, TypeOK
      <4> QED  BY <3>3, <4>1 DEF TypeOK
    <3> QED  BY <1>11, <3>2, <3>3 DEF PutAside
  <2> QED  BY <1>11, <2>1, <2>2 DEF TypeOK, PutAside, PCs
<1>12. CASE RecordReview
  <2>1. Attempt("Needs Manual Review") \in Record /\ cur \in Docs
    BY <1>12, AttemptType DEF RecordReview, AttemptInv, Attempting, State
  <2> QED  BY <1>12, <2>1, WriteType DEF TypeOK, RecordReview, PCs
<1>13. CASE WriteRow
  <2>1. index' \subseteq Row
    <3> DEFINE row == [doc |-> cur, path |-> docPath,
                       status |-> IF docOk THEN "Completed" ELSE "Needs Manual Review"]
    <3>1. row \in Row
      BY <1>13 DEF WriteRow, TypeOK, AttemptInv, Attempting, Row
    <3>2. index' = index \cup {row} \/ index' = index
      BY <1>13 DEF WriteRow
    <3> HIDE DEF row
    <3> QED  BY <3>1, <3>2 DEF TypeOK
  <2>2. faults' \in 0 .. MaxFaults
    BY <1>13, FaultType DEF WriteRow, TypeOK
  <2> QED  BY <1>13, <2>1, <2>2 DEF TypeOK, WriteRow, DocEnded, PCs
<1>14. CASE RecordFailed
  <2>1. Attempt("Failed") \in Record /\ cur \in Docs
    BY <1>14, AttemptType DEF RecordFailed, AttemptInv, Attempting, State
  <2> QED  BY <1>14, <2>1, WriteType DEF TypeOK, RecordFailed, DocEnded, PCs
<1>15. CASE Finish
  BY <1>15 DEF TypeOK, Finish, PCs
<1>16. CASE SaveAndExit
  BY <1>16, FaultType DEF TypeOK, SaveAndExit, RunEnded, DocEnded, PCs
<1>17. CASE Leave
  <2>1. files' \in [Path -> File \cup {NoFile}] /\ loose' \subseteq Path
    BY <1>17, CutShortType DEF Leave, TypeOK
  <2> QED  BY <1>17, <2>1, FaultType DEF TypeOK, Leave, DocEnded, PCs
<1>18. CASE Crash
  <2>1. files' \in [Path -> File \cup {NoFile}] /\ loose' \subseteq Path
    BY <1>18, CutShortType DEF Crash, TypeOK
  <2> QED  BY <1>18, <2>1, FaultType DEF TypeOK, Crash, RunEnded, DocEnded, PCs
<1>19. ASSUME NEW p \in Path, Delete(p) PROVE TypeOK'
  BY <1>19, BoundsAssumption DEF TypeOK, Delete, run
<1>20. ASSUME NEW p \in Path, Mend(p) PROVE TypeOK'
  <2>1. files[p] \in File
    BY <1>20 DEF Mend, TypeOK
  <2>2. [files[p] EXCEPT !.kind = "whole"] \in File
    BY <2>1 DEF File
  <2> QED  BY <1>20, <2>2, BoundsAssumption DEF TypeOK, Mend, run
<1>21. CASE UNCHANGED vars
  BY <1>21 DEF TypeOK, vars, run
<1> QED  BY <1>1, <1>2, <1>3, <1>4, <1>5, <1>6, <1>7, <1>8, <1>9, <1>10, <1>11, <1>12,
            <1>13, <1>14, <1>15, <1>16, <1>17, <1>18, <1>19, <1>20, <1>21
            DEF Next, RunStep

-----------------------------------------------------------------------------
(* Attempts *)

\* A write of a record leaves the run at one of the places it was given.
LEMMA WritePc ==
    ASSUME NEW d, NEW r, NEW next, NEW onError, Write(d, r, next, onError)
    PROVE  pc' \in {next, onError}
  BY DEF Write

\* Every step keeps what an attempt knows of its document and its copy.
LEMMA AttemptStep == Typed /\ [Next]_vars => AttemptInv'
<1> SUFFICES ASSUME Typed, [Next]_vars PROVE AttemptInv'
  OBVIOUS
<1> USE DEF Typed
<1>0. TypeOK'
  BY TypeStep
<1>1. ASSUME NEW resume \in BOOLEAN, NEW redownload \in BOOLEAN, Start(resume, redownload)
      PROVE  AttemptInv'
  BY <1>1 DEF AttemptInv, Attempting, Start
<1>2. ASSUME NEW listed \in SUBSET Docs, NEW selected \in SUBSET Docs, List(listed, selected)
      PROVE  AttemptInv'
  BY <1>2 DEF AttemptInv, Attempting, List
<1>3. ASSUME NEW d \in Docs, Skip(d) PROVE AttemptInv'
  BY <1>3 DEF AttemptInv, Attempting, Skip
<1>4. ASSUME NEW d \in Docs, Take(d) PROVE AttemptInv'
  BY <1>4 DEF AttemptInv, Attempting, Take, UniquePath
<1>5. ASSUME NEW kind \in {"whole", "broken"}, FetchSaves(kind) PROVE AttemptInv'
  BY <1>5 DEF AttemptInv, Attempting, FetchSaves, TypeOK
<1>6. CASE FetchSavesNothing
  BY <1>6 DEF AttemptInv, Attempting, FetchSavesNothing
<1>7. CASE FetchRaises
  BY <1>7 DEF AttemptInv, Attempting, FetchRaises, CutShort
<1>8. CASE SignedOut
  <2>1. pc' \in {"leaving", "failing"}
    BY <1>8, WritePc DEF SignedOut
  <2> QED  BY <1>8, <2>1 DEF AttemptInv, Attempting, SignedOut
<1>9. CASE RecordPlaced
  <2>1. pc' \in {"check", "failing"}
    BY <1>9, WritePc DEF RecordPlaced
  <2> QED  BY <1>9, <2>1 DEF AttemptInv, Attempting, RecordPlaced
<1>10. CASE Complete
  <2>1. pc' \in {"row", "failing"}
    BY <1>10, WritePc DEF Complete
  <2> QED  BY <1>10, <2>1, NoPathAssumption DEF AttemptInv, Attempting, Complete, Whole
<1>11. CASE PutAside
  <2>1. out \in Path /\ cur \in Docs /\ ~docOk /\ docPath = out /\ pc' = "aside"
    BY <1>11 DEF PutAside, AttemptInv, Attempting
  <2>2. files'[docPath'] = NoFile \/ files'[docPath'].of = cur
    <3>1. CASE UNCHANGED <<files, docPath, loose>>
      BY <1>11, <2>1, <3>1 DEF PutAside, AttemptInv
    <3>2. ASSUME NEW q \in UniquePath("review", out.name), files[out] # NoFile,
                 files' = [files EXCEPT ![q] = files[out], ![out] = NoFile], docPath' = q
          PROVE  files'[docPath'] = NoFile \/ files'[docPath'].of = cur
      <4>1. q \in Path /\ q # out
        BY <3>2 DEF UniquePath
      <4>2. files'[q] = files[out]
        BY <2>1, <3>2, <4>1 DEF TypeOK
      <4> QED  BY <1>11, <2>1, <3>2, <4>2 DEF PutAside, AttemptInv
    <3> QED  BY <1>11, <3>1, <3>2 DEF PutAside
  <2> QED  BY <1>11, <2>1, <2>2 DEF AttemptInv, Attempting, PutAside
<1>12. CASE RecordReview
  <2>1. pc' \in {"row", "failing"}
    BY <1>12, WritePc DEF RecordReview
  <2> QED  BY <1>12, <2>1 DEF AttemptInv, Attempting, RecordReview
<1>13. CASE WriteRow
  <2>1. CASE pc' = "take" /\ DocEnded
    BY <1>13, <2>1 DEF AttemptInv, Attempting, DocEnded
  <2>2. CASE pc' = "failing" /\ UNCHANGED <<cur, out, docPath, docOk>>
    BY <1>13, <2>2 DEF AttemptInv, Attempting, WriteRow
  <2> QED  BY <1>13, <2>1, <2>2 DEF WriteRow
<1>14. CASE RecordFailed
  <2>1. pc' \in {"take", "leaving"}
    BY <1>14, WritePc DEF RecordFailed
  <2> QED  BY <1>14, <2>1 DEF AttemptInv, Attempting, RecordFailed, DocEnded
<1>15. CASE Finish
  BY <1>15 DEF AttemptInv, Attempting, Finish
<1>16. CASE SaveAndExit
  BY <1>16 DEF AttemptInv, Attempting, SaveAndExit, RunEnded, DocEnded
<1>17. CASE Leave
  BY <1>17 DEF AttemptInv, Attempting, Leave, DocEnded
<1>18. CASE Crash
  BY <1>18 DEF AttemptInv, Attempting, Crash, RunEnded, DocEnded
<1>19. ASSUME NEW p \in Path, Delete(p) PROVE AttemptInv'
  BY <1>19 DEF AttemptInv, Attempting, Delete, run, TypeOK
<1>20. ASSUME NEW p \in Path, Mend(p) PROVE AttemptInv'
  <2>1. \A q \in Path : /\ files'[q] = NoFile <=> files[q] = NoFile
                        /\ files[q] # NoFile =>
                             /\ files'[q].of = files[q].of
                             /\ files'[q].kind = files[q].kind \/ files'[q].kind = "whole"
    <3>1. files[p] \in File
      BY <1>20 DEF Mend, TypeOK
    <3>2. [files[p] EXCEPT !.kind = "whole"] \in File
      BY <3>1 DEF File
    <3> QED  BY <1>20, <3>1, <3>2, NoFileAssumption DEF Mend, TypeOK, File
  <2> QED  BY <1>20, <2>1 DEF AttemptInv, Attempting, Mend, run, TypeOK
<1>21. CASE UNCHANGED vars
  BY <1>21 DEF AttemptInv, Attempting, vars, run
<1> QED  BY <1>1, <1>2, <1>3, <1>4, <1>5, <1>6, <1>7, <1>8, <1>9, <1>10, <1>11, <1>12,
            <1>13, <1>14, <1>15, <1>16, <1>17, <1>18, <1>19, <1>20, <1>21
            DEF Next, RunStep

-----------------------------------------------------------------------------
(* Places *)

\* Actions that leave the files and the kept set alone need only the places
\* of the attempt to be looked at.
LEMMA PlaceStep == Typed /\ PlaceInv /\ [Next]_vars => PlaceInv'
<1> SUFFICES ASSUME Typed, PlaceInv, [Next]_vars PROVE PlaceInv'
  OBVIOUS
<1> USE DEF Typed, PlaceInv
<1>0. NoPath \notin kept
  BY NoPathAssumption DEF TypeOK
<1>1. ASSUME NEW resume \in BOOLEAN, NEW redownload \in BOOLEAN, Start(resume, redownload)
      PROVE  PlaceInv'
  BY <1>1 DEF Start
<1>2. ASSUME NEW listed \in SUBSET Docs, NEW selected \in SUBSET Docs, List(listed, selected)
      PROVE  PlaceInv'
  BY <1>2 DEF List
<1>3. ASSUME NEW d \in Docs, Skip(d) PROVE PlaceInv'
  BY <1>3 DEF Skip
<1>4. ASSUME NEW d \in Docs, Take(d) PROVE PlaceInv'
  BY <1>0, <1>4 DEF Take, UniquePath
<1>5. ASSUME NEW kind \in {"whole", "broken"}, FetchSaves(kind) PROVE PlaceInv'
  BY <1>5 DEF FetchSaves, TypeOK
<1>6. CASE FetchSavesNothing
  BY <1>6 DEF FetchSavesNothing
<1>7. CASE FetchRaises
  BY <1>7 DEF FetchRaises, CutShort, TypeOK
<1>8. CASE SignedOut
  <2>1. pc' \in {"leaving", "failing"}
    BY <1>8, WritePc DEF SignedOut
  <2> QED  BY <1>8, <2>1 DEF SignedOut
<1>9. CASE RecordPlaced
  <2>1. pc' \in {"check", "failing"}
    BY <1>9, WritePc DEF RecordPlaced
  <2> QED  BY <1>9, <2>1 DEF RecordPlaced
<1>10. CASE Complete
  <2>1. pc' \in {"row", "failing"}
    BY <1>10, WritePc DEF Complete
  <2> QED  BY <1>10, <2>1 DEF Complete, Whole
<1>11. CASE PutAside
  <2>1. out \notin kept /\ docPath = out /\ pc' = "aside" /\ UNCHANGED <<docOk, kept>>
    BY <1>11 DEF PutAside, AttemptInv
  <2>2. CASE UNCHANGED <<files, docPath, loose>>
    BY <2>1, <2>2
  <2>3. ASSUME NEW q \in UniquePath("review", out.name), files[out] # NoFile,
               files' = [files EXCEPT ![q] = files[out], ![out] = NoFile], docPath' = q
        PROVE  PlaceInv'
    <3>1. q \in Path /\ files[q] = NoFile
      BY <2>3 DEF UniquePath
    <3>2. q \notin kept
      BY <3>1
    <3>3. \A p \in kept : files'[p] = files[p]
      BY <2>1, <2>3, <3>2 DEF TypeOK
    <3> QED  BY <2>1, <2>3, <3>2, <3>3
  <2> QED  BY <1>11, <2>2, <2>3 DEF PutAside
<1>12. CASE RecordReview
  <2>1. pc' \in {"row", "failing"}
    BY <1>12, WritePc DEF RecordReview
  <2> QED  BY <1>12, <2>1 DEF RecordReview
<1>13. CASE WriteRow
  <2>1. CASE pc' = "take" /\ DocEnded
    BY <1>0, <1>13, <2>1 DEF WriteRow, DocEnded
  <2>2. CASE pc' = "failing" /\ UNCHANGED <<cur, out, docPath, docOk>>
    BY <1>13, <2>2 DEF WriteRow
  <2> QED  BY <1>13, <2>1, <2>2 DEF WriteRow
<1>14. CASE RecordFailed
  <2>1. pc' \in {"take", "leaving"}
    BY <1>14, WritePc DEF RecordFailed
  <2> QED  BY <1>0, <1>14, <2>1 DEF RecordFailed, DocEnded
<1>15. CASE Finish
  BY <1>15 DEF Finish
<1>16. CASE SaveAndExit
  BY <1>0, <1>16 DEF SaveAndExit, RunEnded, DocEnded
<1>17. CASE Leave
  BY <1>0, <1>17 DEF Leave, CutShort, DocEnded, TypeOK
<1>18. CASE Crash
  BY <1>0, <1>18 DEF Crash, CutShort, RunEnded, DocEnded, TypeOK
<1>19. ASSUME NEW p \in Path, Delete(p) PROVE PlaceInv'
  BY <1>19 DEF Delete, run, TypeOK
<1>20. ASSUME NEW p \in Path, Mend(p) PROVE PlaceInv'
  <2>1. p \notin kept
    BY <1>20 DEF Mend
  <2>2. files[out] = NoFile => files'[out] = NoFile
    BY <1>20 DEF Mend, TypeOK
  <2>3. \A q \in kept : files'[q] = files[q]
    BY <1>20, <2>1 DEF Mend, TypeOK
  <2> QED  BY <1>20, <2>2, <2>3 DEF Mend, run
<1>21. CASE UNCHANGED vars
  BY <1>21 DEF vars, run
<1> QED  BY <1>1, <1>2, <1>3, <1>4, <1>5, <1>6, <1>7, <1>8, <1>9, <1>10, <1>11, <1>12,
            <1>13, <1>14, <1>15, <1>16, <1>17, <1>18, <1>19, <1>20, <1>21
            DEF Next, RunStep

\* No step replaces a file, and none takes a kept one away but the person.
LEMMA FilesStep ==
    ASSUME Typed, PlaceInv, [Next]_vars,
           NEW p \in Path, files[p] # NoFile, files'[p] # files[p]
    PROVE  edits' # edits \/ (p \notin kept /\ files'[p] = NoFile)
<1>1. ASSUME CutShort \/ UNCHANGED <<files, loose>> PROVE FALSE
  BY <1>1 DEF CutShort, PlaceInv, TypeOK, Typed
<1>2. ASSUME NEW kind \in {"whole", "broken"}, FetchSaves(kind) PROVE FALSE
  BY <1>2 DEF FetchSaves, PlaceInv, TypeOK, Typed
<1>3. CASE PutAside
  <2>1. out \notin kept
    BY <1>3 DEF PutAside, PlaceInv
  <2>2. PICK q \in UniquePath("review", out.name) :
            files' = [files EXCEPT ![q] = files[out], ![out] = NoFile]
    BY <1>3 DEF PutAside
  <2>3. p # q
    BY <2>2 DEF UniquePath
  <2>4. p = out /\ files'[p] = NoFile
    BY <2>2, <2>3 DEF TypeOK, Typed
  <2> QED  BY <2>1, <2>4
<1>4. ASSUME NEW q \in Path, Delete(q) \/ Mend(q) PROVE edits' # edits
  BY <1>4 DEF Delete, Mend, TypeOK, Typed
<1>5. CASE UNCHANGED files
  BY <1>5
<1> QED
  BY <1>1, <1>2, <1>3, <1>4, <1>5
     DEF Next, RunStep, vars, Start, List, Skip, Take, FetchSavesNothing, FetchRaises,
         SignedOut, RecordPlaced, Complete, RecordReview, WriteRow, RecordFailed,
         Finish, SaveAndExit, Leave, Crash

-----------------------------------------------------------------------------
(* Vouching *)

Vouched == VouchedBy(disk) /\ VouchedBy(mem)

\* A write keeps what the records vouch for: one that is held back tells the
\* records of no path, unless it is the very path they name.
LEMMA WriteVouched ==
    ASSUME TypeOK, Vouched, UNCHANGED files,
           NEW d \in Docs, NEW r \in Record, NEW next, NEW onError,
           Write(d, r, next, onError),
           r.path # NoPath => files[r.path] = NoFile \/ files[r.path].of = d,
           r.ok => r.path # NoPath /\ (files[r.path] = NoFile \/ files[r.path].kind = "whole")
    PROVE  Vouched'
<1>0. r.path \in Path \cup {NoPath} /\ r.ok \in BOOLEAN
  BY DEF Record
<1>1. VouchedBy(mem)'
  <2> SUFFICES ASSUME NEW e \in Docs, mem'[e].ok
               PROVE  /\ mem'[e].path \in Path
                      /\ \/ files[mem'[e].path] = NoFile
                         \/ files[mem'[e].path].of # e
                         \/ files[mem'[e].path].kind = "whole"
                         \/ mem'[e].path \in loose'
    BY DEF VouchedBy
  <2>1. CASE e = d /\ ~HeldBack(d, r)
    <3>1. mem'[e] = r
      BY <2>1 DEF Write, TypeOK
    <3> QED  BY <1>0, <3>1
  <2>2. CASE e = d /\ HeldBack(d, r)
    <3>1. mem'[e] = mem[e] /\ ~r.ok
      BY <2>2 DEF Write, HeldBack
    <3>2. r.state = "PDF Saved" \/ r.path = NoPath \/ r.path # mem[e].path
      BY <2>2 DEF HeldBack, NamesItsCopy
    <3>3. mem[e].path \in loose /\ mem[e].path \in Path => mem[e].path \in loose'
      BY <3>2, NoPathAssumption DEF Write
    <3> QED  BY <3>1, <3>3 DEF Vouched, VouchedBy
  <2>3. CASE e # d
    <3>1. mem'[e] = mem[e]
      BY <2>3 DEF Write, TypeOK
    <3>2. CASE r.path = mem[e].path
      BY <1>0, <2>3, <3>1, <3>2, NoPathAssumption DEF Vouched, VouchedBy
    <3>3. CASE r.path # mem[e].path
      BY <3>1, <3>3 DEF Write, Vouched, VouchedBy
    <3> QED  BY <3>2, <3>3
  <2> QED  BY <2>1, <2>2, <2>3
<1>2. disk' = mem' \/ (disk' = disk /\ UNCHANGED loose)
  BY DEF Write
<1> QED  BY <1>1, <1>2 DEF Vouched, VouchedBy

\* Where the files and the loose ones stay, so does what the records vouch for.
LEMMA SameVouched ==
    ASSUME Vouched, UNCHANGED <<files, loose>>, disk' \in {disk, mem}, mem' \in {disk, mem}
    PROVE  Vouched'
  BY DEF Vouched, VouchedBy

\* A file put at a path is told nobody yet.
LEMMA CutShortVouched ==
    ASSUME Typed, Vouched, CutShort \/ UNCHANGED <<files, loose>>,
           UNCHANGED disk, mem' \in {disk, mem}
    PROVE  Vouched'
<1>1. CASE CutShort
  BY <1>1 DEF CutShort, Typed, TypeOK, Vouched, VouchedBy
<1>2. CASE UNCHANGED <<files, loose>>
  BY <1>2, SameVouched
<1> QED  BY <1>1, <1>2

\* Every step keeps the records, on disk and in memory, to copies they may name.
LEMMA VouchedStep == Typed /\ PlaceInv /\ Vouched /\ [Next]_vars => Vouched'
<1> SUFFICES ASSUME Typed, PlaceInv, Vouched, [Next]_vars PROVE Vouched'
  OBVIOUS
<1>a. TypeOK
  BY DEF Typed
<1>1. ASSUME NEW resume \in BOOLEAN, NEW redownload \in BOOLEAN, Start(resume, redownload)
      PROVE  Vouched'
  BY <1>1, SameVouched DEF Start
<1>2. ASSUME NEW listed \in SUBSET Docs, NEW selected \in SUBSET Docs, List(listed, selected)
      PROVE  Vouched'
  BY <1>2, SameVouched DEF List
<1>3. ASSUME NEW d \in Docs, Skip(d) \/ Take(d) PROVE Vouched'
  BY <1>3, SameVouched DEF Skip, Take
<1>4. ASSUME NEW kind \in {"whole", "broken"}, FetchSaves(kind) PROVE Vouched'
  BY <1>a, <1>4 DEF FetchSaves, TypeOK, Vouched, VouchedBy
<1>5. CASE FetchSavesNothing \/ Finish \/ WriteRow
  BY <1>5, SameVouched DEF FetchSavesNothing, Finish, WriteRow
<1>6. CASE FetchRaises
  BY <1>6, CutShortVouched DEF FetchRaises
<1>7. CASE SignedOut
  <2>1. Attempt("Discovered") \in Record /\ cur \in Docs /\ docPath = NoPath /\ ~docOk
    BY <1>a, <1>7, AttemptType DEF SignedOut, Typed, AttemptInv, Attempting, State
  <2> QED  BY <1>a, <1>7, <2>1, WriteVouched, AttemptType DEF SignedOut, State
<1>8. CASE RecordPlaced
  <2> DEFINE r == [state |-> "PDF Saved", ok |-> docOk, path |-> out]
  <2>1. /\ cur \in Docs /\ out \in Path /\ ~docOk
        /\ files[out] = NoFile \/ files[out].of = cur
    BY <1>8 DEF RecordPlaced, Typed, AttemptInv, Attempting
  <2>2. r \in Record
    BY <1>a, <2>1 DEF State, Record, TypeOK
  <2>3. Write(cur, r, "check", "failing") /\ UNCHANGED files
    BY <1>8 DEF RecordPlaced
  <2>4. r.path = out /\ r.ok = docOk
    OBVIOUS
  <2> HIDE DEF r
  <2> QED  BY <1>a, <2>1, <2>2, <2>3, <2>4, WriteVouched
<1>9. CASE Complete
  <2> DEFINE r == [state |-> "Completed", ok |-> TRUE, path |-> out]
  <2>1. /\ cur \in Docs /\ out \in Path /\ files[out].kind = "whole"
        /\ files[out] = NoFile \/ files[out].of = cur
    BY <1>9 DEF Complete, Whole, Typed, AttemptInv, Attempting
  <2>2. r \in Record
    BY <2>1 DEF State, Record
  <2>3. Write(cur, r, "row", "failing") /\ UNCHANGED files
    BY <1>9 DEF Complete
  <2>4. r.path = out /\ r.ok = TRUE /\ out # NoPath
    BY <2>1, NoPathAssumption
  <2> HIDE DEF r
  <2> QED  BY <1>a, <2>1, <2>2, <2>3, <2>4, WriteVouched
<1>10. CASE PutAside
  <2>1. CASE UNCHANGED <<files, docPath, loose>>
    BY <1>10, <2>1, SameVouched DEF PutAside
  <2>2. ASSUME NEW q \in UniquePath("review", out.name), files[out] # NoFile,
               files' = [files EXCEPT ![q] = files[out], ![out] = NoFile],
               loose' = (loose \ {out}) \cup {q}
        PROVE  Vouched'
    <3>1. q \in Path /\ q # out /\ UNCHANGED <<disk, mem>>
      BY <1>10, <2>2 DEF UniquePath, PutAside
    <3> QED  BY <1>a, <2>2, <3>1 DEF TypeOK, Vouched, VouchedBy
  <2> QED  BY <1>10, <2>1, <2>2 DEF PutAside
<1>11. CASE RecordReview
  <2>1. Attempt("Needs Manual Review") \in Record /\ cur \in Docs /\ ~docOk
    BY <1>a, <1>11, AttemptType DEF RecordReview, Typed, AttemptInv, Attempting, State
  <2>2. docPath # NoPath => files[docPath] = NoFile \/ files[docPath].of = cur
    BY DEF Typed, AttemptInv
  <2> QED  BY <1>a, <1>11, <2>1, <2>2, WriteVouched, AttemptType DEF RecordReview, State
<1>12. CASE RecordFailed
  <2>1. Attempt("Failed") \in Record /\ cur \in Docs
    BY <1>a, <1>12, AttemptType DEF RecordFailed, Typed, AttemptInv, Attempting, State
  <2>2. /\ docPath # NoPath => files[docPath] = NoFile \/ files[docPath].of = cur
        /\ docOk => docPath # NoPath
                    /\ (files[docPath] = NoFile \/ files[docPath].kind = "whole")
    BY DEF Typed, AttemptInv
  <2> QED  BY <1>a, <1>12, <2>1, <2>2, WriteVouched, AttemptType DEF RecordFailed, State
<1>13. CASE SaveAndExit
  BY <1>13, SameVouched DEF SaveAndExit
<1>14. CASE Leave \/ Crash
  BY <1>14, CutShortVouched DEF Leave, Crash
<1>15. ASSUME NEW p \in Path, Delete(p) PROVE Vouched'
  BY <1>a, <1>15 DEF Delete, run, TypeOK, Vouched, VouchedBy
<1>16. ASSUME NEW p \in Path, Mend(p) PROVE Vouched'
  <2>1. \A q \in Path : q # p => files'[q] = files[q]
    BY <1>a, <1>16 DEF Mend, TypeOK
  <2>2. files'[p].kind = "whole"
    <3>1. files[p] \in File
      BY <1>a, <1>16 DEF Mend, TypeOK
    <3>2. files'[p] = [files[p] EXCEPT !.kind = "whole"]
      BY <1>a, <1>16 DEF Mend, TypeOK
    <3> QED  BY <3>1, <3>2 DEF File
  <2> QED  BY <1>16, <2>1, <2>2 DEF Mend, run, Vouched, VouchedBy
<1>17. CASE UNCHANGED vars
  BY <1>17, SameVouched DEF vars, run
<1> QED  BY <1>1, <1>2, <1>3, <1>4, <1>5, <1>6, <1>7, <1>8, <1>9, <1>10, <1>11, <1>12,
            <1>13, <1>14, <1>15, <1>16, <1>17
            DEF Next, RunStep

-----------------------------------------------------------------------------
(* Saving *)

\* A saved copy that stands is in the records as saved.
KeptKnown == \A d \in Docs : disk[d].ok /\ disk[d].path \in kept => mem[d].ok

\* A write takes "saved" off no document whose copy stands: one this run has
\* not saved is held back, unless the attempt failed at the very path.
LEMMA WriteSaved ==
    ASSUME TypeOK, SavedInv, NEW d \in Docs, NEW r \in Record,
           NEW next, NEW onError \in {"failing", "leaving"},
           Write(d, r, next, onError),
           ~r.ok => d \notin savedNow,
           ~r.ok /\ r.state # "PDF Saved" => r.path \notin kept,
           kept' = kept \/ (r.ok /\ mem = disk /\ kept' = kept \cup {r.path})
    PROVE  /\ pc' \notin {"failing", "leaving"} => mem' = disk'
           /\ \A e \in Docs \ savedNow' : mem'[e].ok => mem'[e] = disk'[e]
           /\ KeptKnown'
           /\ \A e \in Docs : disk[e].ok /\ disk[e].path \in kept => disk'[e].ok
           /\ pc' # onError /\ r.ok => disk'[d] = r
           /\ savedNow' \subseteq savedNow \cup {d}
           /\ d \in savedNow' => r.ok
<1>0. r.ok \in BOOLEAN
  BY DEF Record
<1>1. pc' # onError => mem' = disk'
  BY DEF Write
<1>2. savedNow' = IF r.ok THEN savedNow \cup {d} ELSE savedNow
  BY DEF Write
<1>3. \A e \in Docs : e # d => mem'[e] = mem[e]
  BY DEF Write, TypeOK
<1>4. r.ok => mem'[d] = r
  BY DEF Write, HeldBack, TypeOK
<1>5. mem'[d] = r \/ mem'[d] = mem[d]
  BY DEF Write, TypeOK
<1>6. disk' = disk \/ disk' = mem'
  BY DEF Write
<1>7. \A e \in Docs : disk[e].ok /\ disk[e].path \in kept => mem'[e].ok
  <2> SUFFICES ASSUME NEW e \in Docs, disk[e].ok, disk[e].path \in kept PROVE mem'[e].ok
    OBVIOUS
  <2>1. mem[e].ok
    BY DEF SavedInv
  <2>2. CASE e = d /\ ~r.ok
    <3>1. e \notin savedNow /\ mem[e] = disk[e]
      BY <2>1, <2>2 DEF SavedInv
    <3>2. Holding(d)
      BY <2>1, <2>2, <3>1 DEF Holding
    <3>3. ~NamesItsCopy(d, r)
      BY <2>2, <3>1 DEF NamesItsCopy
    <3>4. mem' = mem
      BY <2>2, <3>2, <3>3 DEF Write, HeldBack
    <3> QED  BY <2>1, <3>4
  <2> QED  BY <1>3, <1>4, <2>1, <2>2
<1>8. KeptKnown'
  <2> SUFFICES ASSUME NEW e \in Docs, disk'[e].ok, disk'[e].path \in kept' PROVE mem'[e].ok
    BY DEF KeptKnown
  <2>1. CASE disk' = mem'
    BY <2>1
  <2>2. CASE disk' = disk /\ kept' = kept
    BY <1>7, <2>2
  <2>3. CASE disk' = disk /\ r.ok /\ mem = disk
    BY <1>3, <1>4, <2>3
  <2> QED  BY <1>6, <2>1, <2>2, <2>3
<1>9. \A e \in Docs \ savedNow' : mem'[e].ok => mem'[e] = disk'[e]
  <2> SUFFICES ASSUME NEW e \in Docs \ savedNow', mem'[e].ok PROVE mem'[e] = disk'[e]
    OBVIOUS
  <2>1. mem'[e] = mem[e] /\ e \notin savedNow
    BY <1>2, <1>3, <1>5
  <2>2. mem[e] = disk[e]
    BY <2>1 DEF SavedInv
  <2> QED  BY <1>6, <2>1, <2>2
<1> QED  BY <1>0, <1>1, <1>2, <1>4, <1>6, <1>7, <1>8, <1>9

\* Every write of a run is one WriteSaved speaks of.
LEMMA AttemptSaved ==
    ASSUME TypeOK, PlaceInv, SavedInv, Attempting, cur \in Docs, NEW st \in State
    PROVE  /\ ~Attempt(st).ok => cur \notin savedNow
           /\ ~Attempt(st).ok => Attempt(st).path \notin kept
  BY AttemptType DEF PlaceInv, SavedInv

\* Every step keeps SavedInv, and none takes "saved" off a kept document.
LEMMA SavedStep ==
    Typed /\ PlaceInv /\ SavedInv /\ [Next]_vars
        => /\ SavedInv'
           /\ \A d \in Docs : disk[d].ok /\ disk[d].path \in kept => disk'[d].ok
<1> DEFINE Kept == \A d \in Docs : disk[d].ok /\ disk[d].path \in kept => disk'[d].ok
<1> SUFFICES ASSUME Typed, PlaceInv, SavedInv, [Next]_vars PROVE SavedInv' /\ Kept
  OBVIOUS
<1>a. TypeOK /\ AttemptInv
  BY DEF Typed
<1>1. ASSUME NEW resume \in BOOLEAN, NEW redownload \in BOOLEAN, Start(resume, redownload)
      PROVE  SavedInv' /\ Kept
  BY <1>1 DEF Start, SavedInv, Attempting
<1>2. ASSUME NEW listed \in SUBSET Docs, NEW selected \in SUBSET Docs, List(listed, selected)
      PROVE  SavedInv' /\ Kept
  BY <1>2 DEF List, SavedInv, Attempting
<1>3. ASSUME NEW d \in Docs, Skip(d) PROVE SavedInv' /\ Kept
  BY <1>3 DEF Skip, SavedInv, Attempting
<1>4. ASSUME NEW d \in Docs, Take(d) PROVE SavedInv' /\ Kept
  BY <1>4 DEF Take, SavedInv, Attempting
<1>5. ASSUME NEW kind \in {"whole", "broken"}, FetchSaves(kind) PROVE SavedInv' /\ Kept
  BY <1>5 DEF FetchSaves, SavedInv, Attempting
<1>6. CASE FetchSavesNothing \/ FetchRaises
  BY <1>6 DEF FetchSavesNothing, FetchRaises, SavedInv, Attempting
<1>7. CASE SignedOut
  <2>1. Attempt("Discovered") \in Record /\ cur \in Docs /\ Attempting /\ ~docOk
    BY <1>a, <1>7, AttemptType DEF SignedOut, AttemptInv, Attempting, State
  <2>2. /\ ~Attempt("Discovered").ok => cur \notin savedNow
        /\ ~Attempt("Discovered").ok => Attempt("Discovered").path \notin kept
    BY <1>a, <2>1, AttemptSaved DEF State
  <2>3. /\ Attempt("Discovered").ok = docOk
        /\ Write(cur, Attempt("Discovered"), "leaving", "failing")
        /\ pc' \in {"leaving", "failing"}
    BY <1>a, <1>7, AttemptType, WritePc DEF SignedOut, State
  <2>4. /\ \A e \in Docs \ savedNow' : mem'[e].ok => mem'[e] = disk'[e]
        /\ KeptKnown' /\ Kept
        /\ savedNow' = savedNow
    BY <1>a, <1>7, <2>1, <2>2, <2>3, WriteSaved DEF SignedOut, Write
  <2> QED  BY <1>7, <2>1, <2>3, <2>4 DEF SignedOut, SavedInv, KeptKnown, Attempting
<1>8. CASE RecordPlaced
  <2> DEFINE r == [state |-> "PDF Saved", ok |-> docOk, path |-> out]
  <2>1. cur \in Docs /\ out \in Path /\ ~docOk /\ cur \notin savedNow /\ cur \notin todo
    BY <1>a, <1>8 DEF RecordPlaced, AttemptInv, Attempting, SavedInv
  <2>2. r \in Record /\ r.ok = FALSE /\ r.state = "PDF Saved"
    BY <1>a, <2>1 DEF State, Record, TypeOK
  <2>3. Write(cur, r, "check", "failing") /\ pc' \in {"check", "failing"} /\ UNCHANGED kept
    BY <1>8, WritePc DEF RecordPlaced
  <2> HIDE DEF r
  <2>4. /\ pc' \notin {"failing", "leaving"} => mem' = disk'
        /\ \A e \in Docs \ savedNow' : mem'[e].ok => mem'[e] = disk'[e]
        /\ KeptKnown' /\ Kept
        /\ savedNow' = savedNow
    BY <1>a, <2>1, <2>2, <2>3, WriteSaved DEF Write
  <2> QED  BY <1>8, <2>1, <2>3, <2>4 DEF RecordPlaced, SavedInv, KeptKnown, Attempting
<1>9. CASE Complete
  <2> DEFINE r == [state |-> "Completed", ok |-> TRUE, path |-> out]
  <2>1. /\ cur \in Docs /\ out \in Path /\ cur \notin todo /\ mem = disk /\ docPath = out
    BY <1>a, <1>9 DEF Complete, AttemptInv, Attempting, SavedInv
  <2>2. r \in Record /\ r.ok = TRUE /\ r.path = out
    BY <2>1 DEF State, Record
  <2>3. Write(cur, r, "row", "failing") /\ pc' \in {"row", "failing"} /\ kept' = kept \cup {out}
    BY <1>9, WritePc DEF Complete
  <2> HIDE DEF r
  <2>4. /\ pc' \notin {"failing", "leaving"} => mem' = disk'
        /\ \A e \in Docs \ savedNow' : mem'[e].ok => mem'[e] = disk'[e]
        /\ KeptKnown' /\ Kept
        /\ savedNow' \subseteq savedNow \cup {cur}
        /\ pc' = "row" => disk'[cur] = r
    BY <1>a, <2>1, <2>2, <2>3, WriteSaved
  <2> QED  BY <1>9, <2>1, <2>2, <2>3, <2>4 DEF Complete, SavedInv, KeptKnown, Attempting
<1>10. CASE PutAside
  BY <1>a, <1>10 DEF PutAside, SavedInv, Attempting, AttemptInv
<1>11. CASE RecordReview
  <2>1. Attempt("Needs Manual Review") \in Record /\ cur \in Docs /\ Attempting /\ ~docOk
    BY <1>a, <1>11, AttemptType DEF RecordReview, AttemptInv, Attempting, State
  <2>2. /\ ~Attempt("Needs Manual Review").ok => cur \notin savedNow
        /\ ~Attempt("Needs Manual Review").ok => Attempt("Needs Manual Review").path \notin kept
    BY <1>a, <2>1, AttemptSaved DEF State
  <2>3. /\ Attempt("Needs Manual Review").ok = docOk
        /\ Write(cur, Attempt("Needs Manual Review"), "row", "failing")
        /\ pc' \in {"row", "failing"}
    BY <1>a, <1>11, AttemptType, WritePc DEF RecordReview, State
  <2>4. /\ pc' \notin {"failing", "leaving"} => mem' = disk'
        /\ \A e \in Docs \ savedNow' : mem'[e].ok => mem'[e] = disk'[e]
        /\ KeptKnown' /\ Kept
        /\ savedNow' = savedNow
    BY <1>a, <1>11, <2>1, <2>2, <2>3, WriteSaved DEF RecordReview, Write
  <2> QED  BY <1>11, <2>1, <2>3, <2>4 DEF RecordReview, SavedInv, KeptKnown, Attempting
<1>12. CASE WriteRow
  BY <1>12 DEF WriteRow, SavedInv, Attempting
<1>13. CASE RecordFailed
  <2>1. Attempt("Failed") \in Record /\ cur \in Docs /\ Attempting /\ cur \notin todo
    BY <1>a, <1>13, AttemptType DEF RecordFailed, AttemptInv, Attempting, State, SavedInv
  <2>2. /\ ~Attempt("Failed").ok => cur \notin savedNow
        /\ ~Attempt("Failed").ok => Attempt("Failed").path \notin kept
    BY <1>a, <2>1, AttemptSaved DEF State
  <2>3. /\ Write(cur, Attempt("Failed"), "take", "leaving")
        /\ pc' \in {"take", "leaving"}
    BY <1>13, WritePc DEF RecordFailed
  <2>4. /\ pc' \notin {"failing", "leaving"} => mem' = disk'
        /\ \A e \in Docs \ savedNow' : mem'[e].ok => mem'[e] = disk'[e]
        /\ KeptKnown' /\ Kept
        /\ savedNow' \subseteq savedNow \cup {cur}
    BY <1>a, <1>13, <2>1, <2>2, <2>3, WriteSaved DEF RecordFailed
  <2> QED  BY <1>13, <2>1, <2>3, <2>4 DEF RecordFailed, SavedInv, KeptKnown, Attempting
<1>14. CASE Finish
  BY <1>14 DEF Finish, SavedInv, Attempting
<1>15. CASE SaveAndExit
  BY <1>15 DEF SaveAndExit, RunEnded, SavedInv, Attempting
<1>16. CASE Leave
  BY <1>16 DEF Leave, SavedInv, Attempting
<1>17. CASE Crash
  BY <1>17 DEF Crash, RunEnded, SavedInv, Attempting
<1>18. ASSUME NEW p \in Path, Delete(p) \/ Mend(p) PROVE SavedInv' /\ Kept
  BY <1>18 DEF Delete, Mend, run, SavedInv, Attempting
<1>19. CASE UNCHANGED vars
  BY <1>19 DEF vars, run, SavedInv, Attempting
<1> QED  BY <1>1, <1>2, <1>3, <1>4, <1>5, <1>6, <1>7, <1>8, <1>9, <1>10, <1>11, <1>12,
            <1>13, <1>14, <1>15, <1>16, <1>17, <1>18, <1>19
            DEF Next, RunStep

-----------------------------------------------------------------------------
(* Theorems *)

\* An install with nothing saved meets the invariant.
LEMMA InitIInv == Init => IInv
<1> SUFFICES ASSUME Init PROVE IInv
  OBVIOUS
<1>1. Typed
  BY InitTyped
<1>2. PlaceInv
  BY NoPathAssumption DEF Init, PlaceInv
<1>3. SavedInv
  BY DEF Init, SavedInv, Attempting, NoRecord
<1>4. Vouched
  BY DEF Init, Vouched, VouchedBy, NoRecord
<1> QED  BY <1>1, <1>2, <1>3, <1>4 DEF IInv, Typed, Vouched

\* The invariant is inductive.
LEMMA IInvStep == IInv /\ [Next]_vars => IInv'
  BY TypeStep, AttemptStep, PlaceStep, VouchedStep, SavedStep DEF IInv, Typed, Vouched

\* IInv holds in every state of an install, whatever is cut short or fails.
THEOREM Invariant == Spec => []IInv
  BY InitIInv, IInvStep, PTL DEF Spec

\* Every variable keeps its type: in particular every document progress.json
\* speaks of has a path unique_path can give, or none.
THEOREM TypeCorrect == Spec => []TypeOK
<1>1. IInv => TypeOK
  BY DEF IInv
<1> QED  BY <1>1, Invariant, PTL

\* A record that says its document is saved never names a broken copy of it
\* that some ended attempt has told the records of.
THEOREM RecordsVouch == Spec => []VouchedCopy
<1>1. IInv => VouchedCopy
  BY DEF IInv, VouchedCopy
<1> QED  BY <1>1, Invariant, PTL

\* A run replaces no file, and takes none from its place that passed the check.
THEOREM NoFileReplaced == Spec => FilesSafe
<1> DEFINE A == \A p \in Path : files[p] # NoFile /\ files'[p] # files[p]
                    => \/ edits' # edits
                       \/ p \notin kept /\ files'[p] = NoFile
<1>1. IInv /\ [Next]_vars => [A]_vars
  BY FilesStep DEF IInv, Typed
<1> HIDE DEF A
<1>2. Spec => [][A]_vars
  BY <1>1, Invariant, PTL DEF Spec
<1> QED  BY <1>2 DEF A, FilesSafe

\* A Download again that fails, is cut short or cannot write its record never
\* takes "saved" off a document whose copy stands (saved_copy.holds).
THEOREM SavedStaysSaved == Spec => KeptStaysSaved
<1> DEFINE A == \A d \in Docs : disk[d].ok /\ disk[d].path \in kept => disk'[d].ok
<1>1. IInv /\ [Next]_vars => [A]_vars
  BY SavedStep DEF IInv, Typed
<1> HIDE DEF A
<1>2. Spec => [][A]_vars
  BY <1>1, Invariant, PTL DEF Spec
<1> QED  BY <1>2 DEF A, KeptStaysSaved

\* A saved document is asked for again only by a run given --redownload.
THEOREM NoSecondDownload == Spec => NeverTwice
<1> DEFINE A == \A d \in Docs :
                    pc = "take" /\ pc' = "ask" /\ cur' = d /\ disk[d].ok => again
<1>1. IInv /\ [Next]_vars => [A]_vars
  <2> SUFFICES ASSUME IInv, [Next]_vars, NEW d \in Docs,
                      pc = "take", pc' = "ask", cur' = d, disk[d].ok
               PROVE  again
    OBVIOUS
  <2>1. mem = disk
    BY DEF IInv, SavedInv
  <2>2. PICK e \in Docs : Take(e)
    BY DEF Next, RunStep, vars, run, Start, List, Skip, FetchSaves, FetchSavesNothing,
           FetchRaises, SignedOut, RecordPlaced, Complete, PutAside, RecordReview,
           WriteRow, RecordFailed, Finish, SaveAndExit, RunEnded, Leave, Crash,
           Delete, Mend
  <2> QED  BY <2>1, <2>2 DEF Take, AlreadyDone, IInv, TypeOK
<1> HIDE DEF A
<1>2. Spec => [][A]_vars
  BY <1>1, Invariant, PTL DEF Spec
<1> QED  BY <1>2 DEF A, NeverTwice

\* A row of a saved document is appended only after its record was written.
THEOREM RecordBeforeRow == Spec => RowFollowsRecord
<1> DEFINE A == \A r \in index' \ index :
                    r.status = "Completed" => disk[r.doc].ok /\ disk[r.doc].path = r.path
<1>1. IInv /\ [Next]_vars => [A]_vars
  <2> SUFFICES ASSUME IInv, [Next]_vars, NEW r \in index' \ index, r.status = "Completed"
               PROVE  disk[r.doc].ok /\ disk[r.doc].path = r.path
    OBVIOUS
  <2>1. WriteRow
    BY DEF Next, RunStep, vars, run, Start, List, Skip, Take, FetchSaves, FetchSavesNothing,
           FetchRaises, SignedOut, RecordPlaced, Complete, PutAside, RecordReview,
           RecordFailed, Finish, SaveAndExit, Leave, Crash, Delete, Mend
  <2>2. /\ pc = "row" /\ r.doc = cur /\ r.path = docPath
        /\ ~docOk => r.status = "Needs Manual Review"
    <3> DEFINE row == [doc |-> cur, path |-> docPath,
                       status |-> IF docOk THEN "Completed" ELSE "Needs Manual Review"]
    <3>1. pc = "row" /\ (index' = index \cup {row} \/ index' = index)
      BY <2>1 DEF WriteRow
    <3>2. row.doc = cur /\ row.path = docPath /\ (~docOk => row.status = "Needs Manual Review")
      OBVIOUS
    <3> HIDE DEF row
    <3> QED  BY <3>1, <3>2
  <2>3. docOk
    BY <2>2
  <2> QED  BY <2>2, <2>3 DEF IInv, SavedInv
<1> HIDE DEF A
<1>2. Spec => [][A]_vars
  BY <1>1, Invariant, PTL DEF Spec
<1> QED  BY <1>2 DEF A, RowFollowsRecord
=============================================================================
