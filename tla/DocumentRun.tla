------------------------------ MODULE DocumentRun ------------------------------
(***************************************************************************)
(* One document install of PaperPull: the output folder of one account and *)
(* the runs that fill it, one process at a time.                           *)
(*                                                                         *)
(* The reference app is apps/citi/citi_docs.py; every document app has the *)
(* same orchestrator around its own site module.  A run lists what the     *)
(* provider has, takes the documents it has not saved before one by one,   *)
(* and writes what became of each to progress.json and to the index CSV.   *)
(*                                                                         *)
(* The model keeps three durable things apart, because each is written by  *)
(* a step of its own: the files, the records of progress.json and the rows *)
(* of the index.  A run may be cut short between any two steps, a write    *)
(* may fail while another program holds the file, and the person deletes   *)
(* files whenever they like (importing them elsewhere is the usual use).   *)
(*                                                                         *)
(* Abstracted: a document is a model value, its facts are its base name    *)
(* (two documents may share one), a PDF is "whole", "broken" or "cut"      *)
(* short, and notes, statistics and failure files are left out.            *)
(***************************************************************************)
EXTENDS Naturals, FiniteSets

CONSTANTS
    Docs,        \* document keys (Document.key)
    Names,       \* base file names
    NameOf,      \* the base name each document's date and summary give it
    MaxCopies,   \* bound: names "x", "x (2)", ... tried by unique_path
    MaxFaults,   \* bound: failed writes, cut runs, sign-outs, broken PDFs
    MaxAgains,   \* bound: runs with --redownload
    MaxEdits,    \* bound: files deleted or mended by the person
    NoDoc, NoPath, NoFile

ASSUME NamesAssumption == NameOf \in [Docs -> Names]
ASSUME BoundsAssumption ==
    /\ MaxCopies \in Nat \ {0}
    /\ MaxFaults \in Nat /\ MaxAgains \in Nat /\ MaxEdits \in Nat
ASSUME NoneAssumption == NoDoc \notin Docs

Path == [dir : {"home", "review"}, name : Names, copy : 1 .. MaxCopies]
File == [of : Docs, kind : {"whole", "broken", "cut"}]

ASSUME NoPathAssumption == NoPath \notin Path
ASSUME NoFileAssumption == NoFile \notin File

\* models.State, the states a document app writes; "none" is no record yet.
State == {"none", "Discovered", "PDF Saved", "Completed",
          "Needs Manual Review", "Failed"}
Record == [state : State, ok : BOOLEAN, path : Path \cup {NoPath}]
NoRecord == [state |-> "none", ok |-> FALSE, path |-> NoPath]
Row == [doc : Docs, path : Path \cup {NoPath}, status : {"Completed", "Needs Manual Review"}]

VARIABLES
    files,     \* durable: what stands at each path
    disk,      \* durable: progress.json
    index,     \* durable: the rows of the index CSV
    known,     \* durable: the keys of discovery.json
    pc,        \* where the run is, "off" between runs
    again,     \* the run was given --redownload
    todo,      \* the documents the run has still to come to
    cur,       \* the document being taken
    out,       \* the path unique_path gave it
    docPath,   \* doc.pdf_path
    docOk,     \* doc.downloaded_ok
    mem,       \* the records as this run holds them (JsonStore.data)
    savedNow,  \* saved_copy._SAVED_NOW, the documents this run saved
    loose,     \* history: files no ended attempt has told the records of
    kept,      \* history: files that passed the check and still stand
    faults, agains, edits

run == <<pc, again, todo, cur, out, docPath, docOk, mem, savedNow>>
vars == <<files, disk, index, known, run, loose, kept, faults, agains, edits>>

PCs == {"off", "list", "take", "ask", "placed", "check", "unsaved", "aside",
        "row", "failing", "leaving"}

TypeOK ==
    /\ files \in [Path -> File \cup {NoFile}]
    /\ disk \in [Docs -> Record]
    /\ index \subseteq Row
    /\ known \subseteq Docs
    /\ pc \in PCs
    /\ again \in BOOLEAN
    /\ todo \subseteq Docs
    /\ cur \in Docs \cup {NoDoc}
    /\ out \in Path \cup {NoPath}
    /\ docPath \in Path \cup {NoPath}
    /\ docOk \in BOOLEAN
    /\ mem \in [Docs -> Record]
    /\ savedNow \subseteq Docs
    /\ loose \subseteq Path
    /\ kept \subseteq Path
    /\ faults \in 0 .. MaxFaults
    /\ agains \in 0 .. MaxAgains
    /\ edits \in 0 .. MaxEdits

Init ==
    /\ files = [p \in Path |-> NoFile]
    /\ disk = [d \in Docs |-> NoRecord]
    /\ index = {}
    /\ known = {}
    /\ pc = "off"
    /\ again = FALSE
    /\ todo = {}
    /\ cur = NoDoc
    /\ out = NoPath
    /\ docPath = NoPath
    /\ docOk = FALSE
    /\ mem = [d \in Docs |-> NoRecord]
    /\ savedNow = {}
    /\ loose = {}
    /\ kept = {}
    /\ faults = 0 /\ agains = 0 /\ edits = 0

-----------------------------------------------------------------------------
(* What the orchestrator reads *)

\* Mutant: a file that is there counts as one that passes.
WholeIfThere(p) == p \in Path /\ files[p] # NoFile

\* validate_pdf of the file at p: there, and a PDF that opens and has a page.
Whole(p) == p \in Path /\ files[p] # NoFile /\ files[p].kind = "whole"

\* Mutant: the state alone decides, and the sticky marker is forgotten.
AlreadyDoneByState(d) ==
    /\ ~again
    /\ \/ mem[d].state = "Completed"
       \/ mem[d].state = "Needs Manual Review" /\ Whole(mem[d].path)

\* Mutant: a document marked for review is done whatever its copy is.
AlreadyDoneAnyReview(d) ==
    ~again /\ (mem[d].ok \/ mem[d].state \in {"Completed", "Needs Manual Review"})

\* App._already_done.
AlreadyDone(d) ==
    /\ ~again
    /\ \/ mem[d].ok
       \/ mem[d].state = "Completed"
       \/ mem[d].state = "Needs Manual Review" /\ Whole(mem[d].path)

\* Mutant: the name is taken without looking at what stands there.
UniquePathUnlooked(dir, name) ==
    {p \in Path : p.dir = dir /\ p.name = name /\ p.copy = 1}

\* Mutant: the copies are counted from zero.
UniquePathFromZero(dir, name) == {[dir |-> dir, name |-> name, copy |-> 0]}

\* unique_path: the first of "x", "x (2)", ... that no file in dir has.
UniquePath(dir, name) ==
    {p \in Path : /\ p.dir = dir /\ p.name = name
                  /\ files[p] = NoFile
                  /\ \A c \in 1 .. (p.copy - 1) :
                        files[[dir |-> dir, name |-> name, copy |-> c]] # NoFile}

\* saved_copy.holding: a document saved before, and not yet by this run.
Holding(d) == d \notin savedNow /\ mem[d].ok

\* saved_copy._names_its_copy, asked of the write that ends an attempt.
NamesItsCopy(d, r) ==
    r.state # "PDF Saved" /\ r.path # NoPath /\ r.path = mem[d].path

\* Mutant: every write takes the record, as before saved_copy.
HeldBackNever(d, r) == FALSE

\* saved_copy.holds: the write leaves the saved copy's record as it is.
HeldBack(d, r) == ~r.ok /\ Holding(d) /\ ~NamesItsCopy(d, r)

-----------------------------------------------------------------------------
(* Writing a record *)

Fault == faults < MaxFaults /\ faults' = faults + 1

\* App._record: progress.update writes progress.json at once, and then
\* discovery.update writes discovery.json.  Either write raises when its file
\* stays held, with the record already changed in memory.  A write held back
\* changes the notes only, and saves the file the same.
Write(d, r, next, onError) ==
    /\ mem' = IF HeldBack(d, r) THEN mem ELSE [mem EXCEPT ![d] = r]
    /\ savedNow' = IF r.ok THEN savedNow \cup {d} ELSE savedNow
    /\ \/ /\ disk' = mem'
          /\ loose' = IF r.state = "PDF Saved" THEN loose ELSE loose \ {r.path}
          /\ pc' = next
          /\ UNCHANGED faults
       \/ /\ Fault
          /\ disk' \in {disk, mem'}
          /\ pc' = onError
          /\ UNCHANGED loose

Attempt(st) == [state |-> st, ok |-> docOk, path |-> docPath]

\* The attempt on the current document is over.
DocEnded == cur' = NoDoc /\ out' = NoPath /\ docPath' = NoPath /\ docOk' = FALSE

\* The run is over.
RunEnded == pc' = "off" /\ again' = FALSE /\ todo' = {} /\ savedNow' = {} /\ DocEnded

-----------------------------------------------------------------------------
(* The run *)

\* App.__init__ reads progress.json; the panel and the terminal start a run
\* that lists, or Resume, which carries on with what is known and not done.
Start(resume, redownload) ==
    /\ pc = "off"
    /\ redownload => ~resume /\ agains < MaxAgains
    /\ pc' = IF resume THEN "take" ELSE "list"
    /\ again' = redownload
    /\ agains' = IF redownload THEN agains + 1 ELSE agains
    /\ mem' = disk
    /\ todo' = IF resume THEN known ELSE {}
    /\ UNCHANGED <<files, disk, index, known, cur, out, docPath, docOk,
                   savedNow, loose, kept, faults, edits>>

\* cmd_discover and _select: the provider lists some documents, and the run
\* takes those its scope and its limit leave of all that are known.
List(listed, selected) ==
    /\ pc = "list"
    /\ selected \subseteq known \cup listed
    /\ known' = known \cup listed
    /\ todo' = selected
    /\ pc' = "take"
    /\ UNCHANGED <<files, disk, index, again, cur, out, docPath, docOk, mem,
                   savedNow, loose, kept, faults, agains, edits>>

\* process: the next document of the run is done already.
Skip(d) ==
    /\ pc = "take" /\ d \in todo /\ AlreadyDone(d)
    /\ todo' = todo \ {d}
    /\ UNCHANGED <<files, disk, index, known, pc, again, cur, out, docPath,
                   docOk, mem, savedNow, loose, kept, faults, agains, edits>>

\* process and the start of download_one: the next document gets its path.
Take(d) ==
    /\ pc = "take" /\ d \in todo /\ ~AlreadyDone(d)
    /\ out' \in UniquePath("home", NameOf[d])
    /\ todo' = todo \ {d}
    /\ cur' = d
    /\ docPath' = NoPath
    /\ docOk' = FALSE
    /\ pc' = "ask"
    /\ UNCHANGED <<files, disk, index, known, again, mem, savedNow, loose,
                   kept, faults, agains, edits>>

\* site.download_bill wrote the bytes the provider sent.
FetchSaves(kind) ==
    /\ pc = "ask"
    /\ IF kind = "broken" THEN Fault ELSE UNCHANGED faults
    /\ files' = [files EXCEPT ![out] = [of |-> cur, kind |-> kind]]
    /\ loose' = loose \cup {out}
    /\ pc' = "placed"
    /\ UNCHANGED <<disk, index, known, again, todo, cur, out, docPath, docOk,
                   mem, savedNow, kept, agains, edits>>

\* download_bill answered False: nothing was written.
FetchSavesNothing ==
    /\ pc = "ask"
    /\ pc' = "unsaved"
    /\ UNCHANGED <<files, disk, index, known, again, todo, cur, out, docPath,
                   docOk, mem, savedNow, loose, kept, faults, agains, edits>>

\* What write_bytes had written when it was cut short stays at the path.
CutShort ==
    /\ pc = "ask"
    /\ files' = [files EXCEPT ![out] = [of |-> cur, kind |-> "cut"]]
    /\ loose' = loose \cup {out}

\* download_bill raised, on the page or, with the disk full, in write_bytes.
FetchRaises ==
    /\ pc = "ask"
    /\ Fault
    /\ CutShort \/ UNCHANGED <<files, loose>>
    /\ pc' = "failing"
    /\ UNCHANGED <<disk, index, known, again, todo, cur, out, docPath, docOk,
                   mem, savedNow, kept, agains, edits>>

\* A sign-in page in answer to the download is recorded, and SessionExpired
\* stops the run.
SignedOut ==
    /\ pc = "ask"
    /\ Write(cur, Attempt("Discovered"), "leaving", "failing")
    /\ UNCHANGED <<files, index, known, again, todo, cur, out, docPath, docOk,
                   kept, agains, edits>>

\* The record says a copy is on its way.
RecordPlaced ==
    /\ pc = "placed"
    /\ docPath' = out
    /\ Write(cur, [state |-> "PDF Saved", ok |-> docOk, path |-> out],
             "check", "failing")
    /\ UNCHANGED <<files, index, known, again, todo, cur, out, docOk, kept,
                   agains, edits>>

\* The copy validates: the document is saved for good.
Complete ==
    /\ pc = "check" /\ Whole(out)
    /\ docOk' = TRUE
    /\ kept' = kept \cup {out}
    /\ Write(cur, [state |-> "Completed", ok |-> TRUE, path |-> out],
             "row", "failing")
    /\ UNCHANGED <<files, index, known, again, todo, cur, out, docPath,
                   agains, edits>>

\* The copy does not validate: it is moved to Manual Review, or kept where it
\* is when the move is refused or the file has gone.
PutAside ==
    /\ pc = "check" /\ ~Whole(out)
    /\ \/ /\ files[out] # NoFile
          /\ \E q \in UniquePath("review", out.name) :
                /\ files' = [files EXCEPT ![q] = files[out], ![out] = NoFile]
                /\ docPath' = q
                /\ loose' = (loose \ {out}) \cup {q}
          /\ UNCHANGED faults
       \/ /\ IF files[out] = NoFile THEN UNCHANGED faults ELSE Fault
          /\ UNCHANGED <<files, docPath, loose>>
    /\ pc' = "aside"
    /\ UNCHANGED <<disk, index, known, again, todo, cur, out, docOk, mem,
                   savedNow, kept, agains, edits>>

\* The attempt ends with the document marked for review.
RecordReview ==
    /\ pc \in {"unsaved", "aside"}
    /\ Write(cur, Attempt("Needs Manual Review"), "row", "failing")
    /\ UNCHANGED <<files, index, known, again, todo, cur, out, docPath, docOk,
                   kept, agains, edits>>

\* App._write_row: appending raises while a spreadsheet holds the index.
WriteRow ==
    /\ pc = "row"
    /\ \/ /\ index' = index \cup
                {[doc |-> cur, path |-> docPath,
                  status |-> IF docOk THEN "Completed" ELSE "Needs Manual Review"]}
          /\ pc' = "take"
          /\ DocEnded
          /\ UNCHANGED faults
       \/ /\ Fault
          /\ pc' = "failing"
          /\ UNCHANGED <<index, cur, out, docPath, docOk>>
    /\ UNCHANGED <<files, disk, known, again, todo, mem, savedNow, loose, kept,
                   agains, edits>>

\* process: any other exception is recorded and the run goes on; one raised
\* by that write ends the run.
RecordFailed ==
    /\ pc = "failing"
    /\ Write(cur, Attempt("Failed"), "take", "leaving")
    /\ DocEnded
    /\ UNCHANGED <<files, index, known, again, todo, kept, agains, edits>>

\* The list is done: main goes to its finally.
Finish ==
    /\ pc = "take" /\ todo = {}
    /\ pc' = "leaving"
    /\ UNCHANGED <<files, disk, index, known, again, todo, cur, out, docPath,
                   docOk, mem, savedNow, loose, kept, faults, agains, edits>>

\* Ctrl+C, a listing that stopped, or check_session with nobody to ask: main
\* goes to its finally from wherever it was, which writes discovery.json with
\* what the listing had noted so far.
Leave ==
    /\ pc \notin {"off", "leaving"}
    /\ Fault
    /\ CutShort \/ UNCHANGED <<files, loose>>
    /\ \E listed \in SUBSET Docs : known' = IF pc = "list" THEN known \cup listed ELSE known
    /\ pc' = "leaving"
    /\ DocEnded
    /\ UNCHANGED <<disk, index, again, todo, mem, savedNow, kept, agains, edits>>

\* main's finally: the save on the way out, which a held file only reports.
SaveAndExit ==
    /\ pc = "leaving"
    /\ \/ disk' = mem /\ UNCHANGED faults
       \/ disk # mem /\ Fault /\ UNCHANGED disk
    /\ mem' = disk'
    /\ RunEnded
    /\ UNCHANGED <<files, index, known, loose, kept, agains, edits>>

\* The process is killed or the power goes; in the middle of write_bytes it
\* leaves a part of the file.
Crash ==
    /\ pc # "off"
    /\ Fault
    /\ CutShort \/ UNCHANGED <<files, loose>>
    /\ mem' = disk
    /\ RunEnded
    /\ UNCHANGED <<disk, index, known, kept, agains, edits>>

-----------------------------------------------------------------------------
(* The person *)

Delete(p) ==
    /\ files[p] # NoFile
    /\ edits < MaxEdits /\ edits' = edits + 1
    /\ files' = [files EXCEPT ![p] = NoFile]
    /\ loose' = loose \ {p}
    /\ kept' = kept \ {p}
    /\ UNCHANGED <<disk, index, known, run, faults, agains>>

\* A copy in Manual Review is replaced with a PDF that opens.
Mend(p) ==
    /\ p.dir = "review" /\ files[p] # NoFile /\ files[p].kind # "whole"
    /\ edits < MaxEdits /\ edits' = edits + 1
    /\ files' = [files EXCEPT ![p].kind = "whole"]
    /\ UNCHANGED <<disk, index, known, run, loose, kept, faults, agains>>

-----------------------------------------------------------------------------
RunStep ==
    \/ \E listed \in SUBSET Docs, selected \in SUBSET Docs : List(listed, selected)
    \/ \E d \in Docs : Skip(d) \/ Take(d)
    \/ \E kind \in {"whole", "broken"} : FetchSaves(kind)
    \/ FetchSavesNothing
    \/ FetchRaises
    \/ SignedOut
    \/ RecordPlaced
    \/ Complete
    \/ PutAside
    \/ RecordReview
    \/ WriteRow
    \/ RecordFailed
    \/ Finish
    \/ SaveAndExit

Next ==
    \/ \E resume, redownload \in BOOLEAN : Start(resume, redownload)
    \/ RunStep
    \/ Leave
    \/ Crash
    \/ \E p \in Path : Delete(p) \/ Mend(p)

Spec == Init /\ [][Next]_vars

\* The person keeps pressing Resume, the run goes on whenever it can, and the
\* provider does not refuse one document for ever.
FairSpec ==
    /\ Spec
    /\ WF_vars(RunStep)
    /\ SF_vars(Start(TRUE, FALSE))
    /\ \A d \in Docs : SF_vars(cur = d /\ FetchSaves("whole"))

-----------------------------------------------------------------------------
(* Properties *)

\* The records vouch for no broken copy.
VouchedBy(records) ==
    \A d \in Docs :
        LET p == records[d].path IN
        records[d].ok =>
            /\ p \in Path
            /\ \/ files[p] = NoFile
               \/ files[p].of # d
               \/ files[p].kind = "whole"
               \/ p \in loose

\* A record that says its document is saved names a path where no broken copy
\* of it stands.  The file may be gone, or another document's that was given
\* the free name since; a copy no ended attempt has told the records of is
\* the one exception, the one saved_copy._names_its_copy names.
VouchedCopy == VouchedBy(disk)

\* No step of a run replaces a file, and the only file a run takes from its
\* place is one that never passed the check (unique_path, PutAside).
FilesSafe ==
    [][\A p \in Path : files[p] # NoFile /\ files'[p] # files[p]
            => \/ edits' # edits
               \/ p \notin kept /\ files'[p] = NoFile]_vars

\* Whatever a Download again comes to, a document whose saved copy still
\* stands stays saved (saved_copy.holds).
KeptStaysSaved ==
    [][\A d \in Docs : disk[d].ok /\ disk[d].path \in kept => disk'[d].ok]_vars

\* A document progress.json says is saved is asked for again only by a run
\* given --redownload, whatever state the record ended in (_already_done).
NeverTwice ==
    [][\A d \in Docs : pc = "take" /\ pc' = "ask" /\ cur' = d /\ disk[d].ok => again]_vars

\* The index never lists a saved document progress.json does not know of, so
\* a run cut short loses a row and never invents one.
RowFollowsRecord ==
    [][\A r \in index' \ index :
            r.status = "Completed" => disk[r.doc].ok /\ disk[r.doc].path = r.path]_vars

\* Nothing to do for d any more: saved, or a review copy that opens.
Settled(d) ==
    \/ disk[d].ok
    \/ disk[d].state = "Needs Manual Review" /\ Whole(disk[d].path)

\* However runs are cut short and writes fail, a listed document is saved in
\* the end by pressing Resume (cmd_resume takes every one not done).
EventuallySaved == \A d \in Docs : d \in known ~> Settled(d)

\* The archive as these runs keep it: on its shelf stand the copies that passed
\* the check, its catalogue is the records that say saved, and a run may hold
\* such a record that is not on disk yet.
PlaceOf(r) == IF r.ok THEN r.path ELSE NoPath
Shelf == [p \in Path |-> IF p \in kept THEN files[p].of ELSE NoDoc]
Entry == [d \in Docs |-> PlaceOf(disk[d])]
Pending ==
    [d \in Docs |-> IF PlaceOf(mem[d]) = PlaceOf(disk[d]) THEN NoPath ELSE PlaceOf(mem[d])]
Rows == {<<r.doc, r.path>> : r \in {i \in index : i.status = "Completed"}}

Archived == INSTANCE Archive WITH
    Places <- Path, Empty <- NoDoc, Nowhere <- NoPath,
    listed <- known, shelf <- Shelf, entry <- Entry, pending <- Pending, rows <- Rows

\* However runs are cut short and writes fail, the account's folder keeps what
\* Archive promises of it: a checked copy stays until the person takes it, what
\* counts as saved was shelved where its record says, and stays saved while
\* anything checked stands there (download_one, saved_copy.holds, main).
KeepsArchive == Archived!Spec

-----------------------------------------------------------------------------
(* What holds beside them in every state, for the proofs *)

Attempting == pc \in {"ask", "placed", "check", "unsaved", "aside", "row", "failing"}

\* An attempt has its document and its path, it is told saved only once its
\* copy passed the check, and the copy it names is its own.
AttemptInv ==
    /\ Attempting => cur \in Docs /\ out \in Path
    /\ pc \in {"ask", "placed", "unsaved"} => docPath = NoPath
    /\ pc = "check" => docPath = out
    /\ pc \in {"ask", "placed", "check", "unsaved", "aside"} => ~docOk
    /\ pc \in {"placed", "check"} => (files[out] = NoFile \/ files[out].of = cur)
    /\ docPath # NoPath => cur \in Docs /\ (files[docPath] = NoFile \/ files[docPath].of = cur)
    /\ docOk => docPath # NoPath /\ (files[docPath] = NoFile \/ files[docPath].kind = "whole")

\* A path being saved to was free; a kept file is there and is whole, and no
\* attempt that may still fail holds its path.
PlaceInv ==
    /\ pc = "ask" => files[out] = NoFile
    /\ \A p \in kept : files[p] # NoFile /\ files[p].kind = "whole"
    /\ pc \in {"ask", "placed", "check"} => out \notin kept
    /\ docPath \in kept => docOk

\* The records in memory and on disk part only by a write that failed, and
\* even then not on a document this run has not saved.  The run comes to a
\* document once.
SavedInv ==
    /\ pc \notin {"failing", "leaving"} => mem = disk
    /\ pc \in {"off", "list"} => savedNow = {}
    /\ savedNow \cap todo = {}
    /\ Attempting => cur \notin todo /\ (cur \in savedNow => docOk)
    /\ \A d \in Docs \ savedNow : mem[d].ok => mem[d] = disk[d]
    /\ \A d \in Docs : disk[d].ok /\ disk[d].path \in kept => mem[d].ok
    /\ pc = "row" /\ docOk => disk[cur].ok /\ disk[cur].path = docPath

\* What is taken was listed, and a run that saved a document holds its record
\* until the attempt is over.
ArchiveInv ==
    /\ todo \subseteq known
    /\ Attempting => cur \in known
    /\ Attempting /\ docOk => mem[cur].ok /\ mem[cur].path = docPath

IInv == TypeOK /\ AttemptInv /\ PlaceInv /\ SavedInv /\ VouchedBy(disk) /\ VouchedBy(mem)
=============================================================================
