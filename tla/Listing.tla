-------------------------------- MODULE Listing --------------------------------
(***************************************************************************)
(* Whether the provider's list was ever read to its end (listing.py).      *)
(*                                                                         *)
(* Resume reads no list of its own, so whether it may call the install     *)
(* finished rests on one note, last-listing.json: a listing notes itself   *)
(* as stopped before it asks for anything and as whole only once the app   *)
(* has the whole list and discovery.json holds it.  A run may be scoped to *)
(* part of the history, which says nothing about the rest, so its listing  *)
(* puts back what the note said before.  An older version left a mark file *)
(* in place of the note.                                                   *)
(*                                                                         *)
(* The model has both kinds of app: a document app's Resume carries on     *)
(* with what is known (resume), a receipt app's reads the list again first *)
(* after one that stopped (read_again_first).  The provider's list only    *)
(* grows here.                                                             *)
(***************************************************************************)
EXTENDS Naturals, FiniteSets

CONSTANTS
    Items,       \* everything the provider may ever list
    Parts,       \* the parts of the history a scope may take
    MaxFaults    \* bound: runs cut short, writes refused, lists read in part

ASSUME ListingAssumption ==
    Parts \subseteq SUBSET Items /\ MaxFaults \in Nat

\* What _before can say of the whole list: read, not read, or no note of it.
Word == {"whole", "stopped", "none"}
Note == [complete : BOOLEAN, scoped : BOOLEAN, before : Word]
NoNote == [complete |-> FALSE, scoped |-> FALSE, before |-> "absent"]

VARIABLES
    receipts, \* the app is a receipt app, or a document app
    avail,    \* what the provider lists now
    note,     \* durable: last-listing.json, or NoNote
    oldMark,  \* durable: an older version's mark of a listing that stopped
    known,    \* durable: discovery.json
    done,     \* durable: what is saved, from progress.json
    pc,       \* where the run is, "off" between runs
    mode,     \* "list" for Discover, Pilot and Run All, or "resume"
    scoped,   \* the run has a year or dates set
    part,     \* what the run's scope takes
    toRead,   \* what the listing under way has to read
    found,    \* what it has read so far
    before,   \* App._listing_before, "unstarted" for _NOT_STARTED
    result,   \* how the last run ended
    owed,     \* history: what the last noted listing of all set out to read
    allSaid,  \* history: what was last noted of the whole list
    faults

vars == <<receipts, avail, note, oldMark, known, done, pc, mode, scoped, part, toRead,
          found, before, result, owed, allSaid, faults>>

PCs == {"off", "resume", "start", "listing", "saved", "take"}

TypeOK ==
    /\ receipts \in BOOLEAN
    /\ avail \subseteq Items
    /\ note \in Note \cup {NoNote}
    /\ oldMark \in BOOLEAN
    /\ known \subseteq Items
    /\ done \subseteq known
    /\ pc \in PCs
    /\ mode \in {"list", "resume"}
    /\ scoped \in BOOLEAN
    /\ part \in Parts \cup {Items}
    /\ toRead \subseteq avail
    /\ found \subseteq toRead
    /\ before \in Word \cup {"unstarted"}
    /\ result \in {"none", "clean", "stopped", "list not read"}
    /\ owed \subseteq avail
    /\ allSaid \in Word
    /\ faults \in 0 .. MaxFaults

\* An install may come from an older version, with its mark and what it knew.
Init ==
    /\ receipts \in BOOLEAN
    /\ avail \in SUBSET Items
    /\ note = NoNote
    /\ oldMark \in BOOLEAN
    /\ known \in SUBSET avail
    /\ done = {}
    /\ pc = "off" /\ mode = "list" /\ scoped = FALSE /\ part = Items
    /\ toRead = {} /\ found = {} /\ before = "unstarted"
    /\ result = "none"
    /\ owed = IF oldMark THEN avail ELSE {}
    /\ allSaid = IF oldMark THEN "stopped" ELSE "none"
    /\ faults = 0

-----------------------------------------------------------------------------
(* The note *)

\* last: how the last listing ended, with no note the old mark's word.
Last ==
    IF note # NoNote THEN (IF note.complete THEN "whole" ELSE "stopped")
    ELSE IF oldMark THEN "stopped" ELSE "none"

\* Mutant: what a scoped listing that stopped had kept is not looked at.
BeforeLast == Last

\* _before: what the note says of the whole list, which a scoped listing that
\* stopped has kept from before it.
Before ==
    IF note # NoNote /\ note.scoped /\ ~note.complete THEN note.before ELSE Last

Fault == faults < MaxFaults /\ faults' = faults + 1

\* started: the note says stopped until the list is whole, and the old mark
\* goes, when it can be taken away.
NoteStarted ==
    /\ note' = [complete |-> FALSE, scoped |-> scoped, before |-> Before]
    /\ before' = Before
    /\ oldMark' \in {FALSE, oldMark}
    /\ owed' = IF scoped THEN owed ELSE avail
    /\ allSaid' = IF scoped THEN allSaid ELSE "stopped"

\* A note that cannot be written leaves the last one, which is then not put
\* back at the end.
NoteRefused ==
    /\ before' = "unstarted"
    /\ UNCHANGED <<note, oldMark, owed, allSaid>>

\* A note with no scope in it.
Whole(complete) == [complete |-> complete, scoped |-> FALSE, before |-> "none"]

\* Mutant: a scoped listing counts as one of the whole list.
PutBackWhole == Whole(TRUE)

\* Mutant: a listing of the whole list puts back what was said before it.
PutBackAlways ==
    IF before = "unstarted" THEN note
    ELSE IF before = "none" THEN NoNote
    ELSE Whole(before = "whole")

\* What read_whole leaves of the note when its write goes through.
PutBack ==
    IF ~scoped THEN Whole(TRUE)
    ELSE IF before = "unstarted" THEN note
    ELSE IF before = "none" THEN NoNote
    ELSE Whole(before = "whole")

\* read_whole: a listing of part of the history puts back what the note said.
ReadWhole ==
    /\ \/ /\ note' = PutBack
          /\ allSaid' = IF scoped THEN allSaid ELSE "whole"
          /\ UNCHANGED faults
       \/ Fault /\ UNCHANGED <<note, allSaid>>
    /\ before' = IF scoped THEN "unstarted" ELSE before

-----------------------------------------------------------------------------
(* A run *)

\* Mutant: what the scope takes is not looked up in discovery.json.
InScopeUnlisted == part

\* _select: what is known and in the run's scope.
InScope == known \cap part
Remaining == InScope \ done

\* The run is over, and the panel hears how it ended.
End(how) ==
    /\ pc' = "off"
    /\ result' = how
    /\ toRead' = {} /\ found' = {} /\ before' = "unstarted"

Start(m, sc, p) ==
    /\ pc = "off"
    /\ sc \/ p = Items
    /\ pc' = IF m = "resume" THEN "resume" ELSE "start"
    /\ mode' = m /\ scoped' = sc /\ part' = p
    /\ UNCHANGED <<receipts, avail, note, oldMark, known, done, toRead, found, before,
                   result, owed, allSaid, faults>>

NothingListed == known = {} /\ Last # "whole"

\* resume and before_resume of a document app.
ResumeDocuments ==
    /\ pc = "resume" /\ ~receipts
    /\ \/ NothingListed /\ End("list not read")
       \/ ~NothingListed /\ Remaining = {} /\ Last # "stopped" /\ End("clean")
       \/ /\ ~NothingListed /\ (Remaining # {} \/ Last = "stopped")
          /\ pc' = "take"
          /\ UNCHANGED <<toRead, found, before, result>>
    /\ UNCHANGED <<receipts, avail, note, oldMark, known, done, mode, scoped, part, owed, allSaid, faults>>

\* read_again_first: a receipt app's Resume lists again after a stop.
ResumeReceipts ==
    /\ pc = "resume" /\ receipts
    /\ \/ Last = "stopped" /\ pc' = "start" /\ UNCHANGED <<toRead, found, before, result>>
       \/ Last # "stopped" /\ NothingListed /\ End("list not read")
       \/ /\ Last # "stopped" /\ ~NothingListed
          /\ pc' = "take"
          /\ UNCHANGED <<toRead, found, before, result>>
    /\ UNCHANGED <<receipts, avail, note, oldMark, known, done, mode, scoped, part, owed, allSaid, faults>>

\* cmd_discover begins.
BeginListing ==
    /\ pc = "start"
    /\ \/ NoteStarted /\ UNCHANGED faults
       \/ NoteRefused /\ Fault
    /\ toRead' = avail \cap part
    /\ found' = {}
    /\ pc' = "listing"
    /\ UNCHANGED <<receipts, avail, known, done, mode, scoped, part, result>>

ReadSome(i) ==
    /\ pc = "listing"
    /\ i \in toRead \ found
    /\ found' = found \cup {i}
    /\ UNCHANGED <<receipts, avail, note, oldMark, known, done, pc, mode, scoped, part,
                   toRead, before, result, owed, allSaid, faults>>

\* The list is in: discovery.json is written before the note says so.
SaveList ==
    /\ pc = "listing" /\ found = toRead
    /\ known' = known \cup found
    /\ pc' = "saved"
    /\ UNCHANGED <<receipts, avail, note, oldMark, done, mode, scoped, part, toRead,
                   found, before, result, owed, allSaid, faults>>

\* read_whole, once discovery.json holds the list.
NoteWhole ==
    /\ pc = "saved"
    /\ ReadWhole
    /\ pc' = "take"
    /\ UNCHANGED <<receipts, avail, oldMark, known, done, mode, scoped, part, toRead,
                   found, result, owed>>

\* A list read in part (a card's list Citi did not give, a year Target passed
\* over) is used, and never noted whole.
SaveInPart ==
    /\ pc = "listing" /\ found # toRead
    /\ Fault
    /\ known' = known \cup found
    /\ pc' = "take"
    /\ UNCHANGED <<receipts, avail, note, oldMark, done, mode, scoped, part, toRead,
                   found, before, result, owed, allSaid>>

Take(i) ==
    /\ pc = "take"
    /\ i \in Remaining
    /\ done' = done \cup {i}
    /\ UNCHANGED <<receipts, avail, note, oldMark, known, pc, mode, scoped, part, toRead,
                   found, before, result, owed, allSaid, faults>>

\* Mutant: Resume of a document app ends without after_resume.
OutcomeUnasked == IF receipts /\ found # toRead THEN "stopped" ELSE "clean"

\* How a run that came to its end is reported: after_resume for a document
\* app's Resume, and a receipt app stops when its own listing was in part.
Outcome ==
    IF mode = "resume" /\ ~receipts
    THEN (IF Last = "stopped" THEN "list not read" ELSE "clean")
    ELSE IF receipts /\ found # toRead THEN "stopped" ELSE "clean"

\* The run has been through its documents, those it could not take left over.
Finish ==
    /\ pc = "take"
    /\ End(Outcome)
    /\ UNCHANGED <<receipts, avail, note, oldMark, known, done, mode, scoped, part, owed, allSaid, faults>>

\* read_again_stopped: the list read again for a document did not come.
ReadAgainStopped ==
    /\ pc = "take"
    /\ Fault
    /\ NoteStarted \/ NoteRefused
    /\ pc' = "off"
    /\ result' = "list not read"
    /\ toRead' = {} /\ found' = {}
    /\ UNCHANGED <<receipts, avail, known, done, mode, scoped, part>>

\* A sign-in, a page that would not open, Ctrl+C or a kill.  What the listing
\* had found is written on the way out, unless the process was killed.
Stop ==
    /\ pc # "off"
    /\ Fault
    /\ known' \in {known, known \cup found}
    /\ End("stopped")
    /\ UNCHANGED <<receipts, avail, note, oldMark, done, mode, scoped, part, owed, allSaid>>

\* The provider lists something new.
NewItem(i) ==
    /\ avail' = avail \cup {i}
    /\ i \notin avail
    /\ UNCHANGED <<receipts, note, oldMark, known, done, pc, mode, scoped, part, toRead,
                   found, before, result, owed, allSaid, faults>>

RunStep ==
    \/ ResumeDocuments \/ ResumeReceipts
    \/ BeginListing
    \/ \E i \in Items : ReadSome(i)
    \/ SaveList
    \/ NoteWhole
    \/ Finish

Next ==
    \/ \E m \in {"list", "resume"}, sc \in BOOLEAN, p \in Parts \cup {Items} :
           Start(m, sc, p)
    \/ RunStep
    \/ SaveInPart
    \/ ReadAgainStopped
    \/ Stop
    \/ \E i \in Items : Take(i) \/ NewItem(i)

Spec == Init /\ [][Next]_vars

\* Runs go on whenever they can, and the person presses what the panel offers:
\* Get new documents after a list not read, and Resume.
FairSpec ==
    /\ Spec
    /\ WF_vars(RunStep)
    /\ SF_vars(Start("list", FALSE, Items))
    /\ SF_vars(Start("resume", FALSE, Items))

-----------------------------------------------------------------------------
(* Properties *)

\* A Resume over the whole history reports a finished install only when
\* everything the last noted reading of the whole list set out to read is
\* known, however many listings stopped and scoped runs came between.
CleanMeansRead ==
    [][pc # "off" /\ pc' = "off" /\ result' = "clean" /\ mode = "resume" /\ ~scoped
        => owed \subseteq known]_vars

\* What was last noted of the whole list is not lost by runs scoped to a part
\* of it, that end or stop in any order (_before and read_whole).
WordKept == Before = allSaid

\* A person told the list was not read gets a Resume that finishes clean by
\* running a listing of the whole list and Resume (#124, Chase's Continue).
EventuallyClean ==
    result = "list not read" ~> (pc = "off" /\ mode = "resume" /\ result = "clean")
=============================================================================
