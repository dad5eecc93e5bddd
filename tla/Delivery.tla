------------------------------- MODULE Delivery -------------------------------
(***************************************************************************)
(* Getting a document into its place (delivery.py, with capture.py and     *)
(* identity.py): deliver, which presses for it, render, which prints it    *)
(* from a page, and place, for the apps that hold its bytes.               *)
(*                                                                         *)
(* deliver arms every listener, presses once, waits, and reads what came   *)
(* in the order of the route's hints: the download, an answer read in      *)
(* flight, a new tab, the folder the browser downloads into.  What a press *)
(* starts may come at any time, in a later capture too, so that what is    *)
(* read may be an earlier press's; and a press may bring another document  *)
(* than the one asked for.  What was read is staged beside its place,      *)
(* checked against its row and the rows it could be confused with, and     *)
(* moved into place, or destroyed, where nothing holds it: a scanner or a  *)
(* sync client may refuse to let a file be removed, moved or written.      *)
(*                                                                         *)
(* A capture is numbered by its press (or print), and `brings` says what a *)
(* press brought.  An answer read in flight and one read from a tab are    *)
(* both an "answer".  Time is left out, and with it what comes too large   *)
(* or too slow, as are asking an address first (ASK) and `strict` off.     *)
(***************************************************************************)
EXTENDS Naturals, FiniteSets

CONSTANTS
    Docs,        \* documents
    Facts,       \* dates, totals, numbers that tell documents apart
    Marks,       \* the facts the row of each document says (Identity.marks;
                 \* where it has no rivals those of Identity.strong)
    Prints,      \* the facts the text of each prints; none: it is not readable
    Rivals,      \* the other rows each could be confused with
    Junk,        \* what does not begin like a PDF
    Part,        \* what does, but was not written whole: it has no text
    Names,       \* names of files in the download folder
    MaxPresses,  \* bound: captures
    MaxFaults    \* bound: captures cut short, files held, texts not read

None == 0
Brought == Docs \cup {Junk}
Things == Brought \cup {Part}

ASSUME DeliveryAssumption ==
    /\ Junk \notin Docs /\ Part \notin Brought /\ None \notin Things
    /\ IsFiniteSet(Facts)
    /\ Marks \in [Docs -> SUBSET Facts] /\ Prints \in [Docs -> SUBSET Facts]
    /\ Rivals \in [Docs -> SUBSET Docs]
    /\ \A d \in Docs : d \notin Rivals[d]
    /\ MaxPresses \in Nat /\ MaxFaults \in Nat

Presses == 1 .. MaxPresses
Kinds == {"download", "answer"}
Ways == Kinds \cup {"folder"}

VARIABLES
    pc,        \* where the capture is: "off" between captures
    current,   \* the document captured last
    outcome,   \* what that came to
    press,     \* captures begun
    brings,    \* what each press brings
    coming,    \* what the presses made may still bring, and how
    folder,    \* the download folder: under each name, the press whose file is
               \* arriving (".crdownload"), and the one whose file is finished
    before,    \* _Armed.before: the folder when the listeners were armed
    seen,      \* what the listeners hold: the press it came from
    toRead,    \* the ways _read_race has still to read
    names,     \* take_new_pdf: the finished files it listed
    staged,    \* durable: what is at each document's ".delivering" path, and
               \* the capture that put it there
    uncleared, \* a page is being drawn whose staged path could not be cleared
    inPlace,   \* durable: what is at each document's own path
    unchecked, \* documents whose file was put in place with its text not read
    faults

vars == <<pc, current, outcome, press, brings, coming, folder, before, seen, toRead, names,
          staged, uncleared, inPlace, unchecked, faults>>

NotStaged == <<None, None>>
NoFolder == [arriving |-> [n \in Names |-> None], finished |-> [n \in Names |-> None]]
NoneSeen == [k \in Kinds |-> None]

Folders == [arriving : [Names -> 0 .. press], finished : [Names -> 0 .. press]]

TypeOK ==
    /\ pc \in {"off", "wait", "take", "check"}
    /\ current \in Docs
    /\ outcome \in {"none", "saved", "nothing", "not a PDF", "wrong", "not placed", "cut"}
    /\ press \in 0 .. MaxPresses
    /\ brings \in [Presses -> Brought]
    /\ coming \subseteq Ways \X (1 .. press)
    /\ folder \in Folders /\ before \in Folders
    /\ seen \in [Kinds -> 0 .. press]
    /\ pc \in {"off", "check"} => seen = NoneSeen /\ before = NoFolder
    /\ toRead \subseteq Ways
    /\ names \subseteq Names
    /\ pc # "take" => names = {}
    /\ staged \in [Docs -> (Things \X (0 .. press)) \cup {NotStaged}]
    /\ pc = "check" => staged[current] # NotStaged
    /\ uncleared \in BOOLEAN
    /\ inPlace \in [Docs -> Docs \cup {Part, None}]
    /\ unchecked \subseteq Docs
    /\ faults \in 0 .. MaxFaults

Init ==
    /\ pc = "off" /\ current \in Docs /\ outcome = "none" /\ press = 0
    /\ brings = [p \in Presses |-> Junk]
    /\ coming = {} /\ folder = NoFolder /\ before = NoFolder
    /\ seen = NoneSeen /\ toRead = {} /\ names = {}
    /\ staged = [d \in Docs |-> NotStaged] /\ uncleared = FALSE
    /\ inPlace = [d \in Docs |-> None] /\ unchecked = {}
    /\ faults = 0

Fault == faults < MaxFaults /\ faults' = faults + 1

IsPdf(c) == c # Junk

-----------------------------------------------------------------------------
(* The check (identity.py). *)

\* What can be read of it.
Text(c) == IF c \in Docs THEN Prints[c] ELSE {}

\* The facts no other of the rows says.
Own(d, others) == Marks[d] \ UNION {Marks[o] : o \in others \ {d}}

\* How many of a row's own facts a text prints.
Score(d, others, text) == Cardinality(Own(d, others) \cap text)

\* Mutant: a document that prints anything a rival's row says is the rival's.
RefusedByAny(d, c) ==
    \E r \in Rivals[d] : Score(r, Rivals[d] \cup {d}, Text(c)) > 0

\* Mutant: nobody else's row is looked at.
RefusedAlone(d, c) ==
    Marks[d] # {} /\ Text(c) # {} /\ Marks[d] \cap Text(c) = {}

\* distinguish refuses a document that prints more of a rival's own facts than
\* of its row's; with no rival (verify) one that prints none of its row's.
Refuses(d, c) ==
    /\ Marks[d] # {} /\ Text(c) # {}
    /\ IF Rivals[d] = {} THEN Marks[d] \cap Text(c) = {}
       ELSE LET rows == Rivals[d] \cup {d} IN
            \E r \in Rivals[d] : Score(r, rows, Text(c)) > Score(d, rows, Text(c))

-----------------------------------------------------------------------------
(* What is staged. *)

\* Mutant: what an earlier capture left staged stays.
NotCleared(d) == staged

Cleared(d) == [staged EXCEPT ![d] = NotStaged]

\* Somebody holds the staged file, and it is not removed.
Held(d) == staged[d] # NotStaged /\ Fault /\ UNCHANGED staged

\* _clear, which goes on when the file cannot be removed.
Clear(d) ==
    \/ staged' = Cleared(d) /\ UNCHANGED faults
    \/ Held(d)

\* The capture under way has c at its staged path.
Stage(c) == staged' = [staged EXCEPT ![current] = <<c, press>>]

-----------------------------------------------------------------------------
(* A capture. *)

Begins(d) ==
    /\ pc = "off" /\ press < MaxPresses
    /\ current' = d
    /\ press' = press + 1

Checks == pc' = "check" /\ outcome' = "none"
Ends(what) == pc' = "off" /\ outcome' = what

\* The staged path is cleared, the listeners are armed and the folder is noted;
\* then the press.  What it brings may come in each of the ways, sooner, later or
\* never.
Deliver(d) ==
    /\ Begins(d)
    /\ pc' = "wait" /\ outcome' = "none"
    /\ Clear(d)
    /\ uncleared' = FALSE
    /\ before' = folder
    /\ toRead' = Ways
    /\ coming' = coming \cup (Ways \X {press'})
    /\ \E c \in Brought : brings' = [brings EXCEPT ![press'] = c]
    /\ UNCHANGED <<folder, seen, names, inPlace, unchecked>>

\* The page is drawn, or the bytes the app holds are written.
Drawn(d) ==
    /\ \E c \in Brought : staged' = [staged EXCEPT ![d] = <<c, press'>>]
    /\ Checks
    /\ uncleared' = FALSE
    /\ UNCHANGED faults

\* Nothing is, and what had been cleared stays so, or was held.
NotDrawn(d) == Clear(d) /\ Ends("nothing") /\ uncleared' = FALSE

\* It is in part: the write was refused half way (place), or the drawing failed
\* and the part it left could not be removed (render).
PartDrawn(d) ==
    /\ Fault
    /\ staged' = [staged EXCEPT ![d] = <<Part, press'>>]
    /\ Ends("nothing")
    /\ uncleared' = FALSE

Place(d) ==
    /\ Begins(d)
    /\ Drawn(d) \/ NotDrawn(d) \/ PartDrawn(d)
    /\ UNCHANGED <<brings, coming, folder, before, seen, toRead, names, inPlace, unchecked>>

\* A drawing may end and have drawn nothing, and what is staged is checked then
\* if there is anything.
Render(d) ==
    /\ Begins(d)
    /\ \/ Drawn(d) \/ NotDrawn(d) \/ PartDrawn(d)
       \/ /\ Clear(d)
          /\ IF staged'[d] = NotStaged THEN Ends("nothing") ELSE Checks
          /\ uncleared' = (faults' # faults)
    /\ UNCHANGED <<brings, coming, folder, before, seen, toRead, names, inPlace, unchecked>>

\* A listener keeps the first of what it hears, of the answers and tabs the
\* first that is a PDF.  Between captures nobody listens.
Arrives(k, p) ==
    /\ <<k, p>> \in coming
    /\ coming' = coming \ {<<k, p>>}
    /\ seen' = IF /\ pc \in {"wait", "take"} /\ seen[k] = None
                  /\ k = "download" \/ IsPdf(brings[p])
               THEN [seen EXCEPT ![k] = p] ELSE seen
    /\ UNCHANGED <<pc, current, outcome, press, brings, folder, before, toRead, names, staged,
                   uncleared, inPlace, unchecked, faults>>

\* The browser writes a file in the folder, as long as it takes, under the
\* site's own name or, while a download of that name is arriving, another.
FileBegins(p, n) ==
    /\ <<"folder", p>> \in coming
    /\ folder.arriving[n] = None
    /\ coming' = coming \ {<<"folder", p>>}
    /\ folder' = [folder EXCEPT !.arriving[n] = p]
    /\ UNCHANGED <<pc, current, outcome, press, brings, before, seen, toRead, names, staged,
                   uncleared, inPlace, unchecked, faults>>

\* A finished file of the name is written over.
FileFinished(n) ==
    /\ folder.arriving[n] # None
    /\ folder' = [arriving |-> [folder.arriving EXCEPT ![n] = None],
                  finished |-> [folder.finished EXCEPT ![n] = folder.arriving[n]]]
    /\ UNCHANGED <<pc, current, outcome, press, brings, coming, before, seen, toRead, names,
                   staged, uncleared, inPlace, unchecked, faults>>

\* Mutant: the listeners stay on.
StaysArmed == names' = {} /\ UNCHANGED <<before, seen, toRead>>

\* The listeners go with the capture.
Disarmed == before' = NoFolder /\ seen' = NoneSeen /\ toRead' = {} /\ names' = {}

\* Something came or the wait is over, and _read_race reads what came, in the
\* order of the route's hints, which can be any.  The first that holds a PDF is
\* taken.  A read may fail, as that of a download's event does that holds an
\* empty file where the browser writes into a folder, and may leave at the
\* staged path what it got, held or not written whole.
Read(k) ==
    /\ pc = "wait" /\ k \in toRead
    /\ \/ /\ seen[k] # None /\ IsPdf(brings[seen[k]])
          /\ Stage(brings[seen[k]])
          /\ pc' = "check"
          /\ Disarmed
          /\ UNCHANGED faults
       \/ /\ toRead' = toRead \ {k}
          /\ \/ UNCHANGED <<staged, faults>>
             \/ seen[k] # None /\ Fault /\ Stage(IF k = "download" THEN Junk ELSE Part)
          /\ UNCHANGED <<pc, before, seen, names>>
    /\ UNCHANGED <<current, outcome, press, brings, coming, folder, uncleared, inPlace, unchecked>>

\* take_new_pdf lists the finished files that are new or written again first,
ListFolder ==
    /\ pc = "wait" /\ "folder" \in toRead
    /\ pc' = "take"
    /\ toRead' = toRead \ {"folder"}
    /\ names' = {n \in Names : folder.finished[n] \notin {None, before.finished[n]}}
    /\ UNCHANGED <<current, outcome, press, brings, coming, folder, before, seen, staged,
                   uncleared, inPlace, unchecked, faults>>

\* Mutant: it does not ask.
NoneFinished == FALSE

\* and asks then whether one that was arriving when the capture began has
\* finished since (earlier_finished), which it tells by the name: not, where
\* another download arrives under that name by then.
EarlierFinished ==
    \E n \in Names : before.arriving[n] # None /\ folder.arriving[n] = None

\* It takes one, unless they are several documents.  One that cannot be moved may
\* have taken away what was staged, or be there in part.
TakeFromFolder ==
    /\ pc = "take"
    /\ LET docs == {n \in names : IsPdf(brings[folder.finished[n]])}
           whose == ~EarlierFinished
                    /\ Cardinality({brings[folder.finished[n]] : n \in docs}) = 1
       IN
       \/ \E n \in docs :
             /\ whose
             /\ Stage(brings[folder.finished[n]])
             /\ folder' = [folder EXCEPT !.finished[n] = None]
             /\ pc' = "check"
             /\ Disarmed
             /\ UNCHANGED faults
       \/ /\ pc' = "wait"
          /\ names' = {}
          /\ \/ UNCHANGED <<staged, faults>>
             \/ whose /\ Fault /\ (staged' = Cleared(current) \/ Stage(Part))
          /\ UNCHANGED <<folder, before, seen, toRead>>
    /\ UNCHANGED <<current, outcome, press, brings, coming, uncleared, inPlace, unchecked>>

\* Nothing that was read is a PDF.
GiveUp ==
    /\ pc = "wait" /\ toRead = {}
    /\ Clear(current)
    /\ Ends("nothing")
    /\ Disarmed
    /\ UNCHANGED <<current, press, brings, coming, folder, uncleared, inPlace, unchecked>>

\* os.replace puts what is staged in place.
Placed(c) ==
    /\ Ends("saved")
    /\ inPlace' = [inPlace EXCEPT ![current] = c]
    /\ staged' = [staged EXCEPT ![current] = NotStaged]

\* _finish: what is staged is checked and moved into place, or destroyed.  A
\* check that cannot be made, or whose text is not read in time, refuses nothing.
Finish ==
    /\ pc = "check"
    /\ LET c == staged[current][1] IN
       \/ /\ ~IsPdf(c)
          /\ Ends("not a PDF") /\ Clear(current)
          /\ UNCHANGED <<inPlace, unchecked>>
       \/ /\ IsPdf(c) /\ Refuses(current, c)
          /\ Ends("wrong") /\ Clear(current)
          /\ UNCHANGED <<inPlace, unchecked>>
       \/ /\ IsPdf(c) /\ ~Refuses(current, c)
          /\ Placed(c)
          /\ unchecked' = unchecked \ {current}
          /\ UNCHANGED faults
       \/ /\ IsPdf(c) /\ Refuses(current, c) /\ Fault
          /\ Placed(c)
          /\ unchecked' = unchecked \cup {current}
       \/ /\ IsPdf(c) /\ ~Refuses(current, c) /\ Fault
          /\ Ends("not placed")
          /\ staged' \in {staged, Cleared(current)}
          /\ UNCHANGED <<inPlace, unchecked>>
    /\ UNCHANGED <<current, press, brings, coming, folder, before, seen, toRead, names, uncleared>>

\* The run is killed in the middle of a capture, perhaps while it writes.
Cut ==
    /\ pc # "off" /\ Fault
    /\ Ends("cut")
    /\ Disarmed
    /\ UNCHANGED staged \/ Stage(Part)
    /\ UNCHANGED <<current, press, brings, coming, folder, uncleared, inPlace, unchecked>>

Over ==
    /\ pc = "off" /\ press = MaxPresses
    /\ UNCHANGED vars

Next ==
    \/ \E d \in Docs : Deliver(d) \/ Place(d) \/ Render(d)
    \/ \E k \in Kinds, p \in Presses : Arrives(k, p)
    \/ \E n \in Names : FileFinished(n) \/ \E p \in Presses : FileBegins(p, n)
    \/ \E k \in Kinds : Read(k)
    \/ ListFolder \/ TakeFromFolder \/ GiveUp
    \/ Finish \/ Cut \/ Over

Spec == Init /\ [][Next]_vars

-----------------------------------------------------------------------------
(* Properties. *)

\* c's text prints a fact only its own row says, of the rows d is told apart
\* from, and none that only d's row says.
ToldApart(d, c) ==
    LET rows == Rivals[d] \cup {d} IN
    /\ c \in Rivals[d]
    /\ Own(c, rows) \cap Prints[c] # {} /\ Own(d, rows) \cap Prints[c] = {}
    /\ Marks[d] # {}

\* No document is in the place of another it can be told apart from, however
\* late what was pressed for came, whatever a press brought and an earlier
\* capture left, unless its text could not be read (_finish).
RightOrNotTold ==
    \A d \in Docs : inPlace[d] # None /\ d \notin unchecked => ~ToldApart(d, inPlace[d])

\* A document is not refused as another's when it is the one that was asked for,
\* though it prints what another row says beside what its own does.
OwnNotRefused ==
    [][pc = "check" /\ outcome' = "wrong" => staged[current][1] # current]_vars

\* What is taken from the folder was not there when the capture began, and was on
\* its way only if another download has its name by now (take_new_pdf,
\* earlier_finished).
FolderTellsWhose ==
    [][\A n \in Names :
         LET p == folder.finished[n] IN
         p # None /\ folder'.finished[n] = None =>
             /\ p # before.finished[n]
             /\ \A m \in Names : before.arriving[m] = p => folder.arriving[m] \notin {None, p}]_vars

\* What takes a place was staged by the capture that puts it there, never by an
\* earlier one, though its file was held when it was to be cleared, but for a page
\* that then drew nothing (deliver, place, render).
StagedNow ==
    [][outcome # "saved" /\ outcome' = "saved" =>
         staged[current][2] = press \/ uncleared]_vars
=============================================================================
