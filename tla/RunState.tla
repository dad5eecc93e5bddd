------------------------------- MODULE RunState -------------------------------
(***************************************************************************)
(* A store of records between runs (JsonStore in storage.py: progress.json *)
(* and discovery.json), one of them.                                       *)
(*                                                                         *)
(* A run reads the file, changes the records in memory, writes the whole   *)
(* file beside it and puts that in its place, and writes once more on its  *)
(* way out.  A file that cannot be read, or holds no records, is copied    *)
(* to Backups and the newest copy there that can be read is taken for it;  *)
(* some saves copy the file there, too.  Another program may hold the file *)
(* or a copy, a run may be killed anywhere, and between runs the file may  *)
(* come to be broken.                                                      *)
(*                                                                         *)
(* A record is there or not; what it says is left out.  Files are ordered  *)
(* by the time they were written, which a copy keeps, so the copies are a  *)
(* sequence: none is older than the copies made before it.  Without        *)
(* Backups, which every app gives its stores, nothing could be recovered.  *)
(***************************************************************************)
EXTENDS Naturals, Sequences, FiniteSets

CONSTANTS
    Keys,        \* what records are about
    NoFile,      \* stands for a file that is not there
    NoRecords,   \* stands for what holds no records
    MaxFaults,   \* bound: reads and writes refused
    MaxBreaks,   \* bound: times the file is broken between runs
    MaxBackups   \* bound: copies

ASSUME RunStateAssumption ==
    /\ NoFile \notin Keys /\ NoRecords \notin Keys /\ NoFile # NoRecords
    /\ MaxFaults \in Nat /\ MaxBreaks \in Nat /\ MaxBackups \in Nat

\* What a file may hold but records; of what it holds nothing may be known.
Missing == {NoFile}
Broken == {NoRecords}
Unknown == {NoRecords}

VARIABLES
    file,      \* durable: the records the file holds
    backups,   \* durable: the copies in Backups, in the order of their times
    mem,       \* JsonStore.data
    written,   \* JsonStore._as_written
    pc,        \* where the run is: "off" between runs
    unsaved,   \* the run said on its way out that the file was not written
    ended,     \* the last run came to its end
    refused,   \* reads refused since the run began to load
    trusted,   \* no load was refused more reads than it copes with
    acked,     \* the records that were written, and not broken since
    faults, breaks

vars == <<file, backups, mem, written, pc, unsaved, ended, refused, trusted, acked,
          faults, breaks>>

\* What the properties look back on, and a bound.
history == <<ended, refused, trusted, breaks>>

Whole(c) == c \subseteq Keys

TypeOK ==
    /\ file \in (SUBSET Keys) \cup {Missing, Broken}
    /\ backups \in Seq((SUBSET Keys) \cup {Broken})
    /\ mem \subseteq Keys
    /\ written \in (SUBSET Keys) \cup {Unknown}
    /\ pc \in {"off", "load", "copy", "recover", "run", "backup", "save", "leave"}
    /\ unsaved \in BOOLEAN /\ ended \in BOOLEAN /\ trusted \in BOOLEAN
    /\ refused \in Nat
    /\ acked \subseteq Keys
    /\ faults \in 0 .. MaxFaults /\ breaks \in 0 .. MaxBreaks

Init ==
    /\ file = Missing /\ backups = <<>>
    /\ mem = {} /\ written = Unknown
    /\ pc = "off" /\ unsaved = FALSE /\ ended = FALSE
    /\ refused = 0 /\ trusted = TRUE
    /\ acked = {}
    /\ faults = 0 /\ breaks = 0

Fault(n) == faults + n <= MaxFaults /\ faults' = faults + n

-----------------------------------------------------------------------------
(* load *)

Start ==
    /\ pc = "off" /\ pc' = "load"
    /\ mem' = {} /\ written' = Unknown
    /\ unsaved' = FALSE /\ ended' = FALSE /\ refused' = 0
    /\ UNCHANGED <<file, backups, trusted, acked, faults, breaks>>

\* Mutant: a file of another shape loads as no records (as it once did).
LoadsShapeless(c) == Whole(c) \/ c = Broken

\* What json.load gives records for.
Loads(c) == Whole(c)

Load ==
    /\ pc = "load"
    /\ Loads(file) \/ file = Missing
    /\ mem' = IF Whole(file) THEN file ELSE {}
    /\ written' = IF Whole(file) THEN file ELSE Unknown
    /\ pc' = "run"
    /\ UNCHANGED <<file, backups, unsaved, history, acked, faults>>

\* It cannot be read, for now or for good.
CannotLoad ==
    /\ pc = "load" /\ file # Missing
    /\ IF Loads(file) THEN Fault(1) /\ refused' = 1 ELSE UNCHANGED <<faults, refused>>
    /\ pc' = "copy"
    /\ UNCHANGED <<file, backups, mem, written, unsaved, ended, trusted, acked, breaks>>

\* backup_file
CopyTo(b) == Append(b, file)

BackUpUnread ==
    /\ pc = "copy" /\ Len(backups) < MaxBackups
    /\ backups' = CopyTo(backups)
    /\ pc' = "recover"
    /\ UNCHANGED <<file, mem, written, unsaved, history, acked, faults>>

\* A file that cannot be copied either ends the run before it has begun: App is
\* made outside main's try, so that nothing is saved on the way out.
CannotBackUp ==
    /\ pc = "copy" /\ Fault(1)
    /\ pc' = "off"
    /\ UNCHANGED <<file, backups, mem, written, unsaved, history, acked>>

WholeCopies == {i \in DOMAIN backups : Whole(backups[i])}

\* Mutant: the copies from the oldest on.
PassedOverOldest(i) == {j \in WholeCopies : j < i}

\* _recover_from_backup: the newest copy that can be read.  These are refused
\* when it takes the i-th, or with i = 0 none.
PassedOver(i) == {j \in WholeCopies : j > i}

Recover(i) ==
    /\ pc = "recover"
    /\ Fault(Cardinality(PassedOver(i)))
    /\ refused' = refused + Cardinality(PassedOver(i))
    /\ mem' = IF i = 0 THEN {} ELSE backups[i]
    /\ trusted' = (trusted /\ refused' <= (IF Whole(file) THEN 1 ELSE 0))
    /\ pc' = "run"
    /\ UNCHANGED <<file, backups, written, unsaved, ended, acked, breaks>>

-----------------------------------------------------------------------------
(* update and save *)

Update(k) ==
    /\ pc = "run"
    /\ mem' = mem \cup {k}
    /\ pc' = "save"
    /\ UNCHANGED <<file, backups, written, unsaved, history, acked, faults>>

\* Mutant: a file that is not there is copied.
BacksUpAlways == "backup"

\* save(backup=True): the file is copied first, if there is one.
BacksUp == IF file = Missing THEN "save" ELSE "backup"

SaveWithBackup ==
    /\ pc = "run"
    /\ pc' = BacksUp
    /\ UNCHANGED <<file, backups, mem, written, unsaved, history, acked, faults>>

BackUp ==
    /\ pc = "backup"
    /\ \/ /\ Len(backups) < MaxBackups
          /\ backups' = CopyTo(backups)
          /\ pc' = "save"
          /\ UNCHANGED faults
       \/ /\ Fault(1)
          /\ pc' = "leave"
          /\ UNCHANGED backups
    /\ UNCHANGED <<file, mem, written, unsaved, history, acked>>

\* Mutant: what is to be written counts as written.
WrittenAtOnce == mem

\* What the file is taken to hold when a write of it was refused.
WrittenBefore == written

\* atomic_write_text: the file in one piece, or, held for a minute, as it was,
\* which what goes through the documents survives or not.
Save ==
    /\ pc = "save"
    /\ \/ /\ file' = mem /\ written' = mem
          /\ acked' = acked \cup mem
          /\ pc' = "run"
          /\ UNCHANGED faults
       \/ /\ Fault(1)
          /\ written' = WrittenBefore
          /\ pc' \in {"run", "leave"}
          /\ UNCHANGED <<file, acked>>
    /\ UNCHANGED <<backups, mem, unsaved, history>>

Finish ==
    /\ pc = "run" /\ pc' = "leave"
    /\ UNCHANGED <<file, backups, mem, written, unsaved, history, acked, faults>>

\* save(leaving=True), in main's finally
Leave ==
    /\ pc = "leave" /\ pc' = "off"
    /\ ended' = TRUE
    /\ \/ /\ mem = written
          /\ UNCHANGED <<file, written, acked, unsaved, faults>>
       \/ /\ mem # written
          /\ file' = mem /\ written' = mem
          /\ acked' = acked \cup mem
          /\ UNCHANGED <<unsaved, faults>>
       \/ /\ mem # written /\ Fault(1)
          /\ unsaved' = TRUE
          /\ UNCHANGED <<file, written, acked>>
    /\ UNCHANGED <<backups, mem, refused, trusted, breaks>>

-----------------------------------------------------------------------------

\* Mutant: the file is written in its place.
CrashLeavesPart == IF pc \in {"save", "leave"} /\ mem # written THEN Broken ELSE file

\* A write that is cut has written beside the file.
CrashLeaves == file

\* A copy that is cut is there in part.
CrashCopies ==
    IF pc \in {"copy", "backup"} /\ Len(backups) < MaxBackups
    THEN {backups, Append(backups, Broken)} ELSE {backups}

Crash ==
    /\ pc # "off" /\ pc' = "off"
    /\ file' = CrashLeaves
    /\ backups' \in CrashCopies
    /\ UNCHANGED <<mem, written, unsaved, history, acked, faults>>

\* What the copies hold.
Copied == UNION {backups[i] : i \in WholeCopies}

\* The records of the newest whole copy.
Newest ==
    IF WholeCopies = {} THEN {}
    ELSE backups[CHOOSE i \in WholeCopies : \A j \in WholeCopies : j <= i]

\* A disk, a sync client or a person breaks the file.
Break ==
    /\ pc = "off" /\ Whole(file)
    /\ breaks < MaxBreaks /\ breaks' = breaks + 1
    /\ file' = Broken
    /\ acked' = acked \cap (IF trusted THEN Newest ELSE Copied)
    /\ UNCHANGED <<backups, mem, written, pc, unsaved, ended, refused, trusted, faults>>

Next ==
    \/ Start \/ Load \/ CannotLoad \/ BackUpUnread \/ CannotBackUp
    \/ \E i \in WholeCopies \cup {0} : Recover(i)
    \/ \E k \in Keys : Update(k)
    \/ SaveWithBackup \/ BackUp \/ Save \/ Finish \/ Leave
    \/ Crash \/ Break

Spec == Init /\ [][Next]_vars

-----------------------------------------------------------------------------
(* Properties. *)

\* A record that was written is in the file or in a copy of it, whatever was
\* refused, cut or recovered since, unless it was broken with the file before it
\* was ever copied (atomic_write_text, load).
KeptSomewhere == \A k \in acked : k \in Copied \/ (Whole(file) /\ k \in file)

\* A run that has loaded knows every record that was written.  A file that is
\* whole but refused for a moment costs none: it is copied, and its copy is the
\* newest.  Of a broken one the newest copy is what there is.
LoadKnows ==
    [][(pc \in {"load", "recover"} /\ pc' = "run" /\ trusted') => acked \subseteq mem']_vars

\* A run that comes to its end leaves its records in the file, or has said that
\* they were not written.
EndsWrittenOrSaid == pc = "off" /\ ended => file = mem \/ unsaved \/ (file = Broken)
=============================================================================
