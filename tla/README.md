# PaperPull in TLA+

PaperPull downloads statements and receipts from the accounts a person has with
banks, shops and utilities. This directory holds TLA+ models of the parts of it
whose correctness rests on the order things happen in, the runs of TLC that check
them on small instances, and proofs, checked by TLAPS, of what matters most for
every instance. Source paths are relative to the repository's root.

## The system

| Part | State it keeps | Operations | Interacts with |
|------|----------------|------------|----------------|
| Document run: `apps/<provider>/*_docs.py`, `*_receipts.py` (about eighty of one shape; `apps/citi` is the reference) | `progress.json` (a record per document, with `downloaded_ok`), `discovery.json` (what was listed), the index CSV, the files | Discover, Pilot, Run All, Resume, Download again, Verify, Rename | its site module, the stores, listing notes |
| Site modules: `apps/<provider>/*_site.py` | none | list documents, download one | the provider's pages |
| Listing notes: `core/paperpull_core/listing.py` | `last-listing.json`, an older mark file | `started`, `read_whole`, `resume`, `read_again_first` | document runs, the panel's Continue |
| Requested statements: `citi_docs.py`, `citi_site.py` | records under a second key for one month | record, settle, mark No Longer Listed, put back | both lists of a card |
| Stores: `storage.py` | JSON and CSV files, `Backups` | load, save, update, append, rewrite, `unique_path` | everything that persists |
| Saved copies: `saved_copy.py` | what this run saved | `holding`, `holds` | document runs, Download again |
| Delivery: `delivery.py`, `capture.py`, `intake.py`, `identity.py` | staged files | race of mechanisms, check, move into place | site modules |
| Rename: `renaming.py`, `naming.py` | files, ledgers | plan, apply (chains and rings), write ledgers, `put_back` | all three ledgers |
| Control panel: `gui/app.py` | `_RUNS`, `_RUNNING`, `_IMPORTING`, the run log | run, stream, stop, move what was saved, import history, remove | one process per run |
| Server: `gui/server_mode.py`, `server/` | sessions, waits, hashing | sign in, Browser Screen, plug-ins | the panel |
| Tools: `tools/`, `packaging/`, `paperpull.py` | none of a run's | export, import of history, status | the stores |

Hard behaviour: a run can be stopped or killed between any two of its writes; a
spreadsheet, a scanner or a sync client may hold a file a run has to write; the
session may end in the middle of a document; a person deletes or mends files when
they like; a provider's list comes in part, changes and forgets; pages of the panel
close in the middle of runs, whose end is then left to an event loop, worker threads
and a thread of its own.

What makes each part correct:

- *document run*: what `progress.json` calls saved was saved whole; no file is
  replaced; nothing saved is asked for twice unless the person wants it; a document
  listed is saved in the end; the index never says more than `progress.json`;
- *listing notes*: Resume calls an install finished only over a list that was read;
  the word on the whole list outlives scoped runs; nobody goes round in circles;
- *requested statements*: one copy of a month; a list that was not read proves
  nothing gone; what is kept is not called gone; what is offered is kept in the end;
- *panel*: one process per account; an import and Remove never beside a run; a move
  of files is not cut; each run is noted once, as it ended, where its log can be written
  (a run is never failed for its log); claims end;
- *stores*: a record written is not lost by a crash, a held file or a broken one;
- *delivery*: a document takes its place only after its check, and never that of
  another it can be told from; *rename*: no file is lost, the ledgers name each where
  it is, and what they cannot name is said;
- *server*: a session ends when it should; waits and hashing stay within bounds.

`PROJECT.json` lists the hazards at their lines, and which property covers each.

## Modules

| Module | Models | Proofs |
|--------|--------|--------|
| `Archive` | abstract: what an account's folder promises | |
| `DocumentRun` | one account's folder and the runs that fill it | `DocumentRun_proofs`, `DocumentRun_archive` |
| `Listing` | the note of whether the provider's list was read | `Listing_proofs` |
| `RequestedStatements` | the two lists of a Citi card and what runs make of them | `RequestedStatements_proofs` |
| `PanelRuns` | runs of the panel, pages that close, import and Remove | `PanelRuns_proofs` |
| `Rename` | one Rename, its ledgers and putting back | `Rename_proofs` |
| `RunState` | one `JsonStore`: loads, Backups, writes, the save on the way out | `RunState_proofs` |
| `Delivery` | captures: press, listeners, download folder, check, place | `Delivery_proofs` |

`MC<module>` gives a module's constants their values for TLC. Definitions under
"Mutant:" comments are wrong variants of the definition they stand before; each
property has one that breaks it, so that it is known to depend on the code modelled.

### DocumentRun

The durable state is kept as three variables because the code writes it in three
steps: `files`, `disk` (`progress.json`) and `index`. `mem` is the run's copy of the
records (`JsonStore.data`), `known` the keys of `discovery.json`. A run is `Start`,
`List` (`cmd_discover`, `_select`), then per document `Skip` (`_already_done`) or
`Take` (`unique_path`), `FetchSaves`, `FetchSavesNothing`, `FetchRaises` or
`SignedOut`, `RecordPlaced` (State.PDF_SAVED), `Complete` or `PutAside` and
`RecordReview`, `WriteRow`, and `Finish`. `Leave` is every way into `main`'s finally,
`SaveAndExit` the save there, which a held file makes fail quietly; `Crash` is a
killed process. `Write` fails when the file stays held for its minute. `Delete` and
`Mend` are the person's.

`loose` and `kept` are history variables: files that no ended attempt has told the
records of, and files that passed the check and still stand. Left out: ZIP
downloads, the states only other apps write, notes, statistics and failure files. A
copy moved to Manual Review keeps its base name.

Runs: `DocumentRun` has two documents of one base name, a fault, a Download again and
two edits, the least with which one document can be given the freed name of another
and a Download again can fail. `DocumentRunOne` has one document and two faults and
checks `EventuallySaved`. Its fairness: a run goes on whenever it can; the person
presses Resume again and again (strong, since runs end and begin); and the provider
does not refuse one document for ever. Verify is no step: it writes only "Verified At".

`Archive` says what all of this is for, in the words of a shelf of copies, a catalogue
and an index: a copy stays until the person takes it, a document is in the catalogue
once a copy of it was shelved and leaves it only when nothing stands there any more,
the index lists what the catalogue held. `KeepsArchive` is that specification under the
mapping of DocumentRun's last part: `Shelf` is the copies that passed the check and
still stand (`kept`), `Entry` the records on disk that call a document saved, `Pending`
those only memory has, `Rows` the index's rows that say Completed. The run `DocumentRun`
checks it, and it is proved.

### Listing

`note` is `last-listing.json`, with the word on the whole list that a scoped listing
keeps (`_before`). `NoteStarted`, `ReadWhole`, `ResumeDocuments`, `ResumeReceipts`,
`Outcome` and `ReadAgainStopped` are the functions of `listing.py`; the run around
them is that of `cmd_discover` and `cmd_resume`. A write of the note may be refused,
the list may come in part, and a run may stop anywhere, at most `MaxFaults` times.
`receipts` says which of the two kinds of app it is. The provider's list only grows
here; what shrinking does is in RequestedStatements.

Run `Listing`: two things listed, one inside the scope; three faults, so that a
listing of the whole, a scoped one and a second can each stop once. Fairness: runs go
on, and the person presses what the panel offers, Get new documents and Resume.

### RequestedStatements

`Docs` is every month's regular and requested statement. `ReadLists` records what was
listed (`_record_rawdoc`, with `SavedBefore` for a requested one), `Mark` and `Settled`
are `_settle_requested`, `PassOver` and `MarkExpired` are `_unlisted`, `FetchSaves`,
`FetchPutAside` and `FetchFails` the document's end. Citi's side is `Drop`, `Return`,
`Request`, `TakeDown` and `DayPasses`. Two constants say what Citi may do: `Returns`
(a month dropped comes back on the regular list) and `Answers` (it sends what it no
longer lists). One card; the floor of a scope only; Download again is DocumentRun's.

Runs: `TwoMonths`, without returns and cuts, checks that a month is kept once and
that a list that did not come proves nothing; `OneMonth`, with returns and two cuts,
checks that what is listed again is tried again and that what stays on offer is kept.
Fairness: runs go on, the person runs over all months again and again with a list
that can be read, and Citi sends what it offers.

### PanelRuns

A request's stream (`_start_run`) is a process whose steps lie between its awaits, since
code on the event loop with nothing awaited is one step. `Claim` checks and claims;
`ReadCounts`, `ReadEnd` and `WaitForEnd` follow the process; `StartMove` and `MoveEnds`
are `_move_new_documents`; `MarkNoted`, `NoteCode` and `Close` end it. `PageGoes` and
then `LeaveStopped` or `LeaveToThread` are the finally. A worker thread awaited goes on
when the page goes (anyio shields it), so a stream is left between two awaits only.
The thread of a left Rename (`finish`) is off the event loop, so `FinishReading`,
`FinishPop`, `FinishAsk` and `FinishDiscard` are four steps that others interleave.
`NamesListed` ends a Review Names list. The processes, the page, imports and `Remove`
are the environment. A process terminated is gone at once. The run log is best effort
(`_note_run`): `Note` writes a row or, where the folder is gone or cannot be written,
none, and `lost` remembers of which run, so that `OneRowEach` says of each run that it
was noted once, never twice and never passed over, and not that its row is there.

Runs: `PanelRuns`, with three requests, two people of one app and no Rename to be left,
checks `ImportAlone` and `FolderStays`; with three requests one can be held while two
others start and end. `PanelLeft` has every kind of run and two requests, and checks
the rest; it says `CHECK_DEADLOCK FALSE` since the panel idles once the runs asked for
are over. Fairness: streams and threads go on, processes end, imports end.

### Rename

`at` is where each file is, `index` and `records` the two ledgers of a document app,
`mem` `JsonStore.data`. `Check` is `apply`'s look at what holds each new name; then
`RenameOne` takes a change no other stands in the way of and `RingAside`, `RingStep`,
`RingReturn` and `RingHome` move a ring, its first by way of a temporary name.
`WriteIndex` and `WriteRecords` follow, and when one fails `Undo` puts both back to
what they were and `BackOne`, `BackAside`, `BackStep` and `BackLast` are `put_back`.
`Leave` is the save on the way out, `Cut` a killed run, `StrangerComes` another
program's file. Looking whether a name is free and renaming to it are one step here, and
a move to another drive, which copies and then removes, counts as a rename that
happens whole. What names are, spellings, invoices and order history, folders and
their clean-up, and the Rename that follows a cut one, are left out.

Run `Rename`: three documents, one free name, two temporary ones and a stranger, with
any plan: a chain, a swap beside a third, a ring of three. Four faults, the least with
which a ring stops, cannot return, a ledger is held and putting back fails as well.
`LedgersAgree` is asked of a Rename that ended; files that could not be put back are
exempt, as their row and record are home and the run tells the person
where they are (`SaidIsTrue`). `NoOtherFile` and `AsPreviewed` are asked where no
stranger came.

### RunState

One file of records, its Backups in the order of their times, and a run's memory.
`Load`, `CannotLoad`, `BackUpUnread`, `CannotBackUp` and `Recover` are `JsonStore.load`;
`Update`, `SaveWithBackup`, `BackUp`, `Save`, `Finish` and `Leave` the writes of a run;
`Crash` kills it anywhere and `Break` breaks the file between runs. `acked` is the
records that were written and that no `Break` took before a copy was made. `LoadKnows`
is asked while `trusted`: a load refused both the file and its newest copy starts from
an older one, which the code accepts. A file that is not even text stops the run
before it begins. The save of `App.__init__` counts as one of the run; a CSV row cut
short is not modelled.

Run `RunState`: three records, three refusals, two breaks, four copies, so that
a broken file is recovered, written, broken and recovered once more, and a refused load
copies a file a later load finds refused as well.

### Delivery

A capture is numbered by its press. `Deliver` clears what is staged, arms and presses;
`Arrives`, `FileBegins` and `FileFinished` are what a press brings, at any later time
and to any capture; `Read` is one turn of `_read_race`, in any order of the ways, as
hints change it; `ListFolder` and `TakeFromFolder` are `take_new_pdf`, whose question
about earlier files comes after its list; `GiveUp` ends a capture that read nothing.
`Place` and `Render` are `place` and `render`; `Finish` is `_finish`; `Cut` kills the
run. `Marks`, `Prints` and `Rivals` are what `identity.py` compares: `Refuses` is
`distinguish`, and `verify` where there is no rival. Limits of time and size, asking an
address first, and `strict` turned off are left out; answers read in flight and in a
tab are one kind.

The folder is kept by the names of its files, since `earlier_finished` compares names
and the browser uses a site's own name again: under each name is the press whose file
arrives (`.crdownload`) and the press whose file is finished, which the next of that
name writes over. `Clear` is `_clear`, which goes on when somebody holds the file, and
a file may be held when it is to be cleared, moved, read or written: what an earlier
capture staged is then still there, and so may be a part of a file. `staged` says what
is there and which capture put it there. Two history variables, that no guard reads,
say where the code does not keep what is promised: `uncleared` a page being drawn over
a staged file that could not be removed, `unchecked` the documents that were put in
place with their text not read, as a check that raises or takes too long refuses
nothing.

Run `Delivery`: two captures, so that the second may hear what the first pressed for or
find what it staged, and two faults, so that a cut or a partial write leaves a file and
another holds it; two names, under which the second capture's file may arrive as the
first's did; two rows, of which one's text prints the other's day. `RightOrNotTold`
promises what the check can: a document in the place of another only if it prints
nothing that tells them apart, or could not be read. `FolderTellsWhose` and `StagedNow`
promise what holds of the code: TLC refutes both without their last condition (below).

## Findings

Each is a run that TLC refutes; the trace is the run's result.

- `ImportOverlaps` (code): the thread of a left Rename asks whether the app has another
  claim and discards the app from `_RUNNING` afterwards. A run claimed in between is
  not in `_RUNNING` any more, and an import starts beside it (`gui/app.py:3813`). Where
  no run is left to finish by itself, `ImportAlone` is proved.
- `MonthTwice` (README): a month saved as a requested statement that returns to the
  regular list is taken a second time (`apps/citi/citi_docs.py:415`, `:500`).

What the models also show, which no run is kept for:

- a Rename left to finish is noted with its code, its counts unread, which the comment
  at `gui/app.py:3823` says could hide a run that stopped (`gui/app.py:3808`); hence
  `CodeSaysHow` speaks of downloads only;
- a write of the capture that fails part way leaves a part at the document's name, past
  the check that is to leave nothing (`apps/citi/citi_site.py:659`); the record is not
  "saved" by it (`VouchedCopy`);
- a row that could not be appended after its record was written is never appended
  (`apps/citi/citi_docs.py:811`), though Archive asks only that rows are true;
- what is told of files that could not be put back is in the order they are to be put
  back by hand (`core/paperpull_core/renaming.py:849`); after a ring whose index write
  was refused, that order may find a name still taken;
- an earlier capture's download is known to have finished by its name alone
  (`core/paperpull_core/capture.py:233`), and names are used again: when a second one of
  its name is arriving by then, the first counts as unfinished, and its file is taken as
  this capture's, though the comment of `take_new_pdf` says nothing is taken then. The
  check against rows still stands between it and a place, where texts can be told apart;
- a staged file that is held when `render` clears it (`core/paperpull_core/delivery.py:378`)
  and a page that then draws nothing, without raising, are taken for a page that drew
  (`:593`): what an earlier capture left, even the part `place` leaves when its write is
  refused (`:546`), goes through the check into place.

## What is proved

Proofs hold for any documents, names, months, requests, accounts, apps and bounds,
from the assumptions named in the modules: the types of the constants, that a delivery
tells documents apart by finitely many facts and its documents from what is none, and that an index has finitely many rows
with a name each.

*DocumentRun.* `IInv` joins the types with `AttemptInv` (the attempt under way has its
path and its own copy), `PlaceInv` (a path being saved to was free, a kept file is
whole and no attempt that may fail holds it), `SavedInv` (memory and disk differ only
by a failed write, and never about a document this run has not saved) and `VouchedBy`
of both. `VouchedCopy` alone is not inductive: it needs to know that the path a record
is about to name holds this document's whole copy. From `IInv` follow `TypeCorrect`,
`RecordsVouch`, `NoFileReplaced`, `SavedStaysSaved`, `NoSecondDownload` and
`RecordBeforeRow` (a row is added only of a record already on disk).

*Archive.* `ArchiveKept`: every behaviour of DocumentRun is one of Archive. `ArchiveInv`,
on top of `IInv`, says that what a run works on was listed, and that while the row of a
document that passed is still to be written memory has it saved at the path the row will
name; each action of DocumentRun is then one of Archive's or a stutter.

*Listing.* `WordInv` says that what the note gives for the whole list is the last word
said of it, `OwedInv` that this word is "stopped" while anything the last reading of
the whole list set out to read is unknown. From them `NoteKeepsWord` and `CleanResume`.

*RequestedStatements.* `Apart` says that once a requested statement has a record, the
regular one of its month is off the list, not held and never asked for again.
`MonthKeptOnce` assumes `ListsOnce` (no month comes back, no run is cut between
recording a listing and settling it); without it TLC finds a month kept twice.
The others need no such assumption. `MarkedBy` says that nothing but settling a listing
and a day that passed marks a statement, from which `KeptStays` and `UnreadTakesNoneOff`
follow; `ListedNotPassedOver` needs `ListedToTake` as well, that what a run listed and
has still to take is not marked, which is so because settling put it back.

*PanelRuns.* A request holds its account from claim to release and alone (`Held`,
`OneHolder`); processes are at work only in some stages (`Stage`); what was read and whether
a run was noted follow from the stage (`Read`, `Rows`). From them `OneRunPerAccount`,
`RowPerRun`, `CodeIsRead` and `LeftMoveGoesOn`. `ImportRunsAlone` and `FolderNotRemoved`
assume `"apply" \notin Kinds`, the case without the race of `ImportOverlaps`, and rest on
`Alone`: `_RUNNING` is exactly the apps of `_RUNS`.

*RunState.* A store is safe to overwrite when memory has what the file has: `AckedInv`
says that while a run may write, what was ever written is in memory or in a copy, and
in a copy alone once the file was given up. `KnowInv` says that of loads not refused too
much the file, or when it is broken its newest copy, has all that was written; that a
copy made of a whole file is the newest whole one (`CopyMade`) carries it through a
recovery. From them `WrittenIsKept`, `LoadKnowsWritten` and `EndIsSaid`.

*Delivery.* `ToldIsRefused` shows, of any rows and texts, that `distinguish` refuses what
can be told apart, which gives `RightInPlace`. `StagedInv` says that what is checked was
staged by the capture under way, whatever was held, but for a page that drew nothing
over what could not be removed (`StagedByItself`). `ComesOnce` says that a press's file
arrives once, under one name, and finishes under it, and `NotAgain` that what had
finished when the capture began comes no more; so a file that is listed is a new one,
and when it was on its way before, its name is on its way again (`EarlierNotTaken`).
Whether a document is refused as another's
depends on what documents print: `OwnTaken` assumes that each prints what its row says
(`PrintsItsRow`) and that no rival's row says more of its own (`RowsAlike`), as the
rows of the run do, and nothing about what else it prints.

*Rename.* The proof is by where the files are. `Core` gives every file's place at every
point: `PlacedForward` until a ledger cannot be written (home, or where `mapping` or
`stranded` say, or under the new name while its ring moves), `PlacedBack` while it is
put back. Neither is inductive without the order of the moves. A name is wanted by one
change and held by one file, so `holds` is one-to-one (`HoldsOne`); a ring, the least set
with a file that `holds` maps into itself, is then mapped onto itself (`ClosedIsOnto`),
two rings that meet are one (`RingsApart`), and while some but not all of a ring have
moved there is another whose name is free (`RingTurn`), so that the `CHOOSE` of `NextOf`
finds a file. `RingInOrder` shows that the sequence `RingFrom` chooses exists: of the
walks round a ring the longest is all of it. On `Core` rest

- `OneFileGoes`: a step moves one file at most, and to a free name. From it
  `NeverOverwritten`;
- `LedgersSoFar`: what memory and the index say at each point, and that at the end both
  are `Told`. From it `LedgersFollow`, and `SaysWhereItIs` from `StuckThere`;
- `AsideFree`: the name a file left aside had stays free while no stranger comes, as
  every change that wants it was tried. From it `NoneForAnother`;
- `Smooth`: with nothing refused, what was tried has moved, since every new name is free
  when its turn comes (`NewNameFree`). From it `PreviewKept`;
- `NamesKnown`: files and ledgers have only names of theirs. From it `CutLosesNone`,
  which is about every state, those in which a run was cut included;
- `HoldsHome` and `BackSmooth`: every old name is free when its turn to be taken again
  comes (`OldNameFree`). From them `UndoneWhole`.

Only model-checked: liveness (`EventuallySaved`, `EventuallyClean`, `OfferedIsKept`,
`GivenBack`), which needs fairness and ENABLED, out of TLAPS's reach. Every other
property of the runs is a theorem, four of them under the conditions named above.

## Plan

Done: `DocumentRun`, `Listing`, `RequestedStatements`, `PanelRuns`, `RunState`,
`Delivery` and `Rename` with their proofs; `Archive`, with the proof that DocumentRun
implements it. To come, in the order of what matters most:

1. The panel as an abstract lock: that `PanelRuns` without a left Rename implements a
   specification in which an account is one run's, an import's or nobody's.
2. `RunState` as the store `DocumentRun` takes for granted: what it reads when a run
   begins is what was written last, or nothing was lost that a copy does not have.
3. A Rename after one that was cut: where `CutLosesNone` leaves the files is where the
   next one has to find them.

## Not modelled

What providers' pages do, and what only drives a browser (`browser`, `ready`,
`pressing`, `tabs`, `controls`): outside the repository or pure I/O. Diagnostics
(`journal`, `recorder`, `failure`) decide nothing. Text (names, dates, categories,
redaction) is abstracted to what the properties tell apart. Packaging, the container
image and developer tools change no state of a run. The provider apps but the
reference one follow its shape; what their site modules do with their own pages has no
state that outlives a document.

State that a further model could hold: what an import of history folds into
`progress.json`, and Remove beside it; `refresh_installs` beside runs; the server's
sessions and sign-ins; configs that share a debugging port; the moving of old keys.
`PROJECT.json` gives every component's status and says which hazards no property covers.
