------------------------------- MODULE PanelRuns -------------------------------
(***************************************************************************)
(* Runs of the panel (gui/app.py): who may run, and what becomes of a run  *)
(* whose page goes away.                                                   *)
(*                                                                         *)
(* Each request is a stream on the panel's event loop, where code with     *)
(* nothing awaited in it is one step.  A stream claims its account, starts *)
(* the app's process, and awaits, each in a worker thread, its lines, its  *)
(* end, the move of what it saved, and the row it leaves in the run log.   *)
(* Closing the page ends the stream at one of those awaits.  A Rename or a *)
(* Move being applied is then left to finish in a thread of its own, which *)
(* runs beside the loop and gives the account back step by step.  A        *)
(* history import runs in a worker thread, and Remove moves an app's       *)
(* folder away, both only while no run goes.                               *)
(*                                                                         *)
(* A process that is terminated, or killed after five seconds, is gone.    *)
(***************************************************************************)
EXTENDS Naturals

CONSTANTS
    Requests,   \* bound: the runs asked for, each once
    Accounts,   \* (app, account) pairs
    Apps,
    AppOf,      \* the app of each account
    Kinds       \* of "get", "apply" and "names" (see below)

\* "get" is a download run, "apply" a Rename or Move applied
\* (FINISHED_WHEN_LEFT), and "names" a Review Names list (api_review_names).
ASSUME PanelAssumption ==
    /\ AppOf \in [Accounts -> Apps]
    /\ Kinds \subseteq {"get", "apply", "names"}

VARIABLES
    pc,        \* where each request's stream, or the thread after it, is
    acct,      \* the account it is for
    kind,
    proc,      \* its process: "none", "running", "ended" or "cut"
    printed,   \* the process has printed its counts
    counts,    \* the stream has read them (result)
    readAll,   \* the stream has read the output to its end
    mover,     \* the move of what it saved is under way
    page,      \* the page is open
    row,       \* its row in the run log: "none", "code" or "closed"
    rows,      \* how many rows it has left
    lost,      \* the requests whose row could not be written
    claims,    \* _RUNS
    running,   \* _RUNNING
    importing, \* _IMPORTING is held and the import at work
    gone       \* apps whose folder was removed

vars == <<pc, acct, kind, proc, printed, counts, readAll, mover, page, row, rows, lost,
          claims, running, importing, gone>>

PCs == {"off", "reading", "wait", "ended", "moving", "moved", "noting", "noted",
        "names", "finishing", "popping", "asking", "discarding", "done"}

\* Where a request holds its account.
Holding == PCs \ {"off", "asking", "discarding", "done"}

TypeOK ==
    /\ pc \in [Requests -> PCs]
    /\ acct \in [Requests -> Accounts]
    /\ kind \in [Requests -> Kinds]
    /\ proc \in [Requests -> {"none", "running", "ended", "cut"}]
    /\ printed \in [Requests -> BOOLEAN]
    /\ counts \in [Requests -> BOOLEAN]
    /\ readAll \in [Requests -> BOOLEAN]
    /\ mover \in [Requests -> BOOLEAN]
    /\ page \in [Requests -> BOOLEAN]
    /\ row \in [Requests -> {"none", "code", "closed"}]
    /\ rows \in [Requests -> Nat]
    /\ lost \subseteq Requests
    /\ claims \subseteq {acct[r] : r \in {q \in Requests : pc[q] \in Holding}}
    /\ running \subseteq Apps
    /\ importing \in BOOLEAN
    /\ gone \subseteq Apps

Init ==
    /\ pc = [r \in Requests |-> "off"]
    /\ acct \in [Requests -> Accounts]
    /\ kind \in [Requests -> Kinds]
    /\ proc = [r \in Requests |-> "none"]
    /\ printed = [r \in Requests |-> FALSE]
    /\ counts = [r \in Requests |-> FALSE]
    /\ readAll = [r \in Requests |-> FALSE]
    /\ mover = [r \in Requests |-> FALSE]
    /\ page = [r \in Requests |-> TRUE]
    /\ row = [r \in Requests |-> "none"]
    /\ rows = [r \in Requests |-> 0]
    /\ lost = {} /\ claims = {} /\ running = {} /\ importing = FALSE /\ gone = {}

App(r) == AppOf[acct[r]]
Go(r, to) == pc' = [pc EXCEPT ![r] = to]

\* The app has another claim than that of account a.
OtherClaim(a) == \E b \in claims \ {a} : AppOf[b] = AppOf[a]

\* Mutant: a claim is let go only with the app's last.
ReleaseShared(a) ==
    /\ claims' = IF OtherClaim(a) THEN claims ELSE claims \ {a}
    /\ running' = IF OtherClaim(a) THEN running ELSE running \ {AppOf[a]}

\* Mutant: the app is given back though another person's run still goes.
ReleaseApp(a) == claims' = claims \ {a} /\ running' = running \ {AppOf[a]}

\* Takes the claim of account a back, and the app's when it was the last.
Release(a) ==
    /\ claims' = claims \ {a}
    /\ running' = IF OtherClaim(a) THEN running ELSE running \ {AppOf[a]}

\* note: a row first in the account's run log, or none where its folder is not
\* known, cannot be written or is held ("best effort").
Note(r, how) ==
    \/ /\ row' = [row EXCEPT ![r] = how]
       /\ rows' = [rows EXCEPT ![r] = rows[r] + 1]
       /\ UNCHANGED lost
    \/ /\ lost' = lost \cup {r}
       /\ UNCHANGED <<row, rows>>

-----------------------------------------------------------------------------
(* A run's stream *)

\* Mutant: the account's claim is not asked for.
MayClaimAlways(r) == ~importing

\* Mutant: a run does not ask whether an import holds it off.
MayClaimImporting(r) == acct[r] \notin claims

\* Asked with nothing awaited before the claim.
MayClaim(r) == ~importing /\ acct[r] \notin claims

Claim(r) ==
    /\ pc[r] = "off" /\ App(r) \notin gone
    /\ MayClaim(r)
    /\ claims' = claims \cup {acct[r]}
    /\ running' = running \cup {App(r)}
    /\ proc' = [proc EXCEPT ![r] = "running"]
    /\ Go(r, IF kind[r] = "names" THEN "names" ELSE "reading")
    /\ UNCHANGED <<acct, kind, printed, counts, readAll, mover, page, row, rows,
                   lost, importing, gone>>

\* Refused, or its process would not start and its claim was taken back.
Refuse(r) ==
    /\ pc[r] = "off"
    /\ Go(r, "done")
    /\ IF MayClaim(r) THEN Release(acct[r]) ELSE UNCHANGED <<claims, running>>
    /\ UNCHANGED <<acct, kind, proc, printed, counts, readAll, mover, page, row, rows,
                   lost, importing, gone>>

ReadCounts(r) ==
    /\ pc[r] = "reading"
    /\ printed[r] /\ ~counts[r]
    /\ counts' = [counts EXCEPT ![r] = TRUE]
    /\ UNCHANGED <<pc, acct, kind, proc, printed, readAll, mover, page, row, rows, lost,
                   claims, running, importing, gone>>

ReadEnd(r) ==
    /\ pc[r] = "reading"
    /\ proc[r] = "ended" /\ counts[r] = printed[r]
    /\ readAll' = [readAll EXCEPT ![r] = TRUE]
    /\ Go(r, "wait")
    /\ UNCHANGED <<acct, kind, proc, printed, counts, mover, page, row, rows, lost,
                   claims, running, importing, gone>>

WaitForEnd(r) ==
    /\ pc[r] = "wait"
    /\ proc[r] = "ended"
    /\ Go(r, "ended")
    /\ UNCHANGED <<acct, kind, proc, printed, counts, readAll, mover, page, row, rows, lost,
                   claims, running, importing, gone>>

\* _move_new_documents starts the app's Rename for what a download run saved,
\* when the account has a documents folder.
StartMove(r) ==
    /\ pc[r] = "ended" /\ kind[r] = "get"
    /\ mover' = [mover EXCEPT ![r] = TRUE]
    /\ Go(r, "moving")
    /\ UNCHANGED <<acct, kind, proc, printed, counts, readAll, page, row, rows, lost,
                   claims, running, importing, gone>>

NoMove(r) ==
    /\ pc[r] = "ended"
    /\ Go(r, "moved")
    /\ UNCHANGED <<acct, kind, proc, printed, counts, readAll, mover, page, row, rows, lost,
                   claims, running, importing, gone>>

\* The move's process ends, and with it the worker thread the stream awaits.
MoveEnds(r) ==
    /\ pc[r] = "moving"
    /\ mover' = [mover EXCEPT ![r] = FALSE]
    /\ Go(r, "moved")
    /\ UNCHANGED <<acct, kind, proc, printed, counts, readAll, page, row, rows, lost,
                   claims, running, importing, gone>>

\* Marked as noted, then noted in a worker thread.
MarkNoted(r) ==
    /\ pc[r] = "moved"
    /\ Go(r, "noting")
    /\ UNCHANGED <<acct, kind, proc, printed, counts, readAll, mover, page, row, rows, lost,
                   claims, running, importing, gone>>

NoteCode(r) ==
    /\ pc[r] = "noting"
    /\ Note(r, "code")
    /\ Go(r, "noted")
    /\ UNCHANGED <<acct, kind, proc, printed, counts, readAll, mover, page,
                   claims, running, importing, gone>>

\* The stream is over, its page there or not.
Close(r) ==
    /\ pc[r] = "noted"
    /\ Release(acct[r])
    /\ Go(r, "done")
    /\ UNCHANGED <<acct, kind, proc, printed, counts, readAll, mover, page, row, rows,
                   lost, importing, gone>>

-----------------------------------------------------------------------------
(* A page that goes away *)

PageGoes(r) ==
    /\ page[r] /\ pc[r] \notin {"off", "done", "names"}
    /\ page' = [page EXCEPT ![r] = FALSE]
    /\ UNCHANGED <<pc, acct, kind, proc, printed, counts, readAll, mover, row, rows, lost,
                   claims, running, importing, gone>>

\* Mutant: a run that ended is noted with its code, its counts unread.
EndedUnread(r) == proc[r] = "ended"

\* The run had ended by itself, and nothing it said is unread.
Ended(r) == proc[r] = "ended" /\ (readAll[r] \/ counts[r])

\* Mutant: a run is marked as noted only after it is.
LeavableNoted(r) == ~page[r] /\ pc[r] \in {"reading", "wait", "ended", "moved", "noted"}

\* Where a stream can be left: between two awaits, the thread of one done.
Leavable(r) == ~page[r] /\ pc[r] \in {"reading", "wait", "ended", "moved"}

\* Mutant: every process is stopped when its page goes.
FinishesLeftNone(r) == FALSE

FinishesLeft(r) == kind[r] = "apply" /\ proc[r] = "running"

\* The stream's finally, with nothing awaited in it: the run is noted, the
\* claim let go and the process stopped, or, applying a Rename or a Move, it
\* is left to a thread, its account claimed.
LeaveToThread(r) ==
    /\ Leavable(r) /\ FinishesLeft(r)
    /\ Go(r, "finishing")
    /\ UNCHANGED <<acct, kind, proc, printed, counts, readAll, mover, page, row, rows, lost,
                   claims, running, importing, gone>>

LeaveStopped(r) ==
    /\ Leavable(r) /\ ~FinishesLeft(r)
    /\ Note(r, IF Ended(r) THEN "code" ELSE "closed")
    /\ Release(acct[r])
    /\ proc' = [proc EXCEPT ![r] = IF @ = "running" THEN "cut" ELSE @]
    /\ Go(r, "done")
    /\ UNCHANGED <<acct, kind, printed, counts, readAll, mover, page, importing, gone>>

\* finish: the thread drops what the process says, then notes its code.
FinishReading(r) ==
    /\ pc[r] = "finishing"
    /\ proc[r] = "ended"
    /\ Note(r, "code")
    /\ Go(r, "popping")
    /\ UNCHANGED <<acct, kind, proc, printed, counts, readAll, mover, page,
                   claims, running, importing, gone>>

FinishPop(r) ==
    /\ pc[r] = "popping"
    /\ claims' = claims \ {acct[r]}
    /\ Go(r, "asking")
    /\ UNCHANGED <<acct, kind, proc, printed, counts, readAll, mover, page, row, rows, lost,
                   running, importing, gone>>

\* The thread asks whether the app has another claim, and only then acts on it.
FinishAsk(r) ==
    /\ pc[r] = "asking"
    /\ Go(r, IF \E b \in claims : AppOf[b] = App(r) THEN "done" ELSE "discarding")
    /\ UNCHANGED <<acct, kind, proc, printed, counts, readAll, mover, page, row, rows, lost,
                   claims, running, importing, gone>>

FinishDiscard(r) ==
    /\ pc[r] = "discarding"
    /\ running' = running \ {App(r)}
    /\ Go(r, "done")
    /\ UNCHANGED <<acct, kind, proc, printed, counts, readAll, mover, page, row, rows, lost,
                   claims, importing, gone>>

-----------------------------------------------------------------------------
(* Review Names' list, processes, an import and Remove *)

\* The list's process has ended, or was killed after its time.
NamesListed(r) ==
    /\ pc[r] = "names"
    /\ proc[r] = "ended"
    /\ Release(acct[r])
    /\ Go(r, "done")
    /\ UNCHANGED <<acct, kind, proc, printed, counts, readAll, mover, page, row, rows,
                   lost, importing, gone>>

ProcPrints(r) ==
    /\ proc[r] = "running" /\ ~printed[r] /\ kind[r] # "names"
    /\ printed' = [printed EXCEPT ![r] = TRUE]
    /\ UNCHANGED <<pc, acct, kind, proc, counts, readAll, mover, page, row, rows, lost,
                   claims, running, importing, gone>>

ProcEnds(r) ==
    /\ proc[r] = "running"
    /\ proc' = [proc EXCEPT ![r] = "ended"]
    /\ UNCHANGED <<pc, acct, kind, printed, counts, readAll, mover, page, row, rows, lost,
                   claims, running, importing, gone>>

\* api_history_import takes its lock and asks the runs with nothing awaited.
MayImport == ~importing /\ running = {}

ImportBegins ==
    /\ MayImport
    /\ importing' = TRUE
    /\ UNCHANGED <<pc, acct, kind, proc, printed, counts, readAll, mover, page, row, rows, lost,
                   claims, running, gone>>

ImportEnds ==
    /\ importing
    /\ importing' = FALSE
    /\ UNCHANGED <<pc, acct, kind, proc, printed, counts, readAll, mover, page, row, rows, lost,
                   claims, running, gone>>

\* api_remove moves the app's folder out of the list.
Remove(a) ==
    /\ a \notin running \cup gone
    /\ gone' = gone \cup {a}
    /\ UNCHANGED <<pc, acct, kind, proc, printed, counts, readAll, mover, page, row, rows, lost,
                   claims, running, importing>>

Runs(r) ==
    \/ ReadCounts(r) \/ ReadEnd(r) \/ WaitForEnd(r)
    \/ NoMove(r) \/ MoveEnds(r) \/ MarkNoted(r) \/ NoteCode(r) \/ Close(r)
    \/ LeaveToThread(r) \/ LeaveStopped(r)
    \/ FinishReading(r) \/ FinishPop(r) \/ FinishAsk(r) \/ FinishDiscard(r)
    \/ NamesListed(r) \/ ProcEnds(r)

Next ==
    \/ \E r \in Requests :
           \/ Claim(r) \/ Refuse(r) \/ Runs(r)
           \/ StartMove(r) \/ PageGoes(r) \/ ProcPrints(r)
    \/ ImportBegins \/ ImportEnds
    \/ \E a \in Apps : Remove(a)

Spec == Init /\ [][Next]_vars

\* Each stream and thread that can go on does, and processes end.
FairSpec == Spec /\ WF_vars(ImportEnds) /\ \A r \in Requests : WF_vars(Runs(r))

-----------------------------------------------------------------------------
(* Properties *)

\* A process of the app is at work for the request.
AtWork(r) == proc[r] = "running" \/ mover[r]

\* "One run per account": never two processes on one progress.json, whatever
\* pages open and close, a left Rename and the move after a run counted in.
OneRunEach ==
    \A r, s \in Requests : r # s /\ acct[r] = acct[s] => ~(AtWork(r) /\ AtWork(s))

\* "A run asks whether an import holds it just before it counts itself
\* running, so the two never overlap" (api_history_import).
ImportAlone == importing => \A r \in Requests : ~AtWork(r)

\* An app's folder is never moved away while a process works in it, and no
\* later run starts there ("would pull the folder out from under a run").
FolderStays == \A r \in Requests : AtWork(r) => App(r) \notin gone

\* A run that started is noted once, however it ended: it has one row in the run
\* log, or none where the log could not be written, and none before its end.
OneRowEach ==
    \A r \in Requests :
        rows[r] + (IF r \in lost THEN 1 ELSE 0) =
            IF /\ kind[r] # "names" /\ proc[r] # "none"
               /\ pc[r] \in {"noted", "popping", "asking", "discarding", "done"}
            THEN 1 ELSE 0

\* "A code of 0 with the counts line still unread could hide a run that
\* stopped": a download run's row has a code only with its counts read.
CodeSaysHow ==
    \A r \in Requests : kind[r] = "get" /\ row[r] = "code" => counts[r] = printed[r]

\* A Rename or Move being applied, or the move after a run, is never cut short
\* by its page going away ("stopped partway it would leave files the index no
\* longer names").
MoveNeverCut ==
    [][\A r \in Requests :
         /\ kind[r] = "apply" => ~(proc[r] = "running" /\ proc'[r] = "cut")
         /\ mover[r] => acct[r] \in claims']_vars

\* Nothing stays claimed: an account, and its app, are given back.
GivenBack ==
    /\ \A a \in Accounts : a \in claims ~> a \notin claims
    /\ \A p \in Apps : p \in running ~> p \notin running
=============================================================================
