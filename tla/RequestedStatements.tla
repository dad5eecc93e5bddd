-------------------------- MODULE RequestedStatements --------------------------
(***************************************************************************)
(* Citi's requested statements (citi_docs.py, citi_site.py, issue 103).    *)
(*                                                                         *)
(* Citi lists a card's recent statements, and for a limited time older     *)
(* ones the person asked it for.  The two lists name one month under two   *)
(* keys, so what a run takes is settled between them: a month already      *)
(* saved is not recorded as a requested statement, and a statement Citi no *)
(* longer offers is marked No Longer Listed and put back when it is listed *)
(* again.  Between runs Citi drops months, lists requested ones, and takes *)
(* them down after the day it gives; its requested list may not come.      *)
(*                                                                         *)
(* One card is modelled: the two lists are compared card by card.  A       *)
(* record's state is the one progress.json gives, else discovery.json's.   *)
(* Download again is left out: it asks again only for what is saved.       *)
(***************************************************************************)
EXTENDS Naturals

CONSTANTS
    Months,      \* the months of the card's statements
    Scopes,      \* the months a run may be asked for
    Returns,     \* TRUE: the regular list may take back a month it dropped
    Answers,     \* TRUE: Citi may send a statement it no longer lists
    MaxKills,    \* bound: runs cut short
    MaxChanges   \* bound: changes of Citi's lists, of days and of files

ASSUME StatementsAssumption ==
    /\ Scopes \subseteq SUBSET Months
    /\ Returns \in BOOLEAN /\ Answers \in BOOLEAN
    /\ MaxKills \in Nat /\ MaxChanges \in Nat

Docs == Months \X {"regular", "requested"}
Regular(m) == <<m, "regular">>
Requested(m) == <<m, "requested">>
IsRequested(d) == d[2] = "requested"

\* "aside" is put aside for review, "reviewed" one whose copy has come to pass
\* the check, and "failed" stands for one whose copy is gone, too.
State == {"unknown", "discovered", "unlisted", "failed", "aside", "reviewed", "saved"}

VARIABLES
    onList,   \* what Citi lists now, requested ones being ready
    lapsed,   \* months whose day, as Citi gives it now, has passed
    state,    \* durable: the state of each statement's record
    past,     \* months whose day, as recorded (archived_expires), has passed
    pc,       \* "off", "list", "settle" or "take"
    scope,    \* the months the run was asked for
    answer,   \* how the requested list came: Listing.read, empty, unread
    listed,   \* _regular_listed and _requested_listed
    todo,     \* what the run has still to go through
    kills, changes

vars == <<onList, lapsed, state, past, pc, scope, answer, listed, todo, kills, changes>>

TypeOK ==
    /\ onList \subseteq Docs
    /\ lapsed \subseteq Months
    /\ state \in [Docs -> State]
    /\ past \subseteq {m \in Months : state[Requested(m)] # "unknown"}
    /\ pc \in {"off", "list", "settle", "take"}
    /\ scope \in Scopes
    /\ answer \in {"read", "empty", "unread"}
    /\ listed \subseteq Docs
    /\ todo \subseteq {d \in Docs : state[d] # "unknown"}
    /\ kills \in 0 .. MaxKills
    /\ changes \in 0 .. MaxChanges

Init ==
    /\ onList \in SUBSET {Regular(m) : m \in Months}
    /\ lapsed = {} /\ past = {}
    /\ state = [d \in Docs |-> "unknown"]
    /\ pc = "off"
    /\ scope \in Scopes
    /\ answer = "unread" /\ listed = {} /\ todo = {}
    /\ kills = 0 /\ changes = 0

-----------------------------------------------------------------------------
(* What the records say *)

\* Mutant: a copy put aside for review is not counted.
KeptSavedOnly(d) == state[d] = "saved"

\* _kept: saved, or put aside with a copy that is there and passes the check.
Kept(d) == state[d] \in {"saved", "reviewed"}

\* Mutant: a requested statement is looked for under its own key only.
SavedBeforeSameKey(d) == Kept(d)

\* _saved_months: the same month is saved under the other key.
SavedBefore(d) == \E e \in Docs \ {d} : e[1] = d[1] /\ Kept(e)

-----------------------------------------------------------------------------
(* Listing *)

Start(s, how) ==
    /\ pc = "off"
    /\ scope' = s
    /\ IF how = "resume"
       THEN pc' = "take" /\ todo' = {d \in Docs : state[d] # "unknown" /\ d[1] \in s}
       ELSE pc' = "list" /\ todo' = {}
    /\ listed' = {} /\ answer' = "unread"
    /\ UNCHANGED <<onList, lapsed, state, past, kills, changes>>

\* collect_listing: the regular list, and, from a requested list that came,
\* the ready ones of a month the regular list does not have.
Collected(ans) ==
    {d \in onList : ~IsRequested(d) \/ (ans = "read" /\ Regular(d[1]) \notin onList)}

\* An empty list holds nothing, ready or not.
MayCome(ans) == ans = "empty" => \A m \in Months : Requested(m) \notin onList

\* _record_rawdoc: what of a listing gets a record.
Recorded(L) == {d \in L : d[1] \in scope /\ ~(IsRequested(d) /\ SavedBefore(d))}

\* Mutant: a day is written down for what got no record.
RecordDays(R) ==
    /\ state' = [d \in Docs |-> IF d \in R /\ state[d] = "unknown" THEN "discovered" ELSE state[d]]
    /\ LET M == {m \in Months : Requested(m) \in onList} IN past' = (past \ M) \cup (M \cap lapsed)

\* Records the documents R of a listing, and refreshes what they carry.
Record(R) ==
    /\ state' = [d \in Docs |-> IF d \in R /\ state[d] = "unknown" THEN "discovered" ELSE state[d]]
    /\ LET M == {m \in Months : Requested(m) \in R} IN past' = (past \ M) \cup (M \cap lapsed)

ReadLists(ans) ==
    /\ pc = "list" /\ MayCome(ans)
    /\ Record(Recorded(Collected(ans)))
    /\ listed' = Collected(ans)
    /\ answer' = ans
    /\ pc' = "settle"
    /\ UNCHANGED <<onList, lapsed, scope, todo, kills, changes>>

\* Neither list came in a shape that is read: no statement, and none gone.
ReadNothing ==
    /\ pc = "list"
    /\ listed' = {} /\ answer' = "unread"
    /\ pc' = "settle"
    /\ UNCHANGED <<onList, lapsed, state, past, scope, todo, kills, changes>>

\* Mutant: a requested statement is gone when its list did not come.
GoneUnread(d) ==
    IF IsRequested(d) THEN d[1] \in past \/ d \notin listed
    ELSE d \notin listed /\ Requested(d[1]) \in listed

\* What _settle_requested calls gone.
Gone(d) ==
    IF IsRequested(d) THEN d[1] \in past \/ (answer = "read" /\ d \notin listed)
    ELSE d \notin listed /\ Requested(d[1]) \in listed

Unsettled == {d \in Docs : state[d] # "unknown" /\ ~Kept(d)}
ToMark == {d \in Unsettled : Gone(d) /\ state[d] # "unlisted"}

\* Mutant: what was marked stays marked.
ToPutBackNone == {}

ToPutBack == {d \in Unsettled : ~Gone(d) /\ d \in listed /\ state[d] = "unlisted"}

\* The records once the statements of D are put back.
PutBackIn(D) == [d \in Docs |-> IF d \in D THEN "discovered" ELSE state[d]]

\* One record is marked and written, and with it those put back so far.
Mark(d) ==
    /\ pc = "settle" /\ d \in ToMark
    /\ \E B \in SUBSET ToPutBack : state' = [PutBackIn(B) EXCEPT ![d] = "unlisted"]
    /\ UNCHANGED <<onList, lapsed, past, pc, scope, answer, listed, todo, kills, changes>>

\* All are settled, and what is known of the scope is gone through.
Settled ==
    /\ pc = "settle" /\ ToMark = {}
    /\ state' = PutBackIn(ToPutBack)
    /\ pc' = "take"
    /\ todo' = {d \in Docs : state'[d] # "unknown" /\ d[1] \in scope}
    /\ UNCHANGED <<onList, lapsed, past, scope, answer, listed, kills, changes>>

-----------------------------------------------------------------------------
(* Taking *)

\* process passes over what is kept (_already_done) and what is marked
\* (_unlisted).
PassOver(d) ==
    /\ pc = "take" /\ d \in todo
    /\ Kept(d) \/ state[d] = "unlisted"
    /\ todo' = todo \ {d}
    /\ UNCHANGED <<onList, lapsed, state, past, pc, scope, answer, listed, kills, changes>>

Expired(d) == IsRequested(d) /\ d[1] \in past

\* What came of going through d.
Ends(d, s) ==
    /\ pc = "take" /\ d \in todo
    /\ ~Kept(d) /\ state[d] # "unlisted"
    /\ state' = [state EXCEPT ![d] = s]
    /\ todo' = todo \ {d}
    /\ UNCHANGED <<onList, lapsed, past, pc, scope, answer, listed, kills, changes>>

\* _unlisted: its day has passed since it was listed.
MarkExpired(d) == Expired(d) /\ Ends(d, "unlisted")

FetchSaves(d) ==
    /\ ~Expired(d)
    /\ d \in onList \/ Answers
    /\ Ends(d, "saved")

FetchPutAside(d) ==
    /\ ~Expired(d)
    /\ d \in onList \/ Answers
    /\ Ends(d, "aside")

FetchFails(d) == ~Expired(d) /\ Ends(d, "failed")

Finish ==
    /\ pc = "take" /\ todo = {}
    /\ pc' = "off"
    /\ UNCHANGED <<onList, lapsed, state, past, scope, answer, listed, todo, kills, changes>>

\* A run stops or is killed with part of what it had in hand written.
Cut ==
    /\ kills < MaxKills /\ kills' = kills + 1
    /\ \/ /\ pc = "list"
          /\ \E ans \in {"read", "empty", "unread"} :
                 /\ MayCome(ans)
                 /\ \E R \in SUBSET Recorded(Collected(ans)) : Record(R)
       \/ /\ pc = "settle"
          /\ \E B \in SUBSET ToPutBack : state' = PutBackIn(B)
          /\ UNCHANGED past
       \/ pc = "take" /\ UNCHANGED <<state, past>>
    /\ pc' = "off" /\ todo' = {}
    /\ UNCHANGED <<onList, lapsed, scope, answer, listed, changes>>

-----------------------------------------------------------------------------
(* Citi and the person *)

Change ==
    /\ changes < MaxChanges /\ changes' = changes + 1
    /\ UNCHANGED <<pc, scope, answer, listed, todo, kills>>

\* The regular list grows short of a month as time goes by.
Drop(m) ==
    /\ Change
    /\ Regular(m) \in onList
    /\ onList' = onList \ {Regular(m)}
    /\ UNCHANGED <<lapsed, state, past>>

Return(m) ==
    /\ Change
    /\ Returns /\ Regular(m) \notin onList
    /\ onList' = onList \cup {Regular(m)}
    /\ UNCHANGED <<lapsed, state, past>>

\* The person asks Citi for a month, and it is listed with a new day.
Request(m) ==
    /\ Change
    /\ Requested(m) \notin onList
    /\ onList' = onList \cup {Requested(m)}
    /\ lapsed' = lapsed \ {m}
    /\ UNCHANGED <<state, past>>

TakeDown(m) ==
    /\ Change
    /\ Requested(m) \in onList
    /\ onList' = onList \ {Requested(m)}
    /\ UNCHANGED <<lapsed, state, past>>

\* The day recorded for a requested statement passes, and the one Citi gives
\* now with it, unless that is a later one.
DayPasses(m) ==
    /\ Change
    /\ \/ lapsed' = lapsed \cup {m}
       \/ m \notin past /\ state[Requested(m)] # "unknown" /\ lapsed' = lapsed
    /\ past' = past \cup (IF state[Requested(m)] = "unknown" THEN {} ELSE {m})
    /\ UNCHANGED <<onList, state>>

\* Between runs the person puts a whole file in place of one put aside, or
\* lowers min_pdf_bytes.
ReviewCopyPasses(d) ==
    /\ Change
    /\ pc = "off" /\ state[d] = "aside"
    /\ state' = [state EXCEPT ![d] = "reviewed"]
    /\ UNCHANGED <<onList, lapsed, past>>

\* Between runs the person takes a copy put aside for review.
ReviewCopyGone(d) ==
    /\ Change
    /\ pc = "off" /\ state[d] \in {"aside", "reviewed"}
    /\ state' = [state EXCEPT ![d] = "failed"]
    /\ UNCHANGED <<onList, lapsed, past>>

Pass == \E d \in Docs : PassOver(d) \/ MarkExpired(d)

Next ==
    \/ \E s \in Scopes, how \in {"list", "resume"} : Start(s, how)
    \/ \E ans \in {"read", "empty", "unread"} : ReadLists(ans)
    \/ ReadNothing
    \/ \E d \in Docs : Mark(d)
    \/ Settled
    \/ Pass
    \/ \E d \in Docs : FetchSaves(d) \/ FetchPutAside(d) \/ FetchFails(d)
    \/ Finish
    \/ Cut
    \/ \E m \in Months : Drop(m) \/ Return(m) \/ Request(m) \/ TakeDown(m) \/ DayPasses(m)
    \/ \E d \in Docs : ReviewCopyPasses(d) \/ ReviewCopyGone(d)

Spec == Init /\ [][Next]_vars

\* Started runs go on, whatever each document comes to.  The person lists the
\* whole history again and again, and a list and a document that could come
\* every time they are asked for come in the end.
FairSpec ==
    /\ Spec
    /\ WF_vars(Settled \/ Pass \/ Finish \/ ReadNothing \/ \E d \in Docs : Mark(d) \/ FetchFails(d))
    /\ SF_vars(Start(Months, "list"))
    /\ SF_vars(scope = Months /\ ReadLists("read"))
    /\ \A d \in Docs : SF_vars(FetchSaves(d))

-----------------------------------------------------------------------------
(* Properties *)

\* A copy of the statement is with the person, or put aside for them.
Held(d) == state[d] \in {"saved", "reviewed"}

\* "A month you already have ... is not taken a second time" (README of the
\* Citi app), and the two keys of a month "must never both be taken"
\* (_settle_requested): no month is kept as a regular and a requested one.
OneCopy == \A m \in Months : ~(Held(Regular(m)) /\ Held(Requested(m)))

\* A run that lists never passes over as No Longer Listed what it found
\* listed itself, unless the day recorded for it has passed.
ListedIsTried ==
    [][\A d \in listed : pc = "take" /\ d \in todo \ todo' /\ state'[d] = "unlisted"
            => Expired(d)]_vars

\* No listing, in any order with the other, calls a kept statement No Longer
\* Listed, which would have a Download again pass over it (_kept).
KeptNeverUnlisted == [][\A d \in Docs : Held(d) => state'[d] # "unlisted"]_vars

\* A requested list that did not come, or came empty, takes no statement off:
\* one whose day has not passed is marked only over a list that was read.
UnreadMarksNothing ==
    [][\A m \in Months \ past :
         state[Requested(m)] # "unlisted" /\ state'[Requested(m)] = "unlisted"
            => answer = "read"]_vars

\* A month Citi goes on offering, under either list, is kept in the end,
\* whatever was marked, put back, cut short or failed before.
OfferedIsKept ==
    \A m \in Months :
        <>[](Regular(m) \in onList \/ (Requested(m) \in onList /\ m \notin lapsed))
            => <>(Held(Regular(m)) \/ Held(Requested(m)))
=============================================================================
