---------------------------- MODULE Listing_proofs ----------------------------
(***************************************************************************)
(* Proofs about Listing, for any list, any scopes and either kind of app.  *)
(***************************************************************************)
EXTENDS Listing, TLAPS

\* The note keeps the last word on the whole list through a scoped listing,
\* and that word is "stopped" while something the whole list held is unknown.
WordInv ==
    /\ WordKept
    /\ allSaid = "none" => ~oldMark
    /\ pc \in {"listing", "saved"} /\ scoped /\ before # "unstarted" => before = allSaid

OwedInv ==
    /\ ~scoped => part = Items
    /\ pc \in {"listing", "saved"} /\ ~scoped => owed \subseteq toRead
    /\ pc = "saved" => toRead \subseteq known
    /\ owed \subseteq known \/ allSaid = "stopped"
    /\ pc = "take" /\ mode = "resume" /\ ~scoped /\ receipts /\ found = toRead
           => owed \subseteq known

IInv == TypeOK /\ WordInv /\ OwedInv

\* An install, new or from an older version, meets the invariant.
LEMMA InitIInv == Init => IInv
<1> SUFFICES ASSUME Init PROVE IInv
  OBVIOUS
<1>1. TypeOK
  <2>1. faults \in 0 .. MaxFaults
    BY ListingAssumption DEF Init
  <2> QED  BY <2>1 DEF Init, TypeOK, PCs, Word
<1>2. WordInv
  BY DEF Init, WordInv, WordKept, Before, Last
<1>3. OwedInv
  BY DEF Init, OwedInv
<1> QED  BY <1>1, <1>2, <1>3 DEF IInv

\* What the operators on the note give is a note.
LEMMA NoteType ==
    ASSUME TypeOK
    PROVE  /\ Last \in Word /\ Before \in Word
           /\ \A c \in BOOLEAN : Whole(c) \in Note /\ Whole(c) # NoNote
           /\ PutBack \in Note \cup {NoNote}
           /\ [complete |-> FALSE, scoped |-> scoped, before |-> Before] \in Note
<1>1. Last \in Word
  BY DEF Last, Word
<1>2. Before \in Word
  <2>1. note # NoNote => note \in Note
    BY DEF TypeOK
  <2> QED  BY <1>1, <2>1 DEF Before, Note
<1>3. \A c \in BOOLEAN : Whole(c) \in Note /\ Whole(c) # NoNote
  BY DEF Whole, Note, NoNote, Word
<1>4. PutBack \in Note \cup {NoNote}
  <2>1. (before = "whole") \in BOOLEAN
    OBVIOUS
  <2> QED  BY <1>3, <2>1 DEF PutBack, TypeOK
<1>5. [complete |-> FALSE, scoped |-> scoped, before |-> Before] \in Note
  BY <1>2 DEF Note, TypeOK
<1> QED  BY <1>1, <1>2, <1>3, <1>4, <1>5

\* A fault is counted within its bound.
LEMMA FaultType == ASSUME TypeOK, Fault PROVE faults' \in 0 .. MaxFaults
<1>1. faults \in 0 .. MaxFaults /\ MaxFaults \in Nat
  BY ListingAssumption DEF TypeOK
<1>2. faults < MaxFaults /\ faults' = faults + 1
  BY DEF Fault
<1> QED  BY <1>1, <1>2

\* Beginning a listing keeps the types of the note and of what is kept of it.
LEMMA NoteStartedType ==
    ASSUME TypeOK, NoteStarted \/ NoteRefused, UNCHANGED avail
    PROVE  /\ note' \in Note \cup {NoNote} /\ oldMark' \in BOOLEAN
           /\ before' \in Word \cup {"unstarted"} /\ owed' \subseteq avail'
           /\ allSaid' \in Word
  BY NoteType DEF NoteStarted, NoteRefused, TypeOK, Word

\* Every step keeps the types.
LEMMA TypeStep == TypeOK /\ [Next]_vars => TypeOK'
<1> SUFFICES ASSUME TypeOK, [Next]_vars PROVE TypeOK'
  OBVIOUS
<1>1. ASSUME NEW m \in {"list", "resume"}, NEW sc \in BOOLEAN, NEW p \in Parts \cup {Items},
             Start(m, sc, p)
      PROVE  TypeOK'
  BY <1>1 DEF Start, TypeOK, PCs
<1>2. CASE ResumeDocuments
  BY <1>2 DEF ResumeDocuments, End, TypeOK, PCs
<1>3. CASE ResumeReceipts
  BY <1>3 DEF ResumeReceipts, End, TypeOK, PCs
<1>4. CASE BeginListing
  <2>1. faults' \in 0 .. MaxFaults
    BY <1>4, FaultType DEF BeginListing, TypeOK
  <2>2. (NoteStarted \/ NoteRefused) /\ UNCHANGED avail
    BY <1>4 DEF BeginListing
  <2> QED  BY <1>4, <2>1, <2>2, NoteStartedType DEF BeginListing, TypeOK, PCs
<1>5. ASSUME NEW i \in Items, ReadSome(i) PROVE TypeOK'
  BY <1>5 DEF ReadSome, TypeOK
<1>6. CASE SaveList
  BY <1>6 DEF SaveList, TypeOK, PCs
<1>7. CASE NoteWhole
  <2>1. note' \in Note \cup {NoNote} /\ allSaid' \in Word /\ before' \in Word \cup {"unstarted"}
    BY <1>7, NoteType DEF NoteWhole, ReadWhole, TypeOK, Word
  <2>2. faults' \in 0 .. MaxFaults
    BY <1>7, FaultType DEF NoteWhole, ReadWhole, TypeOK
  <2> QED  BY <1>7, <2>1, <2>2 DEF NoteWhole, TypeOK, PCs
<1>8. CASE SaveInPart
  BY <1>8, FaultType DEF SaveInPart, TypeOK, PCs
<1>9. ASSUME NEW i \in Items, Take(i) PROVE TypeOK'
  BY <1>9 DEF Take, Remaining, InScope, TypeOK
<1>10. CASE Finish
  BY <1>10 DEF Finish, End, Outcome, TypeOK, PCs
<1>11. CASE ReadAgainStopped
  <2>1. (NoteStarted \/ NoteRefused) /\ UNCHANGED avail
    BY <1>11 DEF ReadAgainStopped
  <2> QED  BY <1>11, <2>1, NoteStartedType, FaultType DEF ReadAgainStopped, TypeOK, PCs
<1>12. CASE Stop
  BY <1>12, FaultType DEF Stop, End, TypeOK, PCs
<1>13. ASSUME NEW i \in Items, NewItem(i) PROVE TypeOK'
  BY <1>13 DEF NewItem, TypeOK
<1>14. CASE UNCHANGED vars
  BY <1>14 DEF vars, TypeOK
<1> QED  BY <1>1, <1>2, <1>3, <1>4, <1>5, <1>6, <1>7, <1>8, <1>9, <1>10, <1>11, <1>12,
            <1>13, <1>14 DEF Next, RunStep

\* A listing that begins leaves the word on the whole list as it was, unless
\* it is a listing of the whole.
LEMMA StartedWord ==
    ASSUME TypeOK, WordInv, NoteStarted \/ NoteRefused, UNCHANGED scoped
    PROVE  /\ WordKept'
           /\ allSaid' = "none" => ~oldMark'
           /\ scoped' /\ before' # "unstarted" => before' = allSaid'
<1>1. CASE NoteRefused
  BY <1>1 DEF NoteRefused, WordInv, WordKept, Before, Last
<1>2. CASE NoteStarted
  <2>1. note' # NoNote /\ note'.complete = FALSE /\ note'.scoped = scoped
        /\ note'.before = Before
    <3>1. note' = [complete |-> FALSE, scoped |-> scoped, before |-> Before]
      BY <1>2 DEF NoteStarted
    <3>2. Before # "absent"
      BY NoteType DEF Word
    <3> QED  BY <3>1, <3>2 DEF NoNote
  <2>2. oldMark' => oldMark
    BY <1>2 DEF NoteStarted, TypeOK
  <2> QED  BY <1>2, <2>1, <2>2 DEF NoteStarted, WordInv, WordKept, Before, Last, TypeOK
<1> QED  BY <1>1, <1>2

\* Every step keeps the last word on the whole list.
LEMMA WordStep == TypeOK /\ WordInv /\ [Next]_vars => WordInv'
<1> SUFFICES ASSUME TypeOK, WordInv, [Next]_vars PROVE WordInv'
  OBVIOUS
<1>a. UNCHANGED <<note, oldMark, allSaid>> => WordKept' /\ (allSaid' = "none" => ~oldMark')
  BY DEF WordInv, WordKept, Before, Last
<1>1. ASSUME NEW m, NEW sc, NEW p, Start(m, sc, p) PROVE WordInv'
  BY <1>1, <1>a DEF Start, WordInv
<1>2. CASE ResumeDocuments \/ ResumeReceipts
  BY <1>2, <1>a DEF ResumeDocuments, ResumeReceipts, End, WordInv
<1>3. CASE BeginListing
  BY <1>3, StartedWord DEF BeginListing, WordInv
<1>4. ASSUME NEW i, ReadSome(i) \/ Take(i) \/ NewItem(i) PROVE WordInv'
  BY <1>4, <1>a DEF ReadSome, Take, NewItem, WordInv
<1>5. CASE SaveList \/ SaveInPart
  BY <1>5, <1>a DEF SaveList, SaveInPart, WordInv
<1>6. CASE NoteWhole
  <2>1. CASE UNCHANGED <<note, allSaid>>
    BY <1>6, <1>a, <2>1 DEF NoteWhole, WordInv
  <2>2. CASE note' = PutBack /\ allSaid' = IF scoped THEN allSaid ELSE "whole"
    <3>1. CASE ~scoped
      <4>1. note' = Whole(TRUE) /\ allSaid' = "whole"
        BY <2>2, <3>1 DEF PutBack
      <4>2. Last' = "whole"
        BY <4>1, NoteType DEF Last, Whole
      <4>3. Before' = "whole"
        BY <4>1, <4>2 DEF Before, Whole
      <4> QED  BY <1>6, <4>1, <4>3 DEF NoteWhole, WordInv, WordKept
    <3>2. CASE scoped /\ before = "unstarted"
      BY <1>6, <1>a, <2>2, <3>2 DEF PutBack, NoteWhole, WordInv
    <3>3. CASE scoped /\ before = "none"
      <4>1. note' = NoNote /\ allSaid' = "none" /\ ~oldMark'
        BY <1>6, <2>2, <3>3 DEF PutBack, NoteWhole, WordInv
      <4> QED  BY <1>6, <4>1 DEF NoteWhole, WordInv, WordKept, Before, Last
    <3>4. CASE scoped /\ before \in {"whole", "stopped"}
      <4>1. note' = Whole(before = "whole") /\ allSaid' = before
        BY <1>6, <2>2, <3>4 DEF PutBack, NoteWhole, WordInv
      <4>2. /\ note' # NoNote /\ note'.scoped = FALSE
            /\ note'.complete = (before = "whole")
        BY <4>1, NoteType DEF Whole
      <4>3. Before' = Last' /\ Last' = IF before = "whole" THEN "whole" ELSE "stopped"
        BY <4>2 DEF Before, Last
      <4> QED  BY <1>6, <3>4, <4>1, <4>3 DEF NoteWhole, WordInv, WordKept
    <3> QED  BY <3>1, <3>2, <3>3, <3>4 DEF TypeOK, Word
  <2> QED  BY <1>6, <2>1, <2>2 DEF NoteWhole, ReadWhole
<1>7. CASE Finish \/ Stop
  BY <1>7, <1>a DEF Finish, Stop, End, WordInv
<1>8. CASE ReadAgainStopped
  BY <1>8, StartedWord DEF ReadAgainStopped, WordInv
<1>9. CASE UNCHANGED vars
  BY <1>9, <1>a DEF vars, WordInv
<1> QED  BY <1>1, <1>2, <1>3, <1>4, <1>5, <1>6, <1>7, <1>8, <1>9 DEF Next, RunStep

\* With the word on the whole list "stopped", the note says stopped.
LEMMA StoppedSaid == ASSUME WordInv, allSaid = "stopped" PROVE Last = "stopped"
  BY DEF WordInv, WordKept, Before, Last

\* A listing of the whole that begins owes what is listed, and says stopped.
LEMMA StartedOwed ==
    ASSUME TypeOK, OwedInv, NoteStarted \/ NoteRefused, UNCHANGED <<known, scoped, avail>>
    PROVE  /\ owed' \subseteq known' \/ allSaid' = "stopped"
           /\ ~scoped => owed' \subseteq avail
  BY DEF NoteStarted, NoteRefused, OwedInv, TypeOK

\* Every step keeps what the last listing of the whole owes in reach.
LEMMA OwedStep == TypeOK /\ WordInv /\ OwedInv /\ [Next]_vars => OwedInv'
<1> SUFFICES ASSUME TypeOK, WordInv, OwedInv, [Next]_vars PROVE OwedInv'
  OBVIOUS
<1>1. ASSUME NEW m, NEW sc, NEW p, Start(m, sc, p) PROVE OwedInv'
  BY <1>1 DEF Start, OwedInv
<1>2. CASE ResumeDocuments
  BY <1>2 DEF ResumeDocuments, End, OwedInv
<1>3. CASE ResumeReceipts
  BY <1>3, StoppedSaid DEF ResumeReceipts, End, OwedInv
<1>4. CASE BeginListing
  <2>1. (NoteStarted \/ NoteRefused) /\ UNCHANGED <<known, scoped, avail>>
    BY <1>4 DEF BeginListing
  <2>2. ~scoped => toRead' = avail
    BY <1>4 DEF BeginListing, OwedInv, TypeOK
  <2> QED  BY <1>4, <2>1, <2>2, StartedOwed DEF BeginListing, OwedInv
<1>5. ASSUME NEW i, ReadSome(i) \/ Take(i) \/ NewItem(i) PROVE OwedInv'
  BY <1>5 DEF ReadSome, Take, NewItem, OwedInv
<1>6. CASE SaveList \/ SaveInPart
  BY <1>6 DEF SaveList, SaveInPart, OwedInv
<1>7. CASE NoteWhole
  <2>1. toRead \subseteq known /\ (~scoped => owed \subseteq known)
    BY <1>7 DEF NoteWhole, OwedInv
  <2>2. scoped => allSaid' = allSaid
    BY <1>7 DEF NoteWhole, ReadWhole
  <2> QED  BY <1>7, <2>1, <2>2 DEF NoteWhole, OwedInv
<1>8. CASE Finish \/ Stop
  BY <1>8 DEF Finish, Stop, End, OwedInv
<1>9. CASE ReadAgainStopped
  <2>1. (NoteStarted \/ NoteRefused) /\ UNCHANGED <<known, scoped, avail>>
    BY <1>9 DEF ReadAgainStopped
  <2>2. pc' = "off" /\ part' = part /\ toRead' = {}
    BY <1>9 DEF ReadAgainStopped
  <2>3. owed' \subseteq known' \/ allSaid' = "stopped"
    BY <2>1, StartedOwed
  <2>4. ~scoped => part = Items
    BY DEF OwedInv
  <2> QED  BY <2>1, <2>2, <2>3, <2>4, StartedOwed DEF OwedInv
<1>10. CASE UNCHANGED vars
  BY <1>10 DEF vars, OwedInv
<1> QED  BY <1>1, <1>2, <1>3, <1>4, <1>5, <1>6, <1>7, <1>8, <1>9, <1>10 DEF Next, RunStep

-----------------------------------------------------------------------------
(* Theorems *)

\* The invariant holds in every state.
THEOREM Invariant == Spec => []IInv
<1>1. IInv /\ [Next]_vars => IInv'
  BY TypeStep, WordStep, OwedStep DEF IInv
<1> QED  BY InitIInv, <1>1, PTL DEF Spec

\* Every variable keeps its type.
THEOREM TypeCorrect == Spec => []TypeOK
<1>1. IInv => TypeOK
  BY DEF IInv
<1> QED  BY <1>1, Invariant, PTL

\* Scoped runs, ended or stopped in any order, lose nothing of what was last
\* noted of the whole list.
THEOREM NoteKeepsWord == Spec => []WordKept
<1>1. IInv => WordKept
  BY DEF IInv, WordInv
<1> QED  BY <1>1, Invariant, PTL

\* A clean Resume of the whole history means the last noted reading of the
\* whole list left nothing unread.
THEOREM CleanResume == Spec => CleanMeansRead
<1> DEFINE A == pc # "off" /\ pc' = "off" /\ result' = "clean" /\ mode = "resume" /\ ~scoped
                    => owed \subseteq known
<1>1. IInv /\ [Next]_vars => [A]_vars
  <2> SUFFICES ASSUME IInv, [Next]_vars, pc # "off", pc' = "off", result' = "clean",
                      mode = "resume", ~scoped
               PROVE  owed \subseteq known
    OBVIOUS
  <2>1. Last # "stopped" => owed \subseteq known
    BY StoppedSaid DEF IInv, OwedInv
  <2>2. CASE ResumeDocuments
    BY <2>1, <2>2 DEF ResumeDocuments, NothingListed, End
  <2>3. CASE ResumeReceipts
    BY <2>3 DEF ResumeReceipts, End
  <2>4. CASE Finish
    <3>1. pc = "take" /\ Outcome = "clean"
      BY <2>4 DEF Finish, End
    <3>2. CASE ~receipts
      BY <2>1, <3>1, <3>2 DEF Outcome
    <3>3. CASE receipts
      BY <3>1, <3>3 DEF Outcome, IInv, OwedInv
    <3> QED  BY <3>2, <3>3
  <2> QED
    BY <2>2, <2>3, <2>4
       DEF Next, RunStep, vars, Start, BeginListing, ReadSome, SaveList, NoteWhole,
           SaveInPart, Take, ReadAgainStopped, Stop, End, NewItem
<1> HIDE DEF A
<1>2. Spec => [][A]_vars
  BY <1>1, Invariant, PTL DEF Spec
<1> QED  BY <1>2 DEF A, CleanMeansRead
=============================================================================
