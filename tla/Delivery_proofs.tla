---------------------------- MODULE Delivery_proofs ----------------------------
(***************************************************************************)
(* Proofs about Delivery, for any documents, whatever their rows say and   *)
(* they print, and any names, number of captures and faults.               *)
(***************************************************************************)
EXTENDS Delivery, FiniteSetTheorems, TLAPS

\* A capture under way has come to nothing yet.
UnderWay == pc # "off" => outcome = "none"

\* What is checked was staged by the capture under way, but where a page drew
\* nothing and what was there could not be removed.
StagedInv == pc = "check" => staged[current][2] = press \/ uncleared

\* A press's file of the folder comes once, arrives under one name and finishes
\* under it.
ComesOnce ==
    \A n \in Names :
       LET p == folder.arriving[n]
           q == folder.finished[n]
       IN /\ p # None => /\ <<"folder", p>> \notin coming
                         /\ \A m \in Names : /\ m # n => folder.arriving[m] # p
                                             /\ folder.finished[m] # p
          /\ q # None => <<"folder", q>> \notin coming

\* What had finished when the capture began does not come again; and what was
\* listed is a file that has finished since.
NotAgain ==
    /\ \A n \in Names :
          LET q == before.finished[n]
          IN q # None => /\ <<"folder", q>> \notin coming
                         /\ \A m \in Names : folder.arriving[m] # q
    /\ \A n \in names : folder.finished[n] \notin {None, before.finished[n]}

IInv ==
    /\ TypeOK /\ UnderWay
    /\ RightOrNotTold
    /\ StagedInv
    /\ ComesOnce /\ NotAgain

-----------------------------------------------------------------------------
(* The check. *)

\* The check refuses every document that can be told from the one it is to be
\* (identity.distinguish).
LEMMA ToldIsRefused ==
    ASSUME NEW d \in Docs, NEW c \in Docs, ToldApart(d, c)
    PROVE  Refuses(d, c)
<1> DEFINE rows == Rivals[d] \cup {d}
<1>1. /\ c \in Rivals[d] /\ Marks[d] # {}
      /\ Own(c, rows) \cap Prints[c] # {} /\ Own(d, rows) \cap Prints[c] = {}
  BY DEF ToldApart
<1>2. Own(c, rows) \cap Prints[c] \subseteq Facts /\ IsFiniteSet(Facts)
  BY DeliveryAssumption DEF Own
<1>3. IsFiniteSet(Own(c, rows) \cap Prints[c])
  BY <1>2, FS_Subset
<1>4. Score(c, rows, Prints[c]) \in Nat /\ Score(c, rows, Prints[c]) # 0
  BY <1>1, <1>3, FS_CardinalityType, FS_EmptySet DEF Score
<1>5. Score(d, rows, Prints[c]) = 0
  BY <1>1, FS_EmptySet DEF Score
<1>6. Score(c, rows, Prints[c]) > Score(d, rows, Prints[c])
  BY <1>4, <1>5
<1> QED  BY <1>1, <1>6 DEF Refuses, Text

-----------------------------------------------------------------------------
(* The invariant. *)

LEMMA InitIInv == Init => IInv
<1> SUFFICES ASSUME Init PROVE IInv
  OBVIOUS
<1>1. NoFolder \in Folders
  <2>1. None \in 0 .. press
    BY DEF Init, None
  <2> QED  BY <2>1 DEF NoFolder, Folders
<1>2. TypeOK
  <2>1. press \in 0 .. MaxPresses /\ faults \in 0 .. MaxFaults
    BY DeliveryAssumption DEF Init
  <2>2. folder \in Folders /\ before \in Folders
    BY <1>1 DEF Init
  <2>3. seen \in [Kinds -> 0 .. press] /\ seen = NoneSeen
    BY DEF Init, NoneSeen, None
  <2>4. /\ brings \in [Presses -> Brought]
        /\ staged \in [Docs -> (Things \X (0 .. press)) \cup {NotStaged}]
        /\ inPlace \in [Docs -> Docs \cup {Part, None}]
    BY DEF Init, Brought
  <2> QED  BY <2>1, <2>2, <2>3, <2>4 DEF Init, TypeOK
<1>3. UnderWay /\ RightOrNotTold /\ StagedInv
  BY DEF Init, UnderWay, RightOrNotTold, StagedInv
<1>4. ComesOnce /\ NotAgain
  BY DEF Init, ComesOnce, NotAgain, NoFolder
<1> QED  BY <1>2, <1>3, <1>4 DEF IInv

\* The number of captures is one, and only grows.
LEMMA StepPress ==
    ASSUME TypeOK, [Next]_vars
    PROVE  /\ press \in Nat /\ press' \in Nat /\ press <= press'
           /\ press' \in 0 .. MaxPresses /\ 1 .. press' \subseteq Presses
           /\ press' # press => press' = press + 1
<1>1. press \in 0 .. MaxPresses
  BY DEF TypeOK
<1>2. MaxPresses \in Nat
  BY DeliveryAssumption
<1>3. press' = press \/ (press' = press + 1 /\ press < MaxPresses)
  BY DEF Next, vars, Deliver, Place, Render, Begins, Arrives, FileBegins, FileFinished, Read,
         ListFolder, TakeFromFolder, GiveUp, Finish, Cut, Over
<1> QED  BY <1>1, <1>2, <1>3 DEF Presses

\* Where a capture is, what it came to, of which document, and the faults there
\* were have their types.
LEMMA StepCapture ==
    ASSUME TypeOK, [Next]_vars
    PROVE  /\ pc' \in {"off", "wait", "take", "check"}
           /\ current' \in Docs
           /\ outcome' \in {"none", "saved", "nothing", "not a PDF", "wrong", "not placed", "cut"}
           /\ uncleared' \in BOOLEAN
           /\ unchecked' \subseteq Docs
           /\ faults' \in 0 .. MaxFaults
<1>1. /\ pc \in {"off", "wait", "take", "check"} /\ current \in Docs
      /\ outcome \in {"none", "saved", "nothing", "not a PDF", "wrong", "not placed", "cut"}
      /\ uncleared \in BOOLEAN /\ unchecked \subseteq Docs
      /\ faults \in 0 .. MaxFaults /\ MaxFaults \in Nat
  BY DeliveryAssumption DEF TypeOK
<1>2. /\ pc' \in {"off", "wait", "take", "check"}
      /\ outcome' \in {"none", "saved", "nothing", "not a PDF", "wrong", "not placed", "cut"}
  BY <1>1 DEF Next, vars, Deliver, Place, Render, Drawn, NotDrawn, PartDrawn, Arrives, FileBegins,
              FileFinished, Read, ListFolder, TakeFromFolder, GiveUp, Finish, Placed, Cut, Over,
              Checks, Ends
<1>3. current' \in Docs
  BY <1>1 DEF Next, vars, Deliver, Place, Render, Begins, Arrives, FileBegins, FileFinished,
              Read, ListFolder, TakeFromFolder, GiveUp, Finish, Cut, Over
<1>4. uncleared' \in BOOLEAN /\ unchecked' \subseteq Docs
  BY <1>1 DEF Next, vars, Deliver, Place, Render, Drawn, NotDrawn, PartDrawn, Arrives, FileBegins,
              FileFinished, Read, ListFolder, TakeFromFolder, GiveUp, Finish, Cut, Over
<1>5. faults' \in 0 .. MaxFaults
  <2>1. \A d : Clear(d) => faults' = faults \/ Fault
    BY DEF Clear, Held
  <2>2. faults' = faults \/ Fault => faults' \in 0 .. MaxFaults
    <3>1. faults \in 0 .. MaxFaults /\ MaxFaults \in Nat
      BY <1>1
    <3> QED  BY <3>1 DEF Fault
  <2>3. CASE \E d \in Docs : Deliver(d) \/ Place(d) \/ Render(d)
    BY <2>1, <2>2, <2>3 DEF Deliver, Place, Render, Drawn, NotDrawn, PartDrawn
  <2>4. CASE TakeFromFolder \/ GiveUp \/ Finish \/ Cut
    BY <2>1, <2>2, <2>4 DEF TakeFromFolder, GiveUp, Finish, Cut
  <2>5. CASE \E k \in Kinds : Read(k)
    BY <2>2, <2>5 DEF Read
  <2>6. CASE faults' = faults
    BY <2>2, <2>6
  <2> QED
    BY <2>3, <2>4, <2>5, <2>6
       DEF Next, vars, Arrives, FileBegins, FileFinished, ListFolder, Over
<1> QED  BY <1>2, <1>3, <1>4, <1>5

\* What a press brings has its type, and what the listeners hold and may still
\* hear is of captures there have been.
LEMMA StepHeard ==
    ASSUME TypeOK, [Next]_vars
    PROVE  /\ brings' \in [Presses -> Brought]
           /\ coming' \subseteq Ways \X (1 .. press')
           /\ seen' \in [Kinds -> 0 .. press']
           /\ toRead' \subseteq Ways /\ names' \subseteq Names
<1>1. /\ brings \in [Presses -> Brought] /\ coming \subseteq Ways \X (1 .. press)
      /\ seen \in [Kinds -> 0 .. press] /\ toRead \subseteq Ways /\ names \subseteq Names
  BY DEF TypeOK
<1>2. press \in Nat /\ press' \in Nat /\ press <= press' /\ (press' # press => press' = press + 1)
  BY StepPress
<1>3. 1 .. press \subseteq 1 .. press' /\ 0 .. press \subseteq 0 .. press'
  BY <1>2
<1>4. brings' \in [Presses -> Brought]
  <2>1. brings' = brings \/ \E c \in Brought : brings' = [brings EXCEPT ![press'] = c]
    BY DEF Next, vars, Deliver, Place, Render, Arrives, FileBegins, FileFinished, Read,
           ListFolder, TakeFromFolder, GiveUp, Finish, Cut, Over
  <2> QED  BY <1>1, <2>1
<1>5. coming' \subseteq Ways \X (1 .. press')
  <2>1. coming \subseteq Ways \X (1 .. press')
    BY <1>1, <1>3
  <2>2. \/ coming' \subseteq coming
        \/ coming' = coming \cup (Ways \X {press'}) /\ press' = press + 1
    BY DEF Next, vars, Deliver, Place, Render, Begins, Arrives, FileBegins, FileFinished, Read,
           ListFolder, TakeFromFolder, GiveUp, Finish, Cut, Over
  <2>3. press' = press + 1 => press' \in 1 .. press'
    BY <1>2
  <2> QED  BY <2>1, <2>2, <2>3
<1>6. seen' \in [Kinds -> 0 .. press']
  <2>1. seen \in [Kinds -> 0 .. press']
    BY <1>1, <1>3
  <2>2. NoneSeen \in [Kinds -> 0 .. press']
    BY <1>2 DEF NoneSeen, None
  <2>3. ASSUME NEW k \in Kinds, NEW p \in Presses, Arrives(k, p)
        PROVE  seen' \in [Kinds -> 0 .. press']
    <3>1. <<k, p>> \in coming
      BY <2>3 DEF Arrives
    <3>2. p \in 1 .. press
      BY <1>1, <3>1
    <3>3. p \in 0 .. press'
      BY <1>2, <3>2
    <3>4. seen' = seen \/ seen' = [seen EXCEPT ![k] = p]
      BY <2>3 DEF Arrives
    <3> QED  BY <2>1, <3>3, <3>4
  <2> QED
    BY <2>1, <2>2, <2>3
       DEF Next, vars, Deliver, Place, Render, FileBegins, FileFinished, Read, ListFolder,
           TakeFromFolder, GiveUp, Finish, Cut, Over, Disarmed
<1>7. toRead' \subseteq Ways /\ names' \subseteq Names
  BY <1>1 DEF Next, vars, Deliver, Place, Render, Arrives, FileBegins, FileFinished, Read,
              ListFolder, TakeFromFolder, GiveUp, Finish, Cut, Over, Disarmed
<1> QED  BY <1>4, <1>5, <1>6, <1>7

\* The folder changes where a file begins, where one is finished, and where one
\* is taken.
LEMMA StepFolder ==
    ASSUME [Next]_vars
    PROVE  \/ UNCHANGED folder
           \/ \E p \in Presses, n \in Names : FileBegins(p, n)
           \/ \E n \in Names : FileFinished(n)
           \/ \E n \in names : /\ folder' = [folder EXCEPT !.finished[n] = None]
                               /\ TakeFromFolder
  BY DEF Next, vars, Deliver, Place, Render, Arrives, FileBegins, FileFinished, Read,
         ListFolder, TakeFromFolder, GiveUp, Finish, Cut, Over

\* Under its names are files of captures there have been.
LEMMA StepFolderType ==
    ASSUME TypeOK, [Next]_vars
    PROVE  folder' \in Folders' /\ before' \in Folders'
<1>1. folder \in Folders /\ before \in Folders
  BY DEF TypeOK
<1>2. press \in Nat /\ press' \in Nat /\ press <= press'
  BY StepPress
<1>3. 0 .. press \subseteq 0 .. press' /\ None \in 0 .. press'
  BY <1>2 DEF None
<1>4. folder \in Folders' /\ before \in Folders' /\ NoFolder \in Folders'
  <2>1. NoFolder \in Folders'
    BY <1>3 DEF Folders, NoFolder
  <2>2. ASSUME NEW f \in Folders PROVE f \in Folders'
    <3>1. [Names -> 0 .. press] \subseteq [Names -> 0 .. press']
      BY <1>3
    <3>2. /\ f = [arriving |-> f.arriving, finished |-> f.finished]
          /\ f.arriving \in [Names -> 0 .. press] /\ f.finished \in [Names -> 0 .. press]
      BY DEF Folders
    <3> QED  BY <3>1, <3>2 DEF Folders
  <2> QED  BY <1>1, <2>1, <2>2
<1>5. before' \in Folders'
  <2>1. before' \in {before, folder, NoFolder}
    BY DEF Next, vars, Deliver, Place, Render, Arrives, FileBegins, FileFinished, Read,
           ListFolder, TakeFromFolder, GiveUp, Finish, Cut, Over, Disarmed
  <2> QED  BY <1>4, <2>1
<1>6. ASSUME NEW p \in Presses, NEW n \in Names, FileBegins(p, n) PROVE folder' \in Folders'
  <2>1. p \in 0 .. press'
    <3>1. <<"folder", p>> \in coming /\ coming \subseteq Ways \X (1 .. press)
      BY <1>6 DEF FileBegins, TypeOK
    <3>2. p \in 1 .. press
      BY <3>1
    <3> QED  BY <1>2, <3>2
  <2>2. folder' = [folder EXCEPT !.arriving[n] = p]
    BY <1>6 DEF FileBegins
  <2> QED  BY <1>4, <2>1, <2>2 DEF Folders
<1>7. ASSUME NEW n \in Names, FileFinished(n) PROVE folder' \in Folders'
  <2>1. /\ folder.arriving \in [Names -> 0 .. press'] /\ folder.finished \in [Names -> 0 .. press']
    BY <1>4 DEF Folders
  <2>2. folder' = [arriving |-> [folder.arriving EXCEPT ![n] = None],
                   finished |-> [folder.finished EXCEPT ![n] = folder.arriving[n]]]
    BY <1>7 DEF FileFinished
  <2>3. /\ [folder.arriving EXCEPT ![n] = None] \in [Names -> 0 .. press']
        /\ [folder.finished EXCEPT ![n] = folder.arriving[n]] \in [Names -> 0 .. press']
    BY <1>3, <2>1
  <2> QED  BY <2>2, <2>3 DEF Folders
<1>8. ASSUME NEW n, folder' = [folder EXCEPT !.finished[n] = None] PROVE folder' \in Folders'
  BY <1>3, <1>4, <1>8 DEF Folders
<1> QED  BY <1>4, <1>5, <1>6, <1>7, <1>8, StepFolder

\* The listeners hold nothing while none is armed, and nothing is listed but to
\* be taken.
LEMMA StepArmed ==
    ASSUME TypeOK, [Next]_vars
    PROVE  /\ pc' \in {"off", "check"} => seen' = NoneSeen /\ before' = NoFolder
           /\ pc' # "take" => names' = {}
<1>1. /\ pc \in {"off", "check"} => seen = NoneSeen /\ before = NoFolder
      /\ pc # "take" => names = {}
      /\ pc \in {"off", "wait", "take", "check"}
  BY DEF TypeOK
<1>2. ASSUME NEW k \in Kinds, NEW p \in Presses, Arrives(k, p)
      PROVE  /\ pc' = pc /\ before' = before /\ names' = names
             /\ pc \in {"off", "check"} => seen' = seen
  BY <1>2 DEF Arrives
<1>3. CASE Read("download") \/ Read("answer")
  BY <1>1, <1>3 DEF Read, Disarmed
<1>4. CASE \E k \in Kinds, p \in Presses : Arrives(k, p)
  BY <1>1, <1>2, <1>4
<1>5. CASE Disarmed
  BY <1>5 DEF Disarmed
<1>6. CASE \E d \in Docs : Deliver(d) \/ Place(d) \/ Render(d)
  BY <1>1, <1>6 DEF Deliver, Place, Render, Begins, Drawn, NotDrawn, PartDrawn, Checks, Ends
<1>7. CASE ListFolder
  BY <1>7 DEF ListFolder
<1>8. CASE TakeFromFolder
  BY <1>8 DEF TakeFromFolder, Disarmed
<1>9. CASE Finish
  BY <1>1, <1>9 DEF Finish, Placed, Ends
<1>10. CASE UNCHANGED <<pc, seen, before, names>>
  BY <1>1, <1>10
<1> QED
  BY <1>3, <1>4, <1>5, <1>6, <1>7, <1>8, <1>9, <1>10
     DEF Next, vars, FileBegins, FileFinished, GiveUp, Cut, Over, Kinds

-----------------------------------------------------------------------------
(* What is staged. *)

\* A capture that stages anything stages it as its own.
Stages(d) ==
    \E c \in Things : staged' = [staged EXCEPT ![d] = <<c, press'>>]

\* What a press brought that was heard, or whose file is listed, is a thing.
LEMMA BroughtThings ==
    ASSUME TypeOK
    PROVE  /\ \A k \in Kinds : seen[k] # None => brings[seen[k]] \in Things
           /\ \A n \in Names : folder.finished[n] # None => brings[folder.finished[n]] \in Things
<1>1. press \in 0 .. MaxPresses /\ MaxPresses \in Nat /\ brings \in [Presses -> Brought]
  BY DeliveryAssumption DEF TypeOK
<1>2. \A p \in 0 .. press : p # None => brings[p] \in Things
  BY <1>1 DEF Presses, None, Things
<1>3. seen \in [Kinds -> 0 .. press] /\ folder.finished \in [Names -> 0 .. press]
  BY DEF TypeOK, Folders
<1> QED  BY <1>2, <1>3

\* A step leaves what is staged, removes the staged file of the capture's
\* document, or puts something there as the capture's own.
LEMMA StepStaged ==
    ASSUME IInv, [Next]_vars
    PROVE  \/ UNCHANGED staged
           \/ staged' = Cleared(current')
           \/ Stages(current')
<1>1. TypeOK
  BY DEF IInv
<1>2. \A d \in Docs : Clear(d) => UNCHANGED staged \/ staged' = Cleared(d)
  BY DEF Clear, Held
<1>3. Junk \in Things /\ Part \in Things /\ Brought \subseteq Things
  BY DEF Things, Brought
<1>4. \A c \in Things : Stage(c) /\ UNCHANGED <<current, press>> => Stages(current')
  BY DEF Stage, Stages
<1>5. ASSUME NEW d \in Docs, Deliver(d)
      PROVE  UNCHANGED staged \/ staged' = Cleared(current')
  BY <1>2, <1>5 DEF Deliver, Begins
<1>6. ASSUME NEW d \in Docs, Place(d) \/ Render(d)
      PROVE  \/ UNCHANGED staged
             \/ staged' = Cleared(current')
             \/ Stages(current')
  <2>1. current' = d
    BY <1>6 DEF Place, Render, Begins
  <2>2. Drawn(d) \/ PartDrawn(d) => Stages(d)
    BY <1>3 DEF Drawn, PartDrawn, Stages
  <2>3. Drawn(d) \/ PartDrawn(d) \/ Clear(d)
    BY <1>6 DEF Place, Render, NotDrawn
  <2> QED  BY <1>2, <2>1, <2>2, <2>3
<1>7. ASSUME NEW k \in Kinds, Read(k) PROVE UNCHANGED staged \/ Stages(current')
  <2>1. UNCHANGED <<current, press>>
    BY <1>7 DEF Read
  <2>2. \/ UNCHANGED staged
        \/ seen[k] # None /\ Stage(brings[seen[k]])
        \/ Stage(Junk) \/ Stage(Part)
    BY <1>7 DEF Read
  <2> QED  BY <1>1, <1>3, <1>4, <2>1, <2>2, BroughtThings
<1>8. CASE TakeFromFolder
  <2>1. UNCHANGED <<current, press>>
    BY <1>8 DEF TakeFromFolder
  <2>2. \/ UNCHANGED staged
        \/ staged' = Cleared(current)
        \/ Stage(Part)
        \/ \E n \in names : Stage(brings[folder.finished[n]])
    BY <1>8 DEF TakeFromFolder
  <2>3. \A n \in names : n \in Names /\ folder.finished[n] # None
    BY DEF IInv, TypeOK, NotAgain
  <2> QED  BY <1>1, <1>3, <1>4, <2>1, <2>2, <2>3, BroughtThings
<1>9. CASE GiveUp \/ Finish
  <2>1. current' = current /\ current \in Docs
    BY <1>1, <1>9 DEF GiveUp, Finish, TypeOK
  <2>2. Clear(current) \/ staged' = Cleared(current) \/ UNCHANGED staged
    BY <1>9 DEF GiveUp, Finish, Placed, Cleared
  <2> QED  BY <1>2, <2>1, <2>2
<1>10. CASE Cut
  <2>1. UNCHANGED <<current, press>> /\ (UNCHANGED staged \/ Stage(Part))
    BY <1>10 DEF Cut
  <2> QED  BY <1>3, <1>4, <2>1
<1>11. CASE UNCHANGED staged
  BY <1>11
<1> QED
  BY <1>5, <1>6, <1>7, <1>8, <1>9, <1>10, <1>11
     DEF Next, vars, Arrives, FileBegins, FileFinished, ListFolder, Over

\* What is staged has its type.
LEMMA StepStagedType ==
    ASSUME IInv, [Next]_vars
    PROVE  staged' \in [Docs -> (Things \X (0 .. press')) \cup {NotStaged}]
<1>1. TypeOK
  BY DEF IInv
<1>2. press \in Nat /\ press' \in Nat /\ press <= press' /\ current' \in Docs
  BY <1>1, StepPress, StepCapture
<1>3. 0 .. press \subseteq 0 .. press' /\ press' \in 0 .. press'
  BY <1>2
<1>4. (Things \X (0 .. press)) \cup {NotStaged} \subseteq (Things \X (0 .. press')) \cup {NotStaged}
  BY <1>3
<1>5. staged \in [Docs -> (Things \X (0 .. press)) \cup {NotStaged}]
  BY <1>1 DEF TypeOK
<1>6. staged \in [Docs -> (Things \X (0 .. press')) \cup {NotStaged}]
  BY <1>4, <1>5
<1>7. \A c \in Things : <<c, press'>> \in Things \X (0 .. press')
  BY <1>3
<1> QED  BY <1>2, <1>6, <1>7, StepStaged DEF Cleared, Stages

\* Where a capture checks, something is staged, and by that capture, but where
\* the page drew nothing and what was there could not be removed.
LEMMA StepChecks ==
    ASSUME IInv, [Next]_vars, pc' = "check"
    PROVE  /\ staged'[current'] # NotStaged
           /\ staged'[current'][2] = press' \/ uncleared'
<1>1. TypeOK /\ StagedInv /\ staged \in [Docs -> (Things \X (0 .. press)) \cup {NotStaged}]
  BY DEF IInv, TypeOK
<1>2. current' \in Docs
  BY <1>1, StepCapture
<1>3. \A c \in Things : <<c, press'>> # NotStaged
  BY DeliveryAssumption DEF NotStaged
<1>4. Stages(current') => /\ staged'[current'] # NotStaged
                          /\ staged'[current'][2] = press'
  BY <1>1, <1>2, <1>3 DEF Stages
<1>5. ASSUME NEW d \in Docs, Place(d) \/ Render(d)
      PROVE  /\ staged'[current'] # NotStaged
             /\ staged'[current'][2] = press' \/ uncleared'
  <2>1. current' = d
    BY <1>5 DEF Place, Render, Begins
  <2>2. CASE Drawn(d)
    BY <1>4, <2>1, <2>2 DEF Drawn, Stages, Things
  <2>3. CASE /\ Clear(d)
             /\ IF staged'[d] = NotStaged THEN Ends("nothing") ELSE Checks
             /\ uncleared' = (faults' # faults)
    <3>1. staged'[d] # NotStaged
      BY <2>3 DEF Ends
    <3>2. Cleared(d)[d] = NotStaged
      BY <1>1 DEF Cleared
    <3>3. Fault
      BY <2>3, <3>1, <3>2 DEF Clear, Held
    <3>4. faults \in Nat
      <4>1. faults \in 0 .. MaxFaults
        BY <1>1 DEF TypeOK
      <4> QED  BY <4>1, DeliveryAssumption
    <3>5. faults' # faults
      BY <3>3, <3>4 DEF Fault
    <3> QED  BY <2>1, <2>3, <3>1, <3>5
  <2>4. ~NotDrawn(d) /\ ~PartDrawn(d)
    BY DEF NotDrawn, PartDrawn, Ends
  <2> QED  BY <1>5, <2>2, <2>3, <2>4 DEF Place, Render
<1>6. ASSUME NEW k \in Kinds, Read(k) PROVE Stages(current')
  <2>1. seen[k] # None /\ Stage(brings[seen[k]]) /\ UNCHANGED <<current, press>>
    BY <1>6 DEF Read
  <2> QED  BY <1>1, <2>1, BroughtThings DEF Stage, Stages
<1>7. CASE TakeFromFolder
  <2>1. PICK n \in names : Stage(brings[folder.finished[n]])
    BY <1>7 DEF TakeFromFolder
  <2>2. n \in Names /\ folder.finished[n] # None /\ UNCHANGED <<current, press>>
    BY <1>7 DEF IInv, TypeOK, NotAgain, TakeFromFolder
  <2> QED  BY <1>1, <1>4, <2>1, <2>2, BroughtThings DEF Stage, Stages
<1>8. CASE pc = "check" /\ UNCHANGED <<staged, current, press, uncleared>>
  BY <1>1, <1>8 DEF TypeOK, StagedInv
<1>9. ASSUME NEW d \in Docs, Deliver(d) PROVE FALSE
  BY <1>9 DEF Deliver
<1>10. ~GiveUp /\ ~Finish /\ ~Cut /\ ~ListFolder /\ ~Over
  BY DEF GiveUp, Finish, Placed, Cut, Ends, ListFolder, Over, vars
<1> QED
  BY <1>4, <1>5, <1>6, <1>7, <1>8, <1>9, <1>10
     DEF Next, vars, Arrives, FileBegins, FileFinished

\* What is in a place begins like a PDF.
LEMMA StepPlaceType ==
    ASSUME IInv, [Next]_vars
    PROVE  inPlace' \in [Docs -> Docs \cup {Part, None}]
<1>1. /\ inPlace \in [Docs -> Docs \cup {Part, None}] /\ current \in Docs
      /\ staged \in [Docs -> (Things \X (0 .. press)) \cup {NotStaged}]
  BY DEF IInv, TypeOK
<1>2. CASE Finish
  <2> DEFINE c == staged[current][1]
  <2>1. UNCHANGED inPlace \/ (IsPdf(c) /\ inPlace' = [inPlace EXCEPT ![current] = c])
    BY <1>2 DEF Finish, Placed
  <2>2. c \in Things \cup {None}
    <3>1. staged[current] \in Things \X (0 .. press) \/ staged[current] = NotStaged
      BY <1>1
    <3> QED  BY <3>1 DEF NotStaged
  <2>3. IsPdf(c) => c \in Docs \cup {Part, None}
    BY <2>2 DEF IsPdf, Things, Brought
  <2> QED  BY <1>1, <2>1, <2>3
<1>3. CASE UNCHANGED inPlace
  BY <1>1, <1>3
<1> QED
  BY <1>2, <1>3
     DEF Next, vars, Deliver, Place, Render, Arrives, FileBegins, FileFinished, Read, ListFolder,
         TakeFromFolder, GiveUp, Cut, Over

\* The types hold on.
LEMMA StepType == ASSUME IInv, [Next]_vars PROVE TypeOK'
<1>1. TypeOK
  BY DEF IInv
<1>2. pc' = "check" => staged'[current'] # NotStaged
  BY StepChecks
<1>3. press' \in 0 .. MaxPresses
  BY <1>1, StepPress
<1> QED
  BY <1>1, <1>2, <1>3, StepCapture, StepHeard, StepFolderType, StepArmed, StepStagedType,
     StepPlaceType, ZenonT(30)
     DEF TypeOK

-----------------------------------------------------------------------------
(* What is in place. *)

\* Nothing that can be told apart from it takes a document's place, unless its
\* text was not read.
LEMMA StepRight == ASSUME IInv, [Next]_vars PROVE RightOrNotTold'
<1> SUFFICES ASSUME NEW d \in Docs, inPlace'[d] # None, d \notin unchecked',
                    ToldApart(d, inPlace'[d])
             PROVE  FALSE
  BY DEF RightOrNotTold
<1>1. inPlace \in [Docs -> Docs \cup {Part, None}] /\ current \in Docs
  BY DEF IInv, TypeOK
<1>2. inPlace[d] # None /\ d \notin unchecked => ~ToldApart(d, inPlace[d])
  BY DEF IInv, RightOrNotTold
<1>3. CASE Finish
  <2> DEFINE c == staged[current][1]
  <2>1. CASE UNCHANGED <<inPlace, unchecked>>
    BY <1>2, <2>1
  <2>2. CASE /\ ~Refuses(current, c) /\ inPlace' = [inPlace EXCEPT ![current] = c]
             /\ unchecked' = unchecked \ {current}
    <3>1. CASE d = current
      <4>1. inPlace'[d] = c /\ c \in Docs
        BY <1>1, <2>2, <3>1, DeliveryAssumption DEF ToldApart
      <4> QED  BY <2>2, <3>1, <4>1, ToldIsRefused
    <3>2. CASE d # current
      BY <1>1, <1>2, <2>2, <3>2
    <3> QED  BY <3>1, <3>2
  <2>3. CASE /\ inPlace' = [inPlace EXCEPT ![current] = c]
             /\ unchecked' = unchecked \cup {current}
    BY <1>1, <1>2, <2>3
  <2> QED  BY <1>3, <2>1, <2>2, <2>3 DEF Finish, Placed
<1>4. CASE UNCHANGED <<inPlace, unchecked>>
  BY <1>2, <1>4
<1> QED
  BY <1>3, <1>4
     DEF Next, vars, Deliver, Place, Render, Arrives, FileBegins, FileFinished, Read, ListFolder,
         TakeFromFolder, GiveUp, Cut, Over

\* A capture comes to something where it ends.
LEMMA StepUnderWay == ASSUME UnderWay, [Next]_vars PROVE UnderWay'
  BY DEF UnderWay, Next, vars, Deliver, Place, Render, Begins, Drawn, NotDrawn, PartDrawn, Arrives,
         FileBegins, FileFinished, Read, ListFolder, TakeFromFolder, GiveUp, Finish, Placed, Cut,
         Over, Checks, Ends

-----------------------------------------------------------------------------
(* The download folder. *)

\* What was noted and what was listed change only with a capture, and a press is
\* to bring a file of its own.
LEMMA StepNoted ==
    ASSUME IInv, [Next]_vars
    PROVE  \/ /\ UNCHANGED <<before, names>> /\ coming' \subseteq coming
           \/ /\ UNCHANGED <<folder, names>> /\ before' = folder /\ names = {}
              /\ coming' = coming \cup (Ways \X {press'}) /\ press' = press + 1
           \/ /\ UNCHANGED <<folder, before, coming>>
              /\ \A n \in names' : folder.finished[n] \notin {None, before.finished[n]}
           \/ /\ before' = NoFolder /\ names' = {} /\ UNCHANGED coming
<1>1. pc # "take" => names = {}
  BY DEF IInv, TypeOK
<1> QED
  BY <1>1
     DEF Next, vars, Deliver, Place, Render, Begins, Arrives, FileBegins, FileFinished, Read,
         ListFolder, TakeFromFolder, GiveUp, Finish, Cut, Over, Disarmed

\* A press's file comes once, and is not what had finished before.
LEMMA StepComes == ASSUME IInv, [Next]_vars PROVE ComesOnce' /\ NotAgain'
<1>1. TypeOK /\ ComesOnce /\ NotAgain
  BY DEF IInv
<1>2. /\ press \in Nat /\ coming \subseteq Ways \X (1 .. press)
      /\ folder \in [arriving : [Names -> 0 .. press], finished : [Names -> 0 .. press]]
      /\ before \in [arriving : [Names -> 0 .. press], finished : [Names -> 0 .. press]]
      /\ names \subseteq Names
  BY <1>1, StepPress DEF TypeOK, Folders
<1>3. CASE UNCHANGED folder
  <2>1. CASE coming' \subseteq coming
    <3>1. ComesOnce'
      BY <1>1, <1>3, <2>1 DEF ComesOnce
    <3>2. CASE UNCHANGED <<before, names>>
      BY <1>1, <1>3, <2>1, <3>1, <3>2 DEF NotAgain
    <3>3. CASE /\ UNCHANGED <<before, coming>>
               /\ \A n \in names' : folder.finished[n] \notin {None, before.finished[n]}
      BY <1>1, <1>3, <3>1, <3>3 DEF NotAgain
    <3>4. CASE before' = NoFolder /\ names' = {}
      BY <3>1, <3>4 DEF NotAgain, NoFolder
    <3>5. CASE before' = folder /\ names' = {}
      BY <1>1, <1>3, <2>1, <3>1, <3>5 DEF ComesOnce, NotAgain
    <3> QED  BY <2>1, <3>2, <3>3, <3>4, <3>5, StepNoted
  <2>2. CASE /\ before' = folder /\ names' = {}
             /\ coming' = coming \cup (Ways \X {press'}) /\ press' = press + 1
    <3>1. \A n \in Names : folder.arriving[n] # press' /\ folder.finished[n] # press'
      BY <1>2, <2>2
    <3>2. \A p \in 0 .. press : <<"folder", p>> \in coming' => <<"folder", p>> \in coming
      BY <1>2, <2>2
    <3>3. \A n \in Names : folder.arriving[n] \in 0 .. press /\ folder.finished[n] \in 0 .. press
      BY <1>2
    <3>4. ComesOnce'
      BY <1>1, <1>3, <3>2, <3>3 DEF ComesOnce
    <3>5. NotAgain'
      BY <1>1, <1>3, <2>2, <3>2, <3>3 DEF ComesOnce, NotAgain
    <3> QED  BY <3>4, <3>5
  <2> QED  BY <2>1, <2>2, StepNoted
<1>4. ASSUME NEW p \in Presses, NEW n \in Names, FileBegins(p, n) PROVE ComesOnce' /\ NotAgain'
  <2>1. /\ <<"folder", p>> \in coming /\ coming' = coming \ {<<"folder", p>>}
        /\ folder.arriving[n] = None /\ folder' = [folder EXCEPT !.arriving[n] = p]
        /\ UNCHANGED <<before, names>>
    BY <1>4 DEF FileBegins
  <2>2. /\ folder'.finished = folder.finished
        /\ folder'.arriving = [folder.arriving EXCEPT ![n] = p]
    BY <1>2, <2>1
  <2>3. \A m \in Names : folder'.arriving[m] = IF m = n THEN p ELSE folder.arriving[m]
    BY <1>2, <2>2
  <2>4. p # None
    BY DEF Presses, None
  <2>5. \A m \in Names : /\ folder.arriving[m] # p /\ folder.finished[m] # p
                         /\ before.finished[m] # p
    <3>1. \A m \in Names : folder.arriving[m] # p /\ folder.finished[m] # p
      BY <1>1, <2>1, <2>4 DEF ComesOnce
    <3>2. \A m \in Names : before.finished[m] # p
      BY <1>1, <2>1, <2>4 DEF NotAgain
    <3> QED  BY <3>1, <3>2
  <2>6. ComesOnce'
    <3>1. <<"folder", p>> \notin coming' /\ coming' \subseteq coming
      BY <2>1
    <3>2. \A m \in Names : folder'.finished[m] = folder.finished[m]
      BY <2>2
    <3>3. ASSUME NEW m \in Names, folder'.arriving[m] # None
          PROVE  /\ <<"folder", folder'.arriving[m]>> \notin coming'
                 /\ \A k \in Names : /\ k # m => folder'.arriving[k] # folder'.arriving[m]
                                     /\ folder'.finished[k] # folder'.arriving[m]
      <4>1. CASE m = n
        BY <2>3, <2>5, <3>1, <3>2, <4>1
      <4>2. CASE m # n
        BY <1>1, <2>3, <2>5, <3>1, <3>2, <3>3, <4>2 DEF ComesOnce
      <4> QED  BY <4>1, <4>2
    <3>4. \A m \in Names : folder'.finished[m] # None =>
              <<"folder", folder'.finished[m]>> \notin coming'
      BY <1>1, <3>1, <3>2 DEF ComesOnce
    <3> QED  BY <3>3, <3>4 DEF ComesOnce
  <2>7. NotAgain'
    BY <1>1, <2>1, <2>2, <2>3, <2>5 DEF NotAgain
  <2> QED  BY <2>6, <2>7
<1>5. ASSUME NEW n \in Names, FileFinished(n) PROVE ComesOnce' /\ NotAgain'
  <2> DEFINE p == folder.arriving[n]
  <2>1. /\ p # None /\ UNCHANGED <<coming, before, names>>
        /\ folder'.arriving = [folder.arriving EXCEPT ![n] = None]
        /\ folder'.finished = [folder.finished EXCEPT ![n] = p]
    BY <1>5 DEF FileFinished
  <2>2. \A m \in Names : /\ folder'.arriving[m] = IF m = n THEN None ELSE folder.arriving[m]
                         /\ folder'.finished[m] = IF m = n THEN p ELSE folder.finished[m]
    BY <1>2, <2>1
  <2>3. /\ <<"folder", p>> \notin coming
        /\ \A m \in Names : (m # n => folder.arriving[m] # p) /\ before.finished[m] # p
    BY <1>1, <2>1 DEF ComesOnce, NotAgain
  <2> HIDE DEF p
  <2>4. ComesOnce'
    BY <1>1, <2>1, <2>2, <2>3 DEF ComesOnce
  <2>5. NotAgain'
    BY <1>1, <1>2, <2>1, <2>2, <2>3 DEF NotAgain
  <2> QED  BY <2>4, <2>5
<1>6. ASSUME NEW n \in names, folder' = [folder EXCEPT !.finished[n] = None], TakeFromFolder
      PROVE  ComesOnce' /\ NotAgain'
  <2>1. /\ folder'.arriving = folder.arriving
        /\ folder'.finished = [folder.finished EXCEPT ![n] = None]
    BY <1>2, <1>6
  <2>2. \A m \in Names : folder'.finished[m] = IF m = n THEN None ELSE folder.finished[m]
    BY <1>2, <2>1
  <2>3. UNCHANGED coming /\ (UNCHANGED folder \/ (before' = NoFolder /\ names' = {}))
    BY <1>6 DEF TakeFromFolder, Disarmed
  <2>4. ComesOnce'
    BY <1>1, <2>1, <2>2, <2>3 DEF ComesOnce
  <2>5. CASE before' = NoFolder /\ names' = {}
    BY <2>4, <2>5 DEF NotAgain, NoFolder
  <2> QED  BY <1>3, <2>3, <2>4, <2>5
<1> QED  BY <1>3, <1>4, <1>5, <1>6, StepFolder

-----------------------------------------------------------------------------
(* Theorems. *)

\* The invariant holds however captures go, whatever is held and whatever name a
\* file takes.
THEOREM Invariant == Spec => []IInv
<1>1. IInv /\ [Next]_vars => IInv'
  <2> SUFFICES ASSUME IInv, [Next]_vars PROVE IInv'
    OBVIOUS
  <2>1. UnderWay'
    BY StepUnderWay DEF IInv
  <2>2. StagedInv'
    BY StepChecks DEF StagedInv
  <2> QED  BY <2>1, <2>2, StepType, StepRight, StepComes DEF IInv
<1> QED  BY InitIInv, <1>1, PTL DEF Spec

\* The variables keep their types.
THEOREM TypeCorrect == Spec => []TypeOK
<1>1. IInv => TypeOK
  BY DEF IInv
<1> QED  BY Invariant, <1>1, PTL

\* No document is ever in the place of another it can be told apart from, unless
\* its text was not read (_finish, identity.distinguish).
THEOREM RightInPlace == Spec => []RightOrNotTold
<1>1. IInv => RightOrNotTold
  BY DEF IInv
<1> QED  BY Invariant, <1>1, PTL

\* What takes a place was staged by the capture that puts it there, though what
\* an earlier one left was held, but for a page that then drew nothing (deliver,
\* place, render).
THEOREM StagedByItself == Spec => StagedNow
<1> DEFINE A == outcome # "saved" /\ outcome' = "saved" =>
                    staged[current][2] = press \/ uncleared
<1>1. IInv /\ [Next]_vars => [A]_vars
  <2> SUFFICES ASSUME IInv, [Next]_vars, outcome # "saved", outcome' = "saved"
               PROVE  staged[current][2] = press \/ uncleared
    OBVIOUS
  <2>1. Finish
    BY DEF Next, vars, Deliver, Place, Render, Drawn, NotDrawn, PartDrawn, Arrives, FileBegins,
           FileFinished, Read, ListFolder, TakeFromFolder, GiveUp, Cut, Over, Checks, Ends
  <2> QED  BY <2>1 DEF Finish, IInv, StagedInv
<1> HIDE DEF A
<1>2. Spec => [][A]_vars
  BY <1>1, Invariant, PTL DEF Spec
<1> QED  BY <1>2 DEF A, StagedNow

\* No file of the folder is taken that was there when the capture began, nor one
\* that was on its way, unless another download has its name by then
\* (take_new_pdf, earlier_finished).
THEOREM EarlierNotTaken == Spec => FolderTellsWhose
<1> DEFINE A ==
      \A n \in Names :
         LET p == folder.finished[n] IN
         p # None /\ folder'.finished[n] = None =>
             /\ p # before.finished[n]
             /\ \A m \in Names : before.arriving[m] = p => folder.arriving[m] \notin {None, p}
<1>1. IInv /\ [Next]_vars => [A]_vars
  <2> SUFFICES ASSUME IInv, [Next]_vars, NEW n \in Names,
                      folder.finished[n] # None, folder'.finished[n] = None
               PROVE  /\ folder.finished[n] # before.finished[n]
                      /\ \A m \in Names : before.arriving[m] = folder.finished[n] =>
                             folder.arriving[m] \notin {None, folder.finished[n]}
    OBVIOUS
  <2>1. /\ folder \in [arriving : [Names -> 0 .. press], finished : [Names -> 0 .. press]]
        /\ names \subseteq Names
    BY DEF IInv, TypeOK, Folders
  <2>2. ASSUME NEW p \in Presses, NEW m \in Names, FileBegins(p, m) PROVE FALSE
    <3>1. folder' = [folder EXCEPT !.arriving[m] = p]
      BY <2>2 DEF FileBegins
    <3>2. folder'.finished = folder.finished
      BY <2>1, <3>1
    <3> QED  BY <3>2
  <2>3. ASSUME NEW m \in Names, FileFinished(m) PROVE FALSE
    <3>1. /\ folder'.finished = [folder.finished EXCEPT ![m] = folder.arriving[m]]
          /\ folder.arriving[m] # None
      BY <2>3 DEF FileFinished
    <3> QED  BY <2>1, <3>1
  <2>4. PICK k \in names : folder' = [folder EXCEPT !.finished[k] = None] /\ TakeFromFolder
    BY <2>2, <2>3, StepFolder
  <2>5. n = k
    <3>1. folder'.finished = [folder.finished EXCEPT ![k] = None]
      BY <2>1, <2>4
    <3> QED  BY <2>1, <3>1
  <2>6. folder.finished[n] # before.finished[n]
    BY <2>4, <2>5 DEF IInv, NotAgain
  <2>7. ~EarlierFinished
    BY <2>4 DEF TakeFromFolder
  <2>8. ASSUME NEW m \in Names, before.arriving[m] = folder.finished[n]
        PROVE  folder.arriving[m] \notin {None, folder.finished[n]}
    BY <2>7, <2>8 DEF EarlierFinished, IInv, ComesOnce
  <2> QED  BY <2>6, <2>8
<1> HIDE DEF A
<1>2. Spec => [][A]_vars
  BY <1>1, Invariant, PTL DEF Spec
<1> QED  BY <1>2 DEF A, FolderTellsWhose

-----------------------------------------------------------------------------
(* A document that is the one asked for. *)

\* A document prints what its row says, and no rival's row says more that is its
\* own: what the check takes for granted of the rows it is to tell apart.
PrintsItsRow == \A d \in Docs : Marks[d] \subseteq Prints[d]

RowsAlike ==
    \A d \in Docs : Marks[d] # {} =>
        \A r \in Rivals[d] :
            LET rows == Rivals[d] \cup {d}
            IN Cardinality(Own(r, rows)) <= Cardinality(Own(d, rows))

\* Then the check takes it for no rival's, whatever else it prints.
LEMMA OwnIsNotRefused ==
    ASSUME PrintsItsRow, RowsAlike, NEW d \in Docs
    PROVE  ~Refuses(d, d)
<1> SUFFICES ASSUME Marks[d] # {} PROVE ~Refuses(d, d)
  BY DEF Refuses
<1>1. Marks[d] \cap Prints[d] # {} /\ Text(d) = Prints[d]
  BY DEF PrintsItsRow, Text
<1>2. ASSUME NEW r \in Rivals[d]
      PROVE  ~(Score(r, Rivals[d] \cup {d}, Prints[d]) > Score(d, Rivals[d] \cup {d}, Prints[d]))
  <2> DEFINE rows == Rivals[d] \cup {d}
  <2>1. /\ Own(r, rows) \subseteq Facts /\ Own(d, rows) \subseteq Facts
        /\ r \in Docs /\ IsFiniteSet(Facts)
    BY DeliveryAssumption DEF Own
  <2>2. Own(d, rows) \cap Prints[d] = Own(d, rows)
    BY DEF Own, PrintsItsRow
  <2>3. IsFiniteSet(Own(r, rows)) /\ IsFiniteSet(Own(d, rows))
    BY <2>1, FS_Subset
  <2>4. /\ Cardinality(Own(r, rows) \cap Prints[d]) <= Cardinality(Own(r, rows))
        /\ Cardinality(Own(r, rows) \cap Prints[d]) \in Nat
        /\ Cardinality(Own(r, rows)) \in Nat /\ Cardinality(Own(d, rows)) \in Nat
    <3>1. Own(r, rows) \cap Prints[d] \subseteq Own(r, rows)
      OBVIOUS
    <3>2. IsFiniteSet(Own(r, rows) \cap Prints[d])
      BY <2>3, <3>1, FS_Subset
    <3> QED  BY <2>3, <3>1, <3>2, FS_Subset, FS_CardinalityType
  <2>5. Cardinality(Own(r, rows)) <= Cardinality(Own(d, rows))
    BY DEF RowsAlike
  <2> HIDE DEF rows
  <2>6. ~(Score(r, rows, Prints[d]) > Score(d, rows, Prints[d]))
    BY <2>2, <2>4, <2>5 DEF Score
  <2> QED  BY <2>6 DEF rows
<1> QED  BY <1>1, <1>2 DEF Refuses

\* A document that prints what its row says is never refused as another's when it
\* is the one that was asked for, though it prints what other rows say beside
\* that, while no rival's row says more of its own (identity.distinguish).
THEOREM OwnTaken == ASSUME PrintsItsRow, RowsAlike PROVE Spec => OwnNotRefused
<1> DEFINE A == pc = "check" /\ outcome' = "wrong" => staged[current][1] # current
<1>1. IInv /\ [Next]_vars => [A]_vars
  <2> SUFFICES ASSUME IInv, [Next]_vars, pc = "check", outcome' = "wrong"
               PROVE  staged[current][1] # current
    OBVIOUS
  <2>1. outcome = "none" /\ current \in Docs
    BY DEF IInv, UnderWay, TypeOK
  <2>2. Finish
    BY <2>1
       DEF Next, vars, Deliver, Place, Render, Begins, Arrives, FileBegins, FileFinished, Read,
           ListFolder, TakeFromFolder, GiveUp, Cut, Over, Ends
  <2>3. Refuses(current, staged[current][1])
    BY <2>2 DEF Finish, Placed, Ends
  <2> QED  BY <2>1, <2>3, OwnIsNotRefused
<1> HIDE DEF A
<1>2. Spec => [][A]_vars
  BY <1>1, Invariant, PTL DEF Spec
<1> QED  BY <1>2 DEF A, OwnNotRefused

=============================================================================
