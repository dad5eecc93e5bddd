---------------------- MODULE RequestedStatements_proofs ----------------------
(***************************************************************************)
(* That a requested statement and the regular one of its month are never   *)
(* both taken, unless Citi takes a month back onto its regular list, and   *)
(* what a listing may call No Longer Listed, for any months and scopes.    *)
(***************************************************************************)
EXTENDS RequestedStatements, TLAPS

\* Once a requested statement has a record its month is off the regular list,
\* and the regular one was not saved and is never asked for again: it is marked
\* before the listing that found the other is over.
Apart(m) ==
    state[Requested(m)] # "unknown" =>
        /\ Regular(m) \notin onList /\ Regular(m) \notin listed
        /\ ~Held(Regular(m))
        /\ \/ state[Regular(m)] \in {"unknown", "unlisted"}
           \/ pc = "settle" /\ Requested(m) \in listed

\* The inductive invariant, with nothing listed before the lists came.
IInv ==
    /\ TypeOK
    /\ pc = "list" => listed = {}
    /\ \A m \in Months : Apart(m)

\* What one copy of a month rests on: Citi takes no month back onto its regular
\* list, and no run is cut short between recording a listing and settling it.
ListsOnce == ~Returns /\ MaxKills = 0

\* The two statements of a month are two documents.
LEMMA TwoKeys ==
    /\ \A m \in Months : Regular(m) \in Docs /\ Requested(m) \in Docs
    /\ \A m, n \in Months : Regular(m) # Requested(n)
    /\ \A m, n \in Months : Regular(m) = Regular(n) \/ Requested(m) = Requested(n) => m = n
    /\ \A m \in Months : ~IsRequested(Regular(m)) /\ IsRequested(Requested(m))
    /\ \A m \in Months : Regular(m)[1] = m /\ Requested(m)[1] = m
    /\ \A d \in Docs : d[1] \in Months /\ (d = Regular(d[1]) \/ d = Requested(d[1]))
  BY DEF Docs, Regular, Requested, IsRequested

\* A new install meets the invariant.
LEMMA InitIInv == Init => IInv
<1> SUFFICES ASSUME Init PROVE IInv
  OBVIOUS
<1>1. TypeOK
  BY StatementsAssumption, TwoKeys DEF Init, TypeOK, State
<1>2. ASSUME NEW m \in Months PROVE Apart(m)
  BY TwoKeys DEF Init, Apart
<1> QED  BY <1>1, <1>2 DEF IInv, Init

\* Recording a listing keeps the types of the records and of their days.
LEMMA RecordTypes ==
    ASSUME TypeOK, NEW R \in SUBSET Docs, Record(R)
    PROVE  /\ state' \in [Docs -> State]
           /\ past' \subseteq {m \in Months : state'[Requested(m)] # "unknown"}
           /\ \A d \in Docs : state[d] # "unknown" => state'[d] = state[d]
           /\ \A d \in Docs : state[d] = "unknown"
                => state'[d] = IF d \in R THEN "discovered" ELSE "unknown"
<1>1. state' = [d \in Docs |-> IF d \in R /\ state[d] = "unknown" THEN "discovered" ELSE state[d]]
  BY DEF Record
<1>2. \A d \in Docs : state'[d] = IF d \in R /\ state[d] = "unknown" THEN "discovered" ELSE state[d]
  BY <1>1
<1>3. state' \in [Docs -> State]
  BY <1>1 DEF TypeOK, State
<1>4. past' \subseteq {m \in Months : state'[Requested(m)] # "unknown"}
  BY <1>2, TwoKeys DEF Record, TypeOK
<1> QED  BY <1>2, <1>3, <1>4

\* Putting statements back keeps the types, and only a marked one changes.
LEMMA PutBackTypes ==
    ASSUME TypeOK, NEW B \in SUBSET ToPutBack
    PROVE  /\ PutBackIn(B) \in [Docs -> State]
           /\ \A d \in Docs : PutBackIn(B)[d] = IF d \in B THEN "discovered" ELSE state[d]
           /\ \A d \in B : d \in Docs /\ d \in listed /\ state[d] = "unlisted"
  BY DEF TypeOK, PutBackIn, State, ToPutBack, Unsettled

\* What is collected comes of what Citi lists, and a requested statement only
\* of a month its regular list does not have.
LEMMA CollectedRight ==
    ASSUME TypeOK, NEW ans
    PROVE  /\ Collected(ans) \in SUBSET Docs
           /\ Collected(ans) \subseteq onList
           /\ \A m \in Months : Requested(m) \in Collected(ans) => Regular(m) \notin onList
           /\ Recorded(Collected(ans)) \in SUBSET Docs
           /\ \A m \in Months : Requested(m) \in Recorded(Collected(ans))
                => Requested(m) \in Collected(ans) /\ ~Held(Regular(m))
<1>1. \A m \in Months : Requested(m) \in Recorded(Collected(ans)) => ~SavedBefore(Requested(m))
  BY TwoKeys DEF Recorded
<1>2. \A m \in Months : ~SavedBefore(Requested(m)) => ~Held(Regular(m))
  BY TwoKeys DEF SavedBefore, Kept, Held
<1> QED  BY <1>1, <1>2, TwoKeys DEF TypeOK, Collected, Recorded

-----------------------------------------------------------------------------
(* Types *)

\* Every step keeps the types.
LEMMA TypeStep == TypeOK /\ [Next]_vars => TypeOK'
<1> SUFFICES ASSUME TypeOK, [Next]_vars PROVE TypeOK'
  OBVIOUS
<1>1. ASSUME NEW s \in Scopes, NEW how, Start(s, how) PROVE TypeOK'
  BY <1>1 DEF Start, TypeOK
<1>2. ASSUME NEW ans \in {"read", "empty", "unread"}, ReadLists(ans) PROVE TypeOK'
  <2>1. Recorded(Collected(ans)) \in SUBSET Docs /\ Collected(ans) \in SUBSET Docs
    BY CollectedRight
  <2>2. /\ state' \in [Docs -> State]
        /\ past' \subseteq {m \in Months : state'[Requested(m)] # "unknown"}
        /\ \A d \in Docs : state[d] # "unknown" => state'[d] = state[d]
    BY <1>2, <2>1, RecordTypes DEF ReadLists
  <2> QED  BY <1>2, <2>1, <2>2 DEF ReadLists, TypeOK
<1>3. CASE ReadNothing
  BY <1>3 DEF ReadNothing, TypeOK
<1>4. ASSUME NEW d \in Docs, Mark(d) PROVE TypeOK'
  <2>1. PICK B \in SUBSET ToPutBack : state' = [PutBackIn(B) EXCEPT ![d] = "unlisted"]
    BY <1>4 DEF Mark
  <2>2. /\ PutBackIn(B) \in [Docs -> State]
        /\ \A e \in Docs : PutBackIn(B)[e] = IF e \in B THEN "discovered" ELSE state[e]
    BY PutBackTypes
  <2>3. \A e \in Docs : state'[e] = IF e = d THEN "unlisted" ELSE PutBackIn(B)[e]
    BY <2>1, <2>2
  <2>4. state' \in [Docs -> State]
    BY <2>1, <2>2 DEF State
  <2>5. \A e \in Docs : state[e] # "unknown" => state'[e] # "unknown"
    BY <2>2, <2>3
  <2> QED  BY <1>4, <2>4, <2>5, TwoKeys DEF Mark, TypeOK
<1>5. CASE Settled
  <2>1. /\ state' \in [Docs -> State]
        /\ \A e \in Docs : state'[e] = IF e \in ToPutBack THEN "discovered" ELSE state[e]
    BY <1>5, PutBackTypes DEF Settled
  <2> QED  BY <1>5, <2>1, TwoKeys DEF Settled, TypeOK
<1>6. ASSUME NEW d \in Docs, PassOver(d) PROVE TypeOK'
  BY <1>6 DEF PassOver, TypeOK
<1>7. ASSUME NEW d \in Docs, NEW s \in State \ {"unknown"}, Ends(d, s) PROVE TypeOK'
  <2>1. state' \in [Docs -> State]
    BY <1>7 DEF Ends, TypeOK
  <2>2. \A e \in Docs : state'[e] = IF e = d THEN s ELSE state[e]
    BY <1>7 DEF Ends, TypeOK
  <2> QED  BY <1>7, <2>1, <2>2, TwoKeys DEF Ends, TypeOK
<1>8. CASE Finish
  BY <1>8 DEF Finish, TypeOK
<1>9. CASE Cut
  <2>1. CASE \E ans \in {"read", "empty", "unread"} : \E R \in SUBSET Recorded(Collected(ans)) : Record(R)
    <3>1. PICK ans \in {"read", "empty", "unread"} :
            \E R \in SUBSET Recorded(Collected(ans)) : Record(R)
      BY <2>1
    <3>2. PICK R \in SUBSET Recorded(Collected(ans)) : Record(R)
      BY <3>1
    <3>3. R \in SUBSET Docs
      BY CollectedRight
    <3>4. state' \in [Docs -> State] /\ past' \subseteq {m \in Months : state'[Requested(m)] # "unknown"}
      BY <3>2, <3>3, RecordTypes
    <3> QED  BY <1>9, <3>4, StatementsAssumption DEF Cut, TypeOK
  <2>2. CASE UNCHANGED past /\ \E B \in SUBSET ToPutBack : state' = PutBackIn(B)
    <3>1. PICK B \in SUBSET ToPutBack : state' = PutBackIn(B)
      BY <2>2
    <3>2. /\ state' \in [Docs -> State]
          /\ \A e \in Docs : state'[e] = IF e \in B THEN "discovered" ELSE state[e]
      BY <3>1, PutBackTypes
    <3> QED  BY <1>9, <2>2, <3>2, TwoKeys, StatementsAssumption DEF Cut, TypeOK
  <2>3. CASE UNCHANGED <<state, past>>
    BY <1>9, <2>3, StatementsAssumption DEF Cut, TypeOK
  <2> QED  BY <1>9, <2>1, <2>2, <2>3 DEF Cut
<1>10. ASSUME NEW m \in Months, Drop(m) \/ Return(m) \/ Request(m) \/ TakeDown(m) PROVE TypeOK'
  BY <1>10, TwoKeys, StatementsAssumption DEF Drop, Return, Request, TakeDown, Change, TypeOK
<1>11. ASSUME NEW m \in Months, DayPasses(m) PROVE TypeOK'
  BY <1>11, TwoKeys, StatementsAssumption DEF DayPasses, Change, TypeOK
<1>12. ASSUME NEW d \in Docs, ReviewCopyPasses(d) \/ ReviewCopyGone(d) PROVE TypeOK'
  <2>1. /\ state' \in [Docs -> State]
        /\ \A e \in Docs : state[e] # "unknown" => state'[e] # "unknown"
    BY <1>12 DEF ReviewCopyPasses, ReviewCopyGone, TypeOK, State
  <2> QED  BY <1>12, <2>1, TwoKeys, StatementsAssumption
           DEF ReviewCopyPasses, ReviewCopyGone, Change, TypeOK
<1>13. CASE UNCHANGED vars
  BY <1>13 DEF vars, TypeOK
<1> QED
  BY <1>1, <1>2, <1>3, <1>4, <1>5, <1>6, <1>7, <1>8, <1>9, <1>10, <1>11, <1>12, <1>13
     DEF Next, Pass, MarkExpired, FetchSaves, FetchPutAside, FetchFails, State

-----------------------------------------------------------------------------
(* One copy of a month *)

\* Recording what was collected gives a requested statement a record only with
\* its month off the regular list and not saved, and leaves that one alone.
LEMMA RecordApart ==
    ASSUME TypeOK, NEW ans, NEW R \in SUBSET Recorded(Collected(ans)), Record(R),
           NEW m \in Months, Apart(m), state'[Requested(m)] # "unknown"
    PROVE  /\ Regular(m) \notin onList
           /\ ~Held(Regular(m))
           /\ state'[Regular(m)] = state[Regular(m)]
           /\ state[Requested(m)] = "unknown" => Requested(m) \in Collected(ans)
<1>1. R \in SUBSET Docs
  BY CollectedRight
<1>2. /\ \A d \in Docs : state[d] # "unknown" => state'[d] = state[d]
      /\ \A d \in Docs : state[d] = "unknown" => state'[d] = IF d \in R THEN "discovered" ELSE "unknown"
  BY <1>1, RecordTypes
<1>3. Regular(m) \in Docs /\ Requested(m) \in Docs
  BY TwoKeys
<1>4. CASE state[Requested(m)] = "unknown"
  <2>1. Requested(m) \in R
    BY <1>2, <1>3, <1>4
  <2>2. /\ Requested(m) \in Collected(ans) /\ ~Held(Regular(m))
        /\ Regular(m) \notin onList
    BY <2>1, CollectedRight
  <2>3. Regular(m) \notin R
    BY <2>2, CollectedRight DEF Recorded
  <2> QED  BY <1>2, <1>3, <2>2, <2>3
<1>5. CASE state[Requested(m)] # "unknown"
  <2>1. Regular(m) \notin onList /\ ~Held(Regular(m))
    BY <1>5 DEF Apart
  <2>2. Regular(m) \notin R
    BY <2>1, CollectedRight DEF Recorded
  <2> QED  BY <1>2, <1>3, <1>5, <2>1, <2>2
<1> QED  BY <1>4, <1>5

\* No step brings the two statements of a month together.
LEMMA ApartStep ==
    ASSUME ListsOnce, IInv, [Next]_vars, NEW m \in Months
    PROVE  Apart(m)'
<1> DEFINE r == Regular(m)
           q == Requested(m)
           Goal == /\ r \notin onList' /\ r \notin listed'
                   /\ state'[r] \notin {"saved", "reviewed"}
                   /\ \/ state'[r] \in {"unknown", "unlisted"}
                      \/ pc' = "settle" /\ q \in listed'
<1>k. TypeOK /\ Apart(m) /\ (pc = "list" => listed = {})
  BY DEF IInv
<1>d. /\ r \in Docs /\ q \in Docs /\ r # q /\ ~IsRequested(r) /\ IsRequested(q)
      /\ r[1] = m /\ q[1] = m
  BY TwoKeys
<1>a. state[q] # "unknown" =>
        /\ r \notin onList /\ r \notin listed /\ state[r] \notin {"saved", "reviewed"}
        /\ \/ state[r] \in {"unknown", "unlisted"}
           \/ pc = "settle" /\ q \in listed
  BY <1>k DEF Apart, Held
<1> SUFFICES ASSUME state'[q] # "unknown" PROVE Goal
  BY DEF Apart, Held
<1>1. ASSUME NEW s \in Scopes, NEW how, Start(s, how) PROVE Goal
  BY <1>1, <1>a DEF Start
<1>2. ASSUME NEW ans \in {"read", "empty", "unread"}, ReadLists(ans) PROVE Goal
  <2>1. Record(Recorded(Collected(ans))) /\ pc' = "settle" /\ listed' = Collected(ans)
        /\ onList' = onList /\ pc = "list"
    BY <1>2 DEF ReadLists
  <2>2. /\ r \notin onList /\ ~Held(r) /\ state'[r] = state[r]
        /\ state[q] = "unknown" => q \in Collected(ans)
    BY <1>k, <2>1, RecordApart
  <2>3. r \notin listed'
    BY <1>k, <2>1, <2>2, CollectedRight
  <2> QED  BY <1>a, <2>1, <2>2, <2>3 DEF Held
<1>3. CASE ReadNothing
  BY <1>3, <1>a DEF ReadNothing
<1>4. ASSUME NEW d \in Docs, Mark(d) PROVE Goal
  <2>1. PICK B \in SUBSET ToPutBack : state' = [PutBackIn(B) EXCEPT ![d] = "unlisted"]
    BY <1>4 DEF Mark
  <2>2. /\ PutBackIn(B) \in [Docs -> State]
        /\ \A e \in Docs : PutBackIn(B)[e] = IF e \in B THEN "discovered" ELSE state[e]
        /\ \A e \in B : e \in listed /\ state[e] = "unlisted"
    BY <1>k, PutBackTypes
  <2>3. \A e \in Docs : state'[e] = IF e = d THEN "unlisted" ELSE PutBackIn(B)[e]
    BY <2>1, <2>2
  <2>4. state[d] # "unknown"
    BY <1>4 DEF Mark, ToMark, Unsettled
  <2>5. state[q] # "unknown"
    BY <1>d, <2>2, <2>3, <2>4
  <2>6. r \notin B /\ state'[r] \in {state[r], "unlisted"}
    BY <1>a, <1>d, <2>2, <2>3, <2>5
  <2> QED  BY <1>4, <1>a, <2>5, <2>6 DEF Mark
<1>5. CASE Settled
  <2>1. /\ \A e \in Docs : state'[e] = IF e \in ToPutBack THEN "discovered" ELSE state[e]
        /\ \A e \in ToPutBack : e \in listed /\ state[e] = "unlisted"
    BY <1>5, <1>k, PutBackTypes DEF Settled
  <2>2. state[q] # "unknown"
    BY <1>d, <2>1
  <2>3. state'[r] = state[r]
    BY <1>a, <1>d, <2>1, <2>2
  <2>4. q \in listed => state[r] \in {"unknown", "unlisted"}
    <3>1. r \notin ToMark
      BY <1>5 DEF Settled
    <3>2. q \in listed => Gone(r)
      BY <1>a, <1>d, <2>2 DEF Gone
    <3> QED  BY <1>a, <1>d, <2>2, <3>1, <3>2 DEF ToMark, Unsettled, Kept
  <2> QED  BY <1>5, <1>a, <2>2, <2>3, <2>4 DEF Settled
<1>6. ASSUME NEW d \in Docs, PassOver(d) PROVE Goal
  BY <1>6, <1>a DEF PassOver
<1>7. ASSUME NEW d \in Docs, NEW s \in State, Ends(d, s) PROVE Goal
  <2>1. \A e \in Docs : state'[e] = IF e = d THEN s ELSE state[e]
    BY <1>7, <1>k DEF Ends, TypeOK
  <2>2. /\ state[d] \notin {"unknown", "unlisted"} /\ pc = "take"
        /\ pc' = pc /\ listed' = listed /\ onList' = onList
    BY <1>7, <1>k DEF Ends, TypeOK
  <2>3. state[q] # "unknown"
    BY <1>d, <2>1, <2>2
  <2>4. d # r
    BY <1>a, <2>2, <2>3
  <2> QED  BY <1>a, <1>d, <2>1, <2>2, <2>3, <2>4
<1>8. CASE Finish
  BY <1>8, <1>a DEF Finish
<1>9. CASE Cut
  BY <1>9, <1>k DEF Cut, TypeOK, ListsOnce
<1>10. ASSUME NEW n \in Months, Drop(n) \/ Return(n) \/ Request(n) \/ TakeDown(n) PROVE Goal
  <2>1. r # Requested(n)
    BY TwoKeys
  <2> QED  BY <1>10, <1>a, <2>1 DEF Drop, Return, Request, TakeDown, Change, ListsOnce
<1>11. ASSUME NEW n \in Months, DayPasses(n) PROVE Goal
  BY <1>11, <1>a DEF DayPasses, Change
<1>12. ASSUME NEW d \in Docs, ReviewCopyPasses(d) \/ ReviewCopyGone(d) PROVE Goal
  <2>1. /\ \A e \in Docs : e # d => state'[e] = state[e]
        /\ state[d] \in {"aside", "reviewed"} /\ pc # "settle"
    BY <1>12, <1>k DEF ReviewCopyPasses, ReviewCopyGone, TypeOK
  <2>2. state[q] # "unknown"
    BY <1>d, <2>1
  <2>3. d # r
    BY <1>a, <2>1, <2>2
  <2> QED  BY <1>12, <1>a, <1>d, <2>1, <2>2, <2>3 DEF ReviewCopyPasses, ReviewCopyGone, Change
<1>13. CASE UNCHANGED vars
  BY <1>13, <1>a DEF vars
<1>14. ASSUME NEW d \in Docs,
              \/ PassOver(d) \/ MarkExpired(d)
              \/ FetchSaves(d) \/ FetchPutAside(d) \/ FetchFails(d)
       PROVE  Goal
  <2>1. {"saved", "aside", "failed", "unlisted"} \subseteq State
    BY DEF State
  <2>2. CASE MarkExpired(d)
    BY <1>7, <2>1, <2>2 DEF MarkExpired, Expired
  <2>3. CASE FetchSaves(d) \/ FetchPutAside(d)
    BY <1>7, <2>1, <2>3 DEF FetchSaves, FetchPutAside
  <2>4. CASE FetchFails(d)
    BY <1>7, <2>1, <2>4 DEF FetchFails
  <2> QED  BY <1>6, <1>14, <2>2, <2>3, <2>4
<1> HIDE DEF Goal
<1> QED
  BY <1>1, <1>2, <1>3, <1>4, <1>5, <1>8, <1>9, <1>10, <1>11, <1>12, <1>13, <1>14
     DEF Next, Pass

\* Nothing is listed before the lists came.
LEMMA ListedStep == IInv /\ [Next]_vars => (pc = "list" => listed = {})'
<1> SUFFICES ASSUME IInv, [Next]_vars, pc' = "list" PROVE listed' = {}
  OBVIOUS
<1> QED
  BY DEF IInv, Next, vars, Start, ReadLists, ReadNothing, Mark, Settled, Pass, PassOver,
         MarkExpired, FetchSaves, FetchPutAside, FetchFails, Ends, Finish, Cut, Drop,
         Return, Request, TakeDown, DayPasses, ReviewCopyPasses,
         ReviewCopyGone, Change

\* Every step keeps the invariant.
LEMMA IInvStep == ListsOnce /\ IInv /\ [Next]_vars => IInv'
<1> SUFFICES ASSUME ListsOnce, IInv, [Next]_vars PROVE IInv'
  OBVIOUS
<1>1. TypeOK'
  BY TypeStep DEF IInv
<1>2. (pc = "list" => listed = {})'
  BY ListedStep
<1>3. \A m \in Months : Apart(m)'
  BY ApartStep
<1> QED  BY <1>1, <1>2, <1>3 DEF IInv

-----------------------------------------------------------------------------
(* What is called No Longer Listed *)

\* A record is marked by settling a listing, or by a run that finds its day has
\* passed.
LEMMA MarkedBy ==
    ASSUME TypeOK, [Next]_vars, NEW d \in Docs, state[d] # "unlisted", state'[d] = "unlisted"
    PROVE  Mark(d) \/ MarkExpired(d)
<1>1. state' # state
  OBVIOUS
<1>2. ASSUME NEW ans \in {"read", "empty", "unread"},
             NEW R \in SUBSET Recorded(Collected(ans)), Record(R)
      PROVE  FALSE
  <2>1. R \in SUBSET Docs
    BY CollectedRight
  <2>2. state'[d] \in {state[d], "discovered", "unknown"}
    BY <1>2, <2>1, RecordTypes
  <2> QED  BY <2>2
<1>3. ASSUME NEW B \in SUBSET ToPutBack
      PROVE  PutBackIn(B)[d] # "unlisted"
  BY PutBackTypes
<1>4. ASSUME NEW e \in Docs, Mark(e) PROVE e = d
  <2>1. PICK B \in SUBSET ToPutBack : state' = [PutBackIn(B) EXCEPT ![e] = "unlisted"]
    BY <1>4 DEF Mark
  <2> QED  BY <1>3, <2>1, PutBackTypes
<1>5. ASSUME NEW e \in Docs, NEW s, Ends(e, s) PROVE e = d /\ s = "unlisted"
  BY <1>5 DEF Ends, TypeOK
<1>6. ASSUME NEW e \in Docs, ReviewCopyPasses(e) \/ ReviewCopyGone(e) PROVE FALSE
  BY <1>6 DEF ReviewCopyPasses, ReviewCopyGone, TypeOK
<1>7. ~Cut
  BY <1>1, <1>2, <1>3 DEF Cut
<1>8. ASSUME NEW ans \in {"read", "empty", "unread"}, ReadLists(ans) PROVE FALSE
  BY <1>2, <1>8 DEF ReadLists
<1>9. ~Settled
  BY <1>3 DEF Settled
<1>10. ASSUME Pass PROVE MarkExpired(d)
  BY <1>1, <1>5, <1>10 DEF Pass, PassOver, MarkExpired
<1>11. ~\E e \in Docs : FetchSaves(e) \/ FetchPutAside(e) \/ FetchFails(e)
  BY <1>5 DEF FetchSaves, FetchPutAside, FetchFails
<1>12. /\ ~\E s \in Scopes, how \in {"list", "resume"} : Start(s, how)
       /\ ~(ReadNothing \/ Finish \/ UNCHANGED vars)
       /\ ~\E m \in Months : Drop(m) \/ Return(m) \/ Request(m) \/ TakeDown(m) \/ DayPasses(m)
  BY <1>1 DEF Start, ReadNothing, Finish, vars, Drop, Return, Request, TakeDown, DayPasses
<1> QED  BY <1>4, <1>6, <1>7, <1>8, <1>9, <1>10, <1>11, <1>12 DEF Next

\* What a run has still to take of what it listed is not marked, unless its day
\* has passed: settling the listing put it back.
ListedToTake ==
    \A d \in listed : pc = "take" /\ d \in todo /\ state[d] = "unlisted" => Expired(d)

\* Every step keeps that so.
LEMMA ListedToTakeStep ==
    TypeOK /\ ListedToTake /\ [Next]_vars => ListedToTake'
<1> SUFFICES ASSUME TypeOK, ListedToTake, [Next]_vars, NEW d \in listed', pc' = "take",
                    d \in todo', state'[d] = "unlisted"
             PROVE  Expired(d)'
  BY DEF ListedToTake
<1>1. d \in Docs
  <2>1. TypeOK'
    BY TypeStep
  <2> QED  BY <2>1 DEF TypeOK
<1>2. CASE Settled
  <2>1. pc = "settle" /\ listed' = listed /\ state' = PutBackIn(ToPutBack)
        /\ UNCHANGED <<past, answer>>
    BY <1>2 DEF Settled
  <2>2. d \in listed /\ d \notin ToPutBack /\ state[d] = "unlisted"
    BY <1>1, <2>1, PutBackTypes
  <2>3. Gone(d)
    BY <1>1, <2>2 DEF ToPutBack, Unsettled, Kept
  <2> QED  BY <2>1, <2>2, <2>3 DEF Gone, Expired
<1>3. ASSUME NEW s \in Scopes, NEW how, Start(s, how) PROVE FALSE
  BY <1>3 DEF Start
<1>4. CASE pc = "take" /\ listed' = listed /\ todo' \subseteq todo /\ past \subseteq past'
  <2>1. CASE state[d] = "unlisted"
    BY <1>4, <2>1 DEF ListedToTake, Expired
  <2>2. CASE state[d] # "unlisted"
    <3>1. MarkExpired(d)
      BY <1>1, <1>4, <2>2, MarkedBy DEF Mark
    <3> QED  BY <3>1 DEF MarkExpired, Ends
  <2> QED  BY <2>1, <2>2
<1>5. ASSUME ~Settled, ~\E s \in Scopes, how \in {"list", "resume"} : Start(s, how)
      PROVE  pc = "take" /\ listed' = listed /\ todo' \subseteq todo /\ past \subseteq past'
  BY <1>5 DEF Next, vars, ReadLists, ReadNothing, Mark, Pass, PassOver, MarkExpired,
         FetchSaves, FetchPutAside, FetchFails, Ends, Finish, Cut, Drop, Return, Request,
         TakeDown, DayPasses, ReviewCopyPasses, ReviewCopyGone, Change
<1> QED  BY <1>2, <1>3, <1>4, <1>5

-----------------------------------------------------------------------------
(* Theorems *)

\* Every variable keeps its type, whatever the lists are and however they come.
THEOREM TypeCorrect == Spec => []TypeOK
<1>1. Init => TypeOK
  BY InitIInv DEF IInv
<1> QED  BY <1>1, TypeStep, PTL DEF Spec

\* No month is kept twice, as a regular and as a requested statement, while
\* Citi's regular list takes no month back (_saved_months, _settle_requested).
THEOREM MonthKeptOnce == ASSUME ListsOnce PROVE Spec => []OneCopy
<1>1. IInv => OneCopy
  <2> SUFFICES ASSUME IInv, NEW m \in Months, Held(Regular(m)), Held(Requested(m)) PROVE FALSE
    BY DEF OneCopy
  <2> QED  BY DEF IInv, Apart, Held
<1>2. IInv /\ [Next]_vars => IInv'
  BY IInvStep
<1> QED  BY InitIInv, <1>1, <1>2, PTL DEF Spec

\* A kept statement is never called No Longer Listed, by a listing or by a run
\* that finds its day has passed (_kept).
THEOREM KeptStays == Spec => KeptNeverUnlisted
<1> DEFINE A == \A d \in Docs : Held(d) => state'[d] # "unlisted"
<1>1. TypeOK /\ [Next]_vars => [A]_vars
  BY MarkedBy DEF A, Mark, ToMark, Unsettled, MarkExpired, Ends, Kept, Held
<1> HIDE DEF A
<1>2. Spec => [][A]_vars
  BY <1>1, TypeCorrect, PTL DEF Spec
<1> QED  BY <1>2 DEF A, KeptNeverUnlisted

\* A requested list that did not come, or came empty, takes no statement off: one
\* whose day has not passed is marked only over a list that was read (Listing).
THEOREM UnreadTakesNoneOff == Spec => UnreadMarksNothing
<1> DEFINE A == \A m \in Months \ past :
                    state[Requested(m)] # "unlisted" /\ state'[Requested(m)] = "unlisted"
                        => answer = "read"
<1>1. TypeOK /\ [Next]_vars => [A]_vars
  <2> SUFFICES ASSUME TypeOK, [Next]_vars, NEW m \in Months \ past,
                      state[Requested(m)] # "unlisted", state'[Requested(m)] = "unlisted"
               PROVE  answer = "read"
    BY DEF A
  <2>1. Requested(m) \in Docs /\ Requested(m)[1] = m /\ IsRequested(Requested(m))
    BY TwoKeys
  <2>2. ~MarkExpired(Requested(m))
    BY <2>1 DEF MarkExpired, Expired
  <2>3. Mark(Requested(m))
    BY <2>1, <2>2, MarkedBy
  <2> QED  BY <2>1, <2>3 DEF Mark, ToMark, Gone
<1> HIDE DEF A
<1>2. Spec => [][A]_vars
  BY <1>1, TypeCorrect, PTL DEF Spec
<1> QED  BY <1>2 DEF A, UnreadMarksNothing

\* A run that lists never passes over as No Longer Listed what it found listed
\* itself, unless its day has passed (_settle_requested, _unlisted).
THEOREM ListedNotPassedOver == Spec => ListedIsTried
<1> DEFINE A == \A d \in listed : pc = "take" /\ d \in todo \ todo' /\ state'[d] = "unlisted"
                                    => Expired(d)
<1>1. TypeOK /\ ListedToTake /\ [Next]_vars => [A]_vars
  <2> SUFFICES ASSUME TypeOK, ListedToTake, [Next]_vars, NEW d \in listed, pc = "take",
                      d \in todo, state'[d] = "unlisted"
               PROVE  Expired(d)
    BY DEF A
  <2>1. d \in Docs
    BY DEF TypeOK
  <2>2. CASE state[d] = "unlisted"
    BY <2>2 DEF ListedToTake
  <2>3. CASE state[d] # "unlisted"
    BY <2>1, <2>3, MarkedBy DEF Mark, MarkExpired
  <2> QED  BY <2>2, <2>3
<1> HIDE DEF A
<1>2. Init => ListedToTake
  BY DEF Init, ListedToTake
<1>3. Spec => [](TypeOK /\ ListedToTake)
  BY <1>2, ListedToTakeStep, TypeCorrect, PTL DEF Spec
<1>4. Spec => [][A]_vars
  BY <1>1, <1>3, PTL DEF Spec
<1> QED  BY <1>4 DEF A, ListedIsTried
=============================================================================
