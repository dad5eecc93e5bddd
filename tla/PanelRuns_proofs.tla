---------------------------- MODULE PanelRuns_proofs ----------------------------
(***************************************************************************)
(* That no two processes work for one account, that a run's row says how   *)
(* it ended, and, where no run is left to finish by itself, that nothing   *)
(* runs during an import or in a removed app's folder, for any requests,   *)
(* accounts and apps.                                                      *)
(***************************************************************************)
EXTENDS PanelRuns, TLAPS

\* A request holds its account from its claim to its release, and alone.
Held(r) == pc[r] \in Holding => acct[r] \in claims
OneHolder == \A r, s \in Requests :
    r # s /\ pc[r] \in Holding /\ pc[s] \in Holding => acct[r] # acct[s]

\* Where a request's process and its move can be at work.
Stage(r) ==
    /\ proc[r] = "running" => pc[r] \in {"reading", "names", "finishing"}
    /\ mover[r] => pc[r] = "moving"
    /\ pc[r] = "off" => proc[r] = "none"
    /\ pc[r] \notin {"off", "done"} => proc[r] # "none"
    /\ pc[r] = "names" <=> kind[r] = "names" /\ pc[r] \notin {"off", "done"}
    /\ pc[r] \in {"finishing", "popping", "asking", "discarding"} => kind[r] = "apply"

\* What the stream has read of a run that it knows to have ended.
Read(r) ==
    /\ counts[r] => printed[r]
    /\ readAll[r] => proc[r] = "ended" /\ counts[r] = printed[r]
    /\ pc[r] \in {"wait", "ended", "moving", "moved", "noting", "noted"} =>
           proc[r] = "ended" /\ readAll[r]
    /\ row[r] # "none" => proc[r] \in {"ended", "cut"}

\* Whether a request has been noted, a row left or lost, by where it is.
Rows(r) ==
    /\ rows[r] + (IF r \in lost THEN 1 ELSE 0) =
           IF /\ kind[r] # "names" /\ proc[r] # "none"
              /\ pc[r] \in {"noted", "popping", "asking", "discarding", "done"}
           THEN 1 ELSE 0
    /\ kind[r] = "get" /\ row[r] = "code" => counts[r] = printed[r]

IInv ==
    /\ TypeOK
    /\ OneHolder
    /\ \A r \in Requests : Held(r) /\ Stage(r) /\ Read(r) /\ Rows(r)

\* The panel starts with nothing claimed.
LEMMA InitIInv == Init => IInv
<1> SUFFICES ASSUME Init PROVE IInv
  OBVIOUS
<1>1. TypeOK
  BY DEF Init, TypeOK, PCs
<1>2. OneHolder /\ \A r \in Requests : Held(r)
  BY DEF Init, OneHolder, Held, Holding
<1>3. \A r \in Requests : Stage(r) /\ Read(r)
  BY DEF Init, Stage, Read
<1>4. ASSUME NEW r \in Requests PROVE Rows(r)
  <2>1. rows[r] = 0 /\ r \notin lost /\ pc[r] = "off" /\ row[r] = "none"
    BY DEF Init
  <2> QED  BY <2>1 DEF Rows
<1> QED  BY <1>1, <1>2, <1>3, <1>4 DEF IInv

\* Every step keeps the variables' types.
LEMMA NextTypes == TypeOK /\ [Next]_vars => TypeOK'
<1> SUFFICES ASSUME TypeOK, [Next]_vars PROVE TypeOK'
  OBVIOUS
<1> USE DEF TypeOK, PCs, Holding, Go, App, Release, Note
<1>1. ASSUME NEW r \in Requests, Claim(r) PROVE TypeOK'
  BY <1>1, PanelAssumption DEF Claim
<1>2. ASSUME NEW r \in Requests, Refuse(r) PROVE TypeOK'
  BY <1>2, PanelAssumption DEF Refuse
<1>3. ASSUME NEW r \in Requests, ReadCounts(r) PROVE TypeOK'
  BY <1>3, PanelAssumption DEF ReadCounts
<1>4. ASSUME NEW r \in Requests, ReadEnd(r) PROVE TypeOK'
  BY <1>4, PanelAssumption DEF ReadEnd
<1>5. ASSUME NEW r \in Requests, WaitForEnd(r) PROVE TypeOK'
  BY <1>5, PanelAssumption DEF WaitForEnd
<1>6. ASSUME NEW r \in Requests, NoMove(r) PROVE TypeOK'
  BY <1>6, PanelAssumption DEF NoMove
<1>7. ASSUME NEW r \in Requests, MoveEnds(r) PROVE TypeOK'
  BY <1>7, PanelAssumption DEF MoveEnds
<1>8. ASSUME NEW r \in Requests, MarkNoted(r) PROVE TypeOK'
  BY <1>8, PanelAssumption DEF MarkNoted
<1>9. ASSUME NEW r \in Requests, NoteCode(r) PROVE TypeOK'
  BY <1>9, PanelAssumption DEF NoteCode
<1>10. ASSUME NEW r \in Requests, Close(r) PROVE TypeOK'
  BY <1>10, PanelAssumption DEF Close
<1>11. ASSUME NEW r \in Requests, LeaveToThread(r) PROVE TypeOK'
  BY <1>11, PanelAssumption DEF LeaveToThread
<1>12. ASSUME NEW r \in Requests, LeaveStopped(r) PROVE TypeOK'
  BY <1>12, PanelAssumption DEF LeaveStopped
<1>13. ASSUME NEW r \in Requests, FinishReading(r) PROVE TypeOK'
  BY <1>13, PanelAssumption DEF FinishReading
<1>14. ASSUME NEW r \in Requests, FinishPop(r) PROVE TypeOK'
  BY <1>14, PanelAssumption DEF FinishPop
<1>15. ASSUME NEW r \in Requests, FinishAsk(r) PROVE TypeOK'
  BY <1>15, PanelAssumption DEF FinishAsk
<1>16. ASSUME NEW r \in Requests, FinishDiscard(r) PROVE TypeOK'
  BY <1>16, PanelAssumption DEF FinishDiscard
<1>17. ASSUME NEW r \in Requests, NamesListed(r) PROVE TypeOK'
  BY <1>17, PanelAssumption DEF NamesListed
<1>18. ASSUME NEW r \in Requests, ProcEnds(r) PROVE TypeOK'
  BY <1>18, PanelAssumption DEF ProcEnds
<1>19. ASSUME NEW r \in Requests, StartMove(r) PROVE TypeOK'
  BY <1>19, PanelAssumption DEF StartMove
<1>20. ASSUME NEW r \in Requests, PageGoes(r) PROVE TypeOK'
  BY <1>20, PanelAssumption DEF PageGoes
<1>21. ASSUME NEW r \in Requests, ProcPrints(r) PROVE TypeOK'
  BY <1>21, PanelAssumption DEF ProcPrints
<1>22. CASE ImportBegins
  BY <1>22 DEF ImportBegins
<1>23. CASE ImportEnds
  <2>1. importing' \in BOOLEAN
    BY <1>23 DEF ImportEnds
  <2> QED  BY <1>23, <2>1 DEF ImportEnds
<1>24. ASSUME NEW a \in Apps, Remove(a) PROVE TypeOK'
  BY <1>24 DEF Remove
<1>25. CASE UNCHANGED vars
  BY <1>25 DEF vars
<1> QED
  BY <1>1, <1>2, <1>3, <1>4, <1>5, <1>6, <1>7, <1>8, <1>9, <1>10, <1>11, <1>12, <1>13, <1>14, <1>15, <1>16, <1>17, <1>18, <1>19, <1>20, <1>21, <1>22, <1>23, <1>24, <1>25 DEF Next, Runs

\* Every step keeps an account to one holder, and claimed while it is held.
LEMMA NextHolders == IInv /\ [Next]_vars => OneHolder' /\ (\A r \in Requests : Held(r)')
<1> SUFFICES ASSUME IInv, [Next]_vars PROVE OneHolder' /\ (\A r \in Requests : Held(r)')
  OBVIOUS
<1> USE DEF IInv, TypeOK, PCs, Go, Holding, OneHolder, Held, Release
<1>1. ASSUME NEW q \in Requests, Claim(q) PROVE OneHolder' /\ (\A r \in Requests : Held(r)')
  BY <1>1 DEF Claim, MayClaim
<1>2. ASSUME NEW q \in Requests, Refuse(q) PROVE OneHolder' /\ (\A r \in Requests : Held(r)')
  BY <1>2 DEF Refuse, MayClaim
<1>3. ASSUME NEW q \in Requests, ReadCounts(q) PROVE OneHolder' /\ (\A r \in Requests : Held(r)')
  BY <1>3 DEF ReadCounts
<1>4. ASSUME NEW q \in Requests, ReadEnd(q) PROVE OneHolder' /\ (\A r \in Requests : Held(r)')
  BY <1>4 DEF ReadEnd
<1>5. ASSUME NEW q \in Requests, WaitForEnd(q) PROVE OneHolder' /\ (\A r \in Requests : Held(r)')
  BY <1>5 DEF WaitForEnd
<1>6. ASSUME NEW q \in Requests, NoMove(q) PROVE OneHolder' /\ (\A r \in Requests : Held(r)')
  BY <1>6 DEF NoMove
<1>7. ASSUME NEW q \in Requests, MoveEnds(q) PROVE OneHolder' /\ (\A r \in Requests : Held(r)')
  BY <1>7 DEF MoveEnds
<1>8. ASSUME NEW q \in Requests, MarkNoted(q) PROVE OneHolder' /\ (\A r \in Requests : Held(r)')
  BY <1>8 DEF MarkNoted
<1>9. ASSUME NEW q \in Requests, NoteCode(q) PROVE OneHolder' /\ (\A r \in Requests : Held(r)')
  BY <1>9 DEF NoteCode
<1>10. ASSUME NEW q \in Requests, Close(q) PROVE OneHolder' /\ (\A r \in Requests : Held(r)')
  BY <1>10 DEF Close
<1>11. ASSUME NEW q \in Requests, LeaveToThread(q) PROVE OneHolder' /\ (\A r \in Requests : Held(r)')
  BY <1>11 DEF LeaveToThread, Leavable, FinishesLeft, Ended
<1>12. ASSUME NEW q \in Requests, LeaveStopped(q) PROVE OneHolder' /\ (\A r \in Requests : Held(r)')
  BY <1>12 DEF LeaveStopped, Leavable, FinishesLeft, Ended
<1>13. ASSUME NEW q \in Requests, FinishReading(q) PROVE OneHolder' /\ (\A r \in Requests : Held(r)')
  BY <1>13 DEF FinishReading
<1>14. ASSUME NEW q \in Requests, FinishPop(q) PROVE OneHolder' /\ (\A r \in Requests : Held(r)')
  BY <1>14 DEF FinishPop
<1>15. ASSUME NEW q \in Requests, FinishAsk(q) PROVE OneHolder' /\ (\A r \in Requests : Held(r)')
  BY <1>15 DEF FinishAsk
<1>16. ASSUME NEW q \in Requests, FinishDiscard(q) PROVE OneHolder' /\ (\A r \in Requests : Held(r)')
  BY <1>16 DEF FinishDiscard
<1>17. ASSUME NEW q \in Requests, NamesListed(q) PROVE OneHolder' /\ (\A r \in Requests : Held(r)')
  BY <1>17 DEF NamesListed
<1>18. ASSUME NEW q \in Requests, ProcEnds(q) PROVE OneHolder' /\ (\A r \in Requests : Held(r)')
  BY <1>18 DEF ProcEnds
<1>19. ASSUME NEW q \in Requests, StartMove(q) PROVE OneHolder' /\ (\A r \in Requests : Held(r)')
  BY <1>19 DEF StartMove
<1>20. ASSUME NEW q \in Requests, PageGoes(q) PROVE OneHolder' /\ (\A r \in Requests : Held(r)')
  BY <1>20 DEF PageGoes
<1>21. ASSUME NEW q \in Requests, ProcPrints(q) PROVE OneHolder' /\ (\A r \in Requests : Held(r)')
  BY <1>21 DEF ProcPrints
<1>22. CASE ImportBegins
  BY <1>22 DEF ImportBegins
<1>23. CASE ImportEnds
  BY <1>23 DEF ImportEnds
<1>24. ASSUME NEW a \in Apps, Remove(a) PROVE OneHolder' /\ (\A r \in Requests : Held(r)')
  BY <1>24 DEF Remove
<1>25. CASE UNCHANGED vars
  BY <1>25 DEF vars
<1> QED
  BY <1>1, <1>2, <1>3, <1>4, <1>5, <1>6, <1>7, <1>8, <1>9, <1>10, <1>11, <1>12, <1>13, <1>14, <1>15, <1>16, <1>17, <1>18, <1>19, <1>20, <1>21, <1>22, <1>23, <1>24, <1>25 DEF Next, Runs

\* Every step keeps processes to the stages they can be at work in.
LEMMA NextStages == IInv /\ [Next]_vars => \A r \in Requests : Stage(r)'
<1> SUFFICES ASSUME IInv, [Next]_vars PROVE \A r \in Requests : Stage(r)'
  OBVIOUS
<1> USE DEF IInv, TypeOK, PCs, Go, Stage, Read
<1>1. ASSUME NEW q \in Requests, Claim(q) PROVE \A r \in Requests : Stage(r)'
  BY <1>1 DEF Claim, MayClaim
<1>2. ASSUME NEW q \in Requests, Refuse(q) PROVE \A r \in Requests : Stage(r)'
  BY <1>2 DEF Refuse, MayClaim
<1>3. ASSUME NEW q \in Requests, ReadCounts(q) PROVE \A r \in Requests : Stage(r)'
  BY <1>3 DEF ReadCounts
<1>4. ASSUME NEW q \in Requests, ReadEnd(q) PROVE \A r \in Requests : Stage(r)'
  BY <1>4 DEF ReadEnd
<1>5. ASSUME NEW q \in Requests, WaitForEnd(q) PROVE \A r \in Requests : Stage(r)'
  BY <1>5 DEF WaitForEnd
<1>6. ASSUME NEW q \in Requests, NoMove(q) PROVE \A r \in Requests : Stage(r)'
  BY <1>6 DEF NoMove
<1>7. ASSUME NEW q \in Requests, MoveEnds(q) PROVE \A r \in Requests : Stage(r)'
  BY <1>7 DEF MoveEnds
<1>8. ASSUME NEW q \in Requests, MarkNoted(q) PROVE \A r \in Requests : Stage(r)'
  BY <1>8 DEF MarkNoted
<1>9. ASSUME NEW q \in Requests, NoteCode(q) PROVE \A r \in Requests : Stage(r)'
  BY <1>9 DEF NoteCode
<1>10. ASSUME NEW q \in Requests, Close(q) PROVE \A r \in Requests : Stage(r)'
  BY <1>10 DEF Close
<1>11. ASSUME NEW q \in Requests, LeaveToThread(q) PROVE \A r \in Requests : Stage(r)'
  BY <1>11 DEF LeaveToThread, Leavable, FinishesLeft, Ended
<1>12. ASSUME NEW q \in Requests, LeaveStopped(q) PROVE \A r \in Requests : Stage(r)'
  BY <1>12 DEF LeaveStopped, Leavable, FinishesLeft, Ended
<1>13. ASSUME NEW q \in Requests, FinishReading(q) PROVE \A r \in Requests : Stage(r)'
  BY <1>13 DEF FinishReading
<1>14. ASSUME NEW q \in Requests, FinishPop(q) PROVE \A r \in Requests : Stage(r)'
  BY <1>14 DEF FinishPop
<1>15. ASSUME NEW q \in Requests, FinishAsk(q) PROVE \A r \in Requests : Stage(r)'
  BY <1>15 DEF FinishAsk
<1>16. ASSUME NEW q \in Requests, FinishDiscard(q) PROVE \A r \in Requests : Stage(r)'
  BY <1>16 DEF FinishDiscard
<1>17. ASSUME NEW q \in Requests, NamesListed(q) PROVE \A r \in Requests : Stage(r)'
  BY <1>17 DEF NamesListed
<1>18. ASSUME NEW q \in Requests, ProcEnds(q) PROVE \A r \in Requests : Stage(r)'
  BY <1>18 DEF ProcEnds
<1>19. ASSUME NEW q \in Requests, StartMove(q) PROVE \A r \in Requests : Stage(r)'
  BY <1>19 DEF StartMove
<1>20. ASSUME NEW q \in Requests, PageGoes(q) PROVE \A r \in Requests : Stage(r)'
  BY <1>20 DEF PageGoes
<1>21. ASSUME NEW q \in Requests, ProcPrints(q) PROVE \A r \in Requests : Stage(r)'
  BY <1>21 DEF ProcPrints
<1>22. CASE ImportBegins
  BY <1>22 DEF ImportBegins
<1>23. CASE ImportEnds
  BY <1>23 DEF ImportEnds
<1>24. ASSUME NEW a \in Apps, Remove(a) PROVE \A r \in Requests : Stage(r)'
  BY <1>24 DEF Remove
<1>25. CASE UNCHANGED vars
  BY <1>25 DEF vars
<1> QED
  BY <1>1, <1>2, <1>3, <1>4, <1>5, <1>6, <1>7, <1>8, <1>9, <1>10, <1>11, <1>12, <1>13, <1>14, <1>15, <1>16, <1>17, <1>18, <1>19, <1>20, <1>21, <1>22, <1>23, <1>24, <1>25 DEF Next, Runs

\* Every step keeps what a run known to have ended has had read.
LEMMA NextReadings == IInv /\ [Next]_vars => \A r \in Requests : Read(r)'
<1> SUFFICES ASSUME IInv, [Next]_vars PROVE \A r \in Requests : Read(r)'
  OBVIOUS
<1> USE DEF IInv, TypeOK, PCs, Go, Stage, Read, Note
<1>1. ASSUME NEW q \in Requests, Claim(q) PROVE \A r \in Requests : Read(r)'
  BY <1>1 DEF Claim, MayClaim
<1>2. ASSUME NEW q \in Requests, Refuse(q) PROVE \A r \in Requests : Read(r)'
  BY <1>2 DEF Refuse, MayClaim
<1>3. ASSUME NEW q \in Requests, ReadCounts(q) PROVE \A r \in Requests : Read(r)'
  BY <1>3 DEF ReadCounts
<1>4. ASSUME NEW q \in Requests, ReadEnd(q) PROVE \A r \in Requests : Read(r)'
  BY <1>4 DEF ReadEnd
<1>5. ASSUME NEW q \in Requests, WaitForEnd(q) PROVE \A r \in Requests : Read(r)'
  BY <1>5 DEF WaitForEnd
<1>6. ASSUME NEW q \in Requests, NoMove(q) PROVE \A r \in Requests : Read(r)'
  BY <1>6 DEF NoMove
<1>7. ASSUME NEW q \in Requests, MoveEnds(q) PROVE \A r \in Requests : Read(r)'
  BY <1>7 DEF MoveEnds
<1>8. ASSUME NEW q \in Requests, MarkNoted(q) PROVE \A r \in Requests : Read(r)'
  BY <1>8 DEF MarkNoted
<1>9. ASSUME NEW q \in Requests, NoteCode(q) PROVE \A r \in Requests : Read(r)'
  BY <1>9 DEF NoteCode
<1>10. ASSUME NEW q \in Requests, Close(q) PROVE \A r \in Requests : Read(r)'
  BY <1>10 DEF Close
<1>11. ASSUME NEW q \in Requests, LeaveToThread(q) PROVE \A r \in Requests : Read(r)'
  BY <1>11 DEF LeaveToThread, Leavable, FinishesLeft, Ended
<1>12. ASSUME NEW q \in Requests, LeaveStopped(q) PROVE \A r \in Requests : Read(r)'
  BY <1>12 DEF LeaveStopped, Leavable, FinishesLeft, Ended
<1>13. ASSUME NEW q \in Requests, FinishReading(q) PROVE \A r \in Requests : Read(r)'
  BY <1>13 DEF FinishReading
<1>14. ASSUME NEW q \in Requests, FinishPop(q) PROVE \A r \in Requests : Read(r)'
  BY <1>14 DEF FinishPop
<1>15. ASSUME NEW q \in Requests, FinishAsk(q) PROVE \A r \in Requests : Read(r)'
  BY <1>15 DEF FinishAsk
<1>16. ASSUME NEW q \in Requests, FinishDiscard(q) PROVE \A r \in Requests : Read(r)'
  BY <1>16 DEF FinishDiscard
<1>17. ASSUME NEW q \in Requests, NamesListed(q) PROVE \A r \in Requests : Read(r)'
  BY <1>17 DEF NamesListed
<1>18. ASSUME NEW q \in Requests, ProcEnds(q) PROVE \A r \in Requests : Read(r)'
  BY <1>18 DEF ProcEnds
<1>19. ASSUME NEW q \in Requests, StartMove(q) PROVE \A r \in Requests : Read(r)'
  BY <1>19 DEF StartMove
<1>20. ASSUME NEW q \in Requests, PageGoes(q) PROVE \A r \in Requests : Read(r)'
  BY <1>20 DEF PageGoes
<1>21. ASSUME NEW q \in Requests, ProcPrints(q) PROVE \A r \in Requests : Read(r)'
  BY <1>21 DEF ProcPrints
<1>22. CASE ImportBegins
  BY <1>22 DEF ImportBegins
<1>23. CASE ImportEnds
  BY <1>23 DEF ImportEnds
<1>24. ASSUME NEW a \in Apps, Remove(a) PROVE \A r \in Requests : Read(r)'
  BY <1>24 DEF Remove
<1>25. CASE UNCHANGED vars
  BY <1>25 DEF vars
<1> QED
  BY <1>1, <1>2, <1>3, <1>4, <1>5, <1>6, <1>7, <1>8, <1>9, <1>10, <1>11, <1>12, <1>13, <1>14, <1>15, <1>16, <1>17, <1>18, <1>19, <1>20, <1>21, <1>22, <1>23, <1>24, <1>25 DEF Next, Runs

\* Every step keeps a run to the rows its stage has.
LEMMA NextRows == IInv /\ [Next]_vars => \A r \in Requests : Rows(r)'
<1> SUFFICES ASSUME IInv, [Next]_vars PROVE \A r \in Requests : Rows(r)'
  OBVIOUS
<1> USE DEF IInv, TypeOK, PCs, Go, Stage, Read, Rows, Note
<1>1. ASSUME NEW q \in Requests, Claim(q) PROVE \A r \in Requests : Rows(r)'
  BY <1>1 DEF Claim, MayClaim
<1>2. ASSUME NEW q \in Requests, Refuse(q) PROVE \A r \in Requests : Rows(r)'
  BY <1>2 DEF Refuse, MayClaim
<1>3. ASSUME NEW q \in Requests, ReadCounts(q) PROVE \A r \in Requests : Rows(r)'
  BY <1>3 DEF ReadCounts
<1>4. ASSUME NEW q \in Requests, ReadEnd(q) PROVE \A r \in Requests : Rows(r)'
  BY <1>4 DEF ReadEnd
<1>5. ASSUME NEW q \in Requests, WaitForEnd(q) PROVE \A r \in Requests : Rows(r)'
  BY <1>5 DEF WaitForEnd
<1>6. ASSUME NEW q \in Requests, NoMove(q) PROVE \A r \in Requests : Rows(r)'
  BY <1>6 DEF NoMove
<1>7. ASSUME NEW q \in Requests, MoveEnds(q) PROVE \A r \in Requests : Rows(r)'
  BY <1>7 DEF MoveEnds
<1>8. ASSUME NEW q \in Requests, MarkNoted(q) PROVE \A r \in Requests : Rows(r)'
  BY <1>8 DEF MarkNoted
<1>9. ASSUME NEW q \in Requests, NoteCode(q) PROVE \A r \in Requests : Rows(r)'
  BY <1>9 DEF NoteCode
<1>10. ASSUME NEW q \in Requests, Close(q) PROVE \A r \in Requests : Rows(r)'
  BY <1>10 DEF Close
<1>11. ASSUME NEW q \in Requests, LeaveToThread(q) PROVE \A r \in Requests : Rows(r)'
  BY <1>11 DEF LeaveToThread, Leavable, FinishesLeft, Ended
<1>12. ASSUME NEW q \in Requests, LeaveStopped(q) PROVE \A r \in Requests : Rows(r)'
  BY <1>12 DEF LeaveStopped, Leavable, FinishesLeft, Ended
<1>13. ASSUME NEW q \in Requests, FinishReading(q) PROVE \A r \in Requests : Rows(r)'
  BY <1>13 DEF FinishReading
<1>14. ASSUME NEW q \in Requests, FinishPop(q) PROVE \A r \in Requests : Rows(r)'
  BY <1>14 DEF FinishPop
<1>15. ASSUME NEW q \in Requests, FinishAsk(q) PROVE \A r \in Requests : Rows(r)'
  BY <1>15 DEF FinishAsk
<1>16. ASSUME NEW q \in Requests, FinishDiscard(q) PROVE \A r \in Requests : Rows(r)'
  BY <1>16 DEF FinishDiscard
<1>17. ASSUME NEW q \in Requests, NamesListed(q) PROVE \A r \in Requests : Rows(r)'
  BY <1>17 DEF NamesListed
<1>18. ASSUME NEW q \in Requests, ProcEnds(q) PROVE \A r \in Requests : Rows(r)'
  BY <1>18 DEF ProcEnds
<1>19. ASSUME NEW q \in Requests, StartMove(q) PROVE \A r \in Requests : Rows(r)'
  BY <1>19 DEF StartMove
<1>20. ASSUME NEW q \in Requests, PageGoes(q) PROVE \A r \in Requests : Rows(r)'
  BY <1>20 DEF PageGoes
<1>21. ASSUME NEW q \in Requests, ProcPrints(q) PROVE \A r \in Requests : Rows(r)'
  BY <1>21 DEF ProcPrints
<1>22. CASE ImportBegins
  BY <1>22 DEF ImportBegins
<1>23. CASE ImportEnds
  BY <1>23 DEF ImportEnds
<1>24. ASSUME NEW a \in Apps, Remove(a) PROVE \A r \in Requests : Rows(r)'
  BY <1>24 DEF Remove
<1>25. CASE UNCHANGED vars
  BY <1>25 DEF vars
<1> QED
  BY <1>1, <1>2, <1>3, <1>4, <1>5, <1>6, <1>7, <1>8, <1>9, <1>10, <1>11, <1>12, <1>13, <1>14, <1>15, <1>16, <1>17, <1>18, <1>19, <1>20, <1>21, <1>22, <1>23, <1>24, <1>25 DEF Next, Runs

\* No step cuts a Rename being applied, or leaves a run while its move goes.
LEMMA NextMoves == IInv /\ [Next]_vars => \A r \in Requests :
    /\ acct'[r] = acct[r]
    /\ kind[r] = "apply" => ~(proc[r] = "running" /\ proc'[r] = "cut")
    /\ mover[r] => pc'[r] \in Holding
<1> SUFFICES ASSUME IInv, [Next]_vars PROVE \A r \in Requests :
    /\ acct'[r] = acct[r]
    /\ kind[r] = "apply" => ~(proc[r] = "running" /\ proc'[r] = "cut")
    /\ mover[r] => pc'[r] \in Holding
  OBVIOUS
<1> USE DEF IInv, TypeOK, PCs, Go, Holding, Stage
<1>1. ASSUME NEW q \in Requests, Claim(q) PROVE \A r \in Requests :
    /\ acct'[r] = acct[r]
    /\ kind[r] = "apply" => ~(proc[r] = "running" /\ proc'[r] = "cut")
    /\ mover[r] => pc'[r] \in Holding
  BY <1>1 DEF Claim, MayClaim
<1>2. ASSUME NEW q \in Requests, Refuse(q) PROVE \A r \in Requests :
    /\ acct'[r] = acct[r]
    /\ kind[r] = "apply" => ~(proc[r] = "running" /\ proc'[r] = "cut")
    /\ mover[r] => pc'[r] \in Holding
  BY <1>2 DEF Refuse, MayClaim
<1>3. ASSUME NEW q \in Requests, ReadCounts(q) PROVE \A r \in Requests :
    /\ acct'[r] = acct[r]
    /\ kind[r] = "apply" => ~(proc[r] = "running" /\ proc'[r] = "cut")
    /\ mover[r] => pc'[r] \in Holding
  BY <1>3 DEF ReadCounts
<1>4. ASSUME NEW q \in Requests, ReadEnd(q) PROVE \A r \in Requests :
    /\ acct'[r] = acct[r]
    /\ kind[r] = "apply" => ~(proc[r] = "running" /\ proc'[r] = "cut")
    /\ mover[r] => pc'[r] \in Holding
  BY <1>4 DEF ReadEnd
<1>5. ASSUME NEW q \in Requests, WaitForEnd(q) PROVE \A r \in Requests :
    /\ acct'[r] = acct[r]
    /\ kind[r] = "apply" => ~(proc[r] = "running" /\ proc'[r] = "cut")
    /\ mover[r] => pc'[r] \in Holding
  BY <1>5 DEF WaitForEnd
<1>6. ASSUME NEW q \in Requests, NoMove(q) PROVE \A r \in Requests :
    /\ acct'[r] = acct[r]
    /\ kind[r] = "apply" => ~(proc[r] = "running" /\ proc'[r] = "cut")
    /\ mover[r] => pc'[r] \in Holding
  BY <1>6 DEF NoMove
<1>7. ASSUME NEW q \in Requests, MoveEnds(q) PROVE \A r \in Requests :
    /\ acct'[r] = acct[r]
    /\ kind[r] = "apply" => ~(proc[r] = "running" /\ proc'[r] = "cut")
    /\ mover[r] => pc'[r] \in Holding
  BY <1>7 DEF MoveEnds
<1>8. ASSUME NEW q \in Requests, MarkNoted(q) PROVE \A r \in Requests :
    /\ acct'[r] = acct[r]
    /\ kind[r] = "apply" => ~(proc[r] = "running" /\ proc'[r] = "cut")
    /\ mover[r] => pc'[r] \in Holding
  BY <1>8 DEF MarkNoted
<1>9. ASSUME NEW q \in Requests, NoteCode(q) PROVE \A r \in Requests :
    /\ acct'[r] = acct[r]
    /\ kind[r] = "apply" => ~(proc[r] = "running" /\ proc'[r] = "cut")
    /\ mover[r] => pc'[r] \in Holding
  BY <1>9 DEF NoteCode
<1>10. ASSUME NEW q \in Requests, Close(q) PROVE \A r \in Requests :
    /\ acct'[r] = acct[r]
    /\ kind[r] = "apply" => ~(proc[r] = "running" /\ proc'[r] = "cut")
    /\ mover[r] => pc'[r] \in Holding
  BY <1>10 DEF Close
<1>11. ASSUME NEW q \in Requests, LeaveToThread(q) PROVE \A r \in Requests :
    /\ acct'[r] = acct[r]
    /\ kind[r] = "apply" => ~(proc[r] = "running" /\ proc'[r] = "cut")
    /\ mover[r] => pc'[r] \in Holding
  BY <1>11 DEF LeaveToThread, Leavable, FinishesLeft, Ended
<1>12. ASSUME NEW q \in Requests, LeaveStopped(q) PROVE \A r \in Requests :
    /\ acct'[r] = acct[r]
    /\ kind[r] = "apply" => ~(proc[r] = "running" /\ proc'[r] = "cut")
    /\ mover[r] => pc'[r] \in Holding
  BY <1>12 DEF LeaveStopped, Leavable, FinishesLeft, Ended
<1>13. ASSUME NEW q \in Requests, FinishReading(q) PROVE \A r \in Requests :
    /\ acct'[r] = acct[r]
    /\ kind[r] = "apply" => ~(proc[r] = "running" /\ proc'[r] = "cut")
    /\ mover[r] => pc'[r] \in Holding
  BY <1>13 DEF FinishReading
<1>14. ASSUME NEW q \in Requests, FinishPop(q) PROVE \A r \in Requests :
    /\ acct'[r] = acct[r]
    /\ kind[r] = "apply" => ~(proc[r] = "running" /\ proc'[r] = "cut")
    /\ mover[r] => pc'[r] \in Holding
  BY <1>14 DEF FinishPop
<1>15. ASSUME NEW q \in Requests, FinishAsk(q) PROVE \A r \in Requests :
    /\ acct'[r] = acct[r]
    /\ kind[r] = "apply" => ~(proc[r] = "running" /\ proc'[r] = "cut")
    /\ mover[r] => pc'[r] \in Holding
  BY <1>15 DEF FinishAsk
<1>16. ASSUME NEW q \in Requests, FinishDiscard(q) PROVE \A r \in Requests :
    /\ acct'[r] = acct[r]
    /\ kind[r] = "apply" => ~(proc[r] = "running" /\ proc'[r] = "cut")
    /\ mover[r] => pc'[r] \in Holding
  BY <1>16 DEF FinishDiscard
<1>17. ASSUME NEW q \in Requests, NamesListed(q) PROVE \A r \in Requests :
    /\ acct'[r] = acct[r]
    /\ kind[r] = "apply" => ~(proc[r] = "running" /\ proc'[r] = "cut")
    /\ mover[r] => pc'[r] \in Holding
  BY <1>17 DEF NamesListed
<1>18. ASSUME NEW q \in Requests, ProcEnds(q) PROVE \A r \in Requests :
    /\ acct'[r] = acct[r]
    /\ kind[r] = "apply" => ~(proc[r] = "running" /\ proc'[r] = "cut")
    /\ mover[r] => pc'[r] \in Holding
  BY <1>18 DEF ProcEnds
<1>19. ASSUME NEW q \in Requests, StartMove(q) PROVE \A r \in Requests :
    /\ acct'[r] = acct[r]
    /\ kind[r] = "apply" => ~(proc[r] = "running" /\ proc'[r] = "cut")
    /\ mover[r] => pc'[r] \in Holding
  BY <1>19 DEF StartMove
<1>20. ASSUME NEW q \in Requests, PageGoes(q) PROVE \A r \in Requests :
    /\ acct'[r] = acct[r]
    /\ kind[r] = "apply" => ~(proc[r] = "running" /\ proc'[r] = "cut")
    /\ mover[r] => pc'[r] \in Holding
  BY <1>20 DEF PageGoes
<1>21. ASSUME NEW q \in Requests, ProcPrints(q) PROVE \A r \in Requests :
    /\ acct'[r] = acct[r]
    /\ kind[r] = "apply" => ~(proc[r] = "running" /\ proc'[r] = "cut")
    /\ mover[r] => pc'[r] \in Holding
  BY <1>21 DEF ProcPrints
<1>22. CASE ImportBegins
  BY <1>22 DEF ImportBegins
<1>23. CASE ImportEnds
  BY <1>23 DEF ImportEnds
<1>24. ASSUME NEW a \in Apps, Remove(a) PROVE \A r \in Requests :
    /\ acct'[r] = acct[r]
    /\ kind[r] = "apply" => ~(proc[r] = "running" /\ proc'[r] = "cut")
    /\ mover[r] => pc'[r] \in Holding
  BY <1>24 DEF Remove
<1>25. CASE UNCHANGED vars
  BY <1>25 DEF vars
<1> QED
  BY <1>1, <1>2, <1>3, <1>4, <1>5, <1>6, <1>7, <1>8, <1>9, <1>10, <1>11, <1>12, <1>13, <1>14, <1>15, <1>16, <1>17, <1>18, <1>19, <1>20, <1>21, <1>22, <1>23, <1>24, <1>25 DEF Next, Runs

\* Every step keeps the invariant.
LEMMA NextIInv == IInv /\ [Next]_vars => IInv'
<1> SUFFICES ASSUME IInv, [Next]_vars PROVE IInv'
  OBVIOUS
<1>1. TypeOK'
  BY NextTypes DEF IInv
<1> QED  BY <1>1, NextHolders, NextStages, NextReadings, NextRows DEF IInv

\* The invariant holds throughout.
THEOREM Invariant == Spec => []IInv
<1> QED  BY InitIInv, NextIInv, PTL DEF Spec

\* Every variable keeps its type (the panel's tables and its runs).
THEOREM TypeCorrect == Spec => []TypeOK
<1>1. IInv => TypeOK
  BY DEF IInv
<1> QED  BY <1>1, Invariant, PTL

\* "One run per account" (_start_run): never two processes at work for one.
THEOREM OneRunPerAccount == Spec => []OneRunEach
<1>1. IInv => OneRunEach
  BY DEF IInv, OneHolder, Stage, AtWork, OneRunEach, Holding, PCs
<1> QED  BY <1>1, Invariant, PTL

\* A run that started is noted once: one row in the run log, or none where it
\* could not be written (_start_run's note, _note_run).
THEOREM RowPerRun == Spec => []OneRowEach
<1>1. IInv => OneRowEach
  BY DEF IInv, Rows, OneRowEach
<1> QED  BY <1>1, Invariant, PTL

\* A download run's code is noted only with its counts read (_start_run's
\* finally).
THEOREM CodeIsRead == Spec => []CodeSaysHow
<1>1. IInv => CodeSaysHow
  BY DEF IInv, Rows, CodeSaysHow
<1> QED  BY <1>1, Invariant, PTL

\* A Rename being applied goes on when its page goes, and a move after a run
\* keeps its account claimed (_start_run's finally).
THEOREM LeftMoveGoesOn == Spec => MoveNeverCut
<1>1. IInv /\ [Next]_vars =>
        [\A r \in Requests :
           /\ kind[r] = "apply" => ~(proc[r] = "running" /\ proc'[r] = "cut")
           /\ mover[r] => acct[r] \in claims']_vars
  BY NextHolders, NextMoves DEF Held
<1> QED  BY <1>1, Invariant, PTL DEF Spec, MoveNeverCut

\* The apps with a claim, and they alone, are running; nothing is while an
\* import goes; and the folder of an app at work is where it was.
Alone ==
    /\ running = {AppOf[a] : a \in claims}
    /\ importing => running = {}
    /\ \A r \in Requests : pc[r] \in Holding => App(r) \notin gone

\* Letting a claim go keeps the apps with a claim running, and them alone.
LEMMA ReleasedApps ==
    ASSUME NEW a \in Accounts, running = {AppOf[b] : b \in claims}, Release(a)
    PROVE  running' = {AppOf[b] : b \in claims'} /\ running' \subseteq running
<1>1. CASE OtherClaim(a)
  <2>1. PICK b \in claims \ {a} : AppOf[b] = AppOf[a]
    BY <1>1 DEF OtherClaim
  <2>2. AppOf[b] \in {AppOf[c] : c \in claims \ {a}}
    BY <2>1
  <2>3. {AppOf[c] : c \in claims} = {AppOf[c] : c \in claims \ {a}}
    BY <2>1, <2>2
  <2> QED  BY <1>1, <2>3 DEF Release
<1>2. CASE ~OtherClaim(a)
  <2>1. \A b \in claims \ {a} : AppOf[b] # AppOf[a]
    BY <1>2 DEF OtherClaim
  <2>2. {AppOf[c] : c \in claims} \ {AppOf[a]} = {AppOf[c] : c \in claims \ {a}}
    BY <2>1
  <2> QED  BY <1>2, <2>2 DEF Release
<1> QED  BY <1>1, <1>2

\* Where no run is left to finish by itself, every step keeps the apps with a
\* claim running, no import beside them, and their folders where they are.
LEMMA NextAlone ==
    ASSUME "apply" \notin Kinds
    PROVE  IInv /\ Alone /\ [Next]_vars => Alone'
<1> SUFFICES ASSUME IInv, Alone, [Next]_vars, "apply" \notin Kinds PROVE Alone'
  OBVIOUS
<1> USE DEF IInv, TypeOK, PCs, Go, App, Holding, Stage, Held, Alone, MayImport
<1>0. \A r \in Requests : pc[r] \in Holding => App(r) \in running
  OBVIOUS
<1>1. ASSUME NEW q \in Requests, Claim(q) PROVE Alone'
  BY <1>1 DEF Claim, MayClaim
<1>2. ASSUME NEW q \in Requests, Refuse(q) PROVE Alone'
  <2>1. acct[q] \in Accounts
    OBVIOUS
  <2>2. running' = {AppOf[b] : b \in claims'} /\ running' \subseteq running
    <3>1. CASE MayClaim(q)
      BY <1>2, <3>1, <2>1, ReleasedApps DEF Refuse
    <3>2. CASE ~MayClaim(q)
      BY <1>2, <3>2 DEF Refuse
    <3> QED  BY <3>1, <3>2
  <2> QED  BY <1>2, <2>2 DEF Refuse
<1>3. ASSUME NEW q \in Requests, ReadCounts(q) PROVE Alone'
  BY <1>3 DEF ReadCounts
<1>4. ASSUME NEW q \in Requests, ReadEnd(q) PROVE Alone'
  BY <1>4 DEF ReadEnd
<1>5. ASSUME NEW q \in Requests, WaitForEnd(q) PROVE Alone'
  BY <1>5 DEF WaitForEnd
<1>6. ASSUME NEW q \in Requests, NoMove(q) PROVE Alone'
  BY <1>6 DEF NoMove
<1>7. ASSUME NEW q \in Requests, MoveEnds(q) PROVE Alone'
  BY <1>7 DEF MoveEnds
<1>8. ASSUME NEW q \in Requests, MarkNoted(q) PROVE Alone'
  BY <1>8 DEF MarkNoted
<1>9. ASSUME NEW q \in Requests, NoteCode(q) PROVE Alone'
  BY <1>9 DEF NoteCode
<1>10. ASSUME NEW q \in Requests, Close(q) PROVE Alone'
  <2>1. acct[q] \in Accounts
    OBVIOUS
  <2>2. running' = {AppOf[b] : b \in claims'} /\ running' \subseteq running
    BY <1>10, <2>1, ReleasedApps DEF Close
  <2> QED  BY <1>10, <2>2 DEF Close
<1>11. ASSUME NEW q \in Requests, LeaveToThread(q) PROVE Alone'
  BY <1>11 DEF LeaveToThread, Leavable, FinishesLeft, Ended
<1>12. ASSUME NEW q \in Requests, LeaveStopped(q) PROVE Alone'
  <2>1. acct[q] \in Accounts
    OBVIOUS
  <2>2. running' = {AppOf[b] : b \in claims'} /\ running' \subseteq running
    BY <1>12, <2>1, ReleasedApps DEF LeaveStopped
  <2> QED  BY <1>12, <2>2 DEF LeaveStopped, Leavable
<1>13. ASSUME NEW q \in Requests, FinishReading(q) PROVE Alone'
  BY <1>13 DEF FinishReading
<1>14. ASSUME NEW q \in Requests, FinishPop(q) PROVE Alone'
  BY <1>14 DEF FinishPop
<1>15. ASSUME NEW q \in Requests, FinishAsk(q) PROVE Alone'
  BY <1>15 DEF FinishAsk
<1>16. ASSUME NEW q \in Requests, FinishDiscard(q) PROVE Alone'
  BY <1>16 DEF FinishDiscard
<1>17. ASSUME NEW q \in Requests, NamesListed(q) PROVE Alone'
  <2>1. acct[q] \in Accounts
    OBVIOUS
  <2>2. running' = {AppOf[b] : b \in claims'} /\ running' \subseteq running
    BY <1>17, <2>1, ReleasedApps DEF NamesListed
  <2> QED  BY <1>17, <2>2 DEF NamesListed
<1>18. ASSUME NEW q \in Requests, ProcEnds(q) PROVE Alone'
  BY <1>18 DEF ProcEnds
<1>19. ASSUME NEW q \in Requests, StartMove(q) PROVE Alone'
  BY <1>19 DEF StartMove
<1>20. ASSUME NEW q \in Requests, PageGoes(q) PROVE Alone'
  BY <1>20 DEF PageGoes
<1>21. ASSUME NEW q \in Requests, ProcPrints(q) PROVE Alone'
  BY <1>21 DEF ProcPrints
<1>22. CASE ImportBegins
  BY <1>22 DEF ImportBegins
<1>23. CASE ImportEnds
  BY <1>23 DEF ImportEnds
<1>24. ASSUME NEW a \in Apps, Remove(a) PROVE Alone'
  BY <1>24, <1>0 DEF Remove
<1>25. CASE UNCHANGED vars
  BY <1>25 DEF vars
<1> QED
  BY <1>1, <1>2, <1>3, <1>4, <1>5, <1>6, <1>7, <1>8, <1>9, <1>10, <1>11, <1>12, <1>13, <1>14, <1>15, <1>16, <1>17, <1>18, <1>19, <1>20, <1>21, <1>22, <1>23, <1>24, <1>25 DEF Next, Runs

\* Nothing runs during an import, while no run is left to finish by itself
\* (api_history_import and _start_run, each asking the other).
THEOREM ImportRunsAlone ==
    ASSUME "apply" \notin Kinds
    PROVE  Spec => []ImportAlone
<1>1. Init => Alone
  BY DEF Init, Alone, Holding
<1>2. IInv /\ Alone /\ [Next]_vars => Alone'
  BY NextAlone
<1>3. IInv /\ Alone => ImportAlone
  <2> SUFFICES ASSUME IInv, Alone, importing, NEW r \in Requests, AtWork(r)
               PROVE  FALSE
    BY DEF ImportAlone
  <2>1. acct[r] \in claims
    BY DEF IInv, TypeOK, AtWork, Stage, Held, Holding, PCs
  <2>2. AppOf[acct[r]] \in running
    BY <2>1 DEF Alone
  <2> QED  BY <2>2 DEF Alone
<1> QED  BY <1>1, <1>2, <1>3, Invariant, PTL DEF Spec

\* No app's folder is removed from under its run, while no run is left to
\* finish by itself (api_remove).
THEOREM FolderNotRemoved ==
    ASSUME "apply" \notin Kinds
    PROVE  Spec => []FolderStays
<1>1. Init => Alone
  BY DEF Init, Alone, Holding
<1>2. IInv /\ Alone /\ [Next]_vars => Alone'
  BY NextAlone
<1>3. IInv /\ Alone => FolderStays
  BY DEF IInv, TypeOK, Alone, FolderStays, AtWork, Stage, Holding, PCs
<1> QED  BY <1>1, <1>2, <1>3, Invariant, PTL DEF Spec

================================================================================
