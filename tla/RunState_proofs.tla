---------------------------- MODULE RunState_proofs ----------------------------
(***************************************************************************)
(* Proofs about RunState, for any records and any number of refused reads  *)
(* and writes, broken files and copies.                                    *)
(***************************************************************************)
EXTENDS RunState, SequenceTheorems, FiniteSetTheorems, TLAPS

\* What a file that is copied, or taken from the copies, may hold.
Copyable == (SUBSET Keys) \cup {Broken}

Loading == {"load", "copy", "recover"}
Running == {"run", "backup", "save", "leave"}

\* A file is copied only when it is there; of the copies that hold records one
\* is the newest.
CopyInv ==
    /\ pc \in {"copy", "backup"} => file # Missing
    /\ WholeCopies # {} => \E i \in WholeCopies : \A j \in WholeCopies : j <= i

\* What was written is in memory or in a copy while the run may write memory
\* over the file, and in a copy once the file was given up.
AckedInv ==
    /\ KeptSomewhere
    /\ pc = "recover" => acked \subseteq Copied
    /\ pc \in Running => acked \subseteq mem \cup Copied

\* As long as no load was refused too much, the file has all that was written,
\* or, broken, its newest copy has, and with it the memory of a run.
KnowInv ==
    /\ file = Missing => acked = {}
    /\ pc = "load" => refused = 0
    /\ pc \in {"copy", "recover"} => refused = IF Whole(file) THEN 1 ELSE 0
    /\ trusted => /\ acked \subseteq IF Whole(file) THEN file ELSE Newest
                  /\ pc = "recover" => acked \subseteq Newest
                  /\ pc \in Running => acked \subseteq mem

\* What counts as written is what the file holds, or is not known.
WrittenInv ==
    /\ pc \in Loading => written = Unknown
    /\ pc \in Running => written \in {Unknown, file}
    /\ ended => pc = "off"
    /\ EndsWrittenOrSaid

IInv == TypeOK /\ CopyInv /\ AckedInv /\ KnowInv /\ WrittenInv

-----------------------------------------------------------------------------
(* Copies. *)

\* What is broken or missing holds no records.
LEMMA NotWhole == ~Whole(Broken) /\ ~Whole(Missing) /\ Broken # Missing
  BY RunStateAssumption DEF Whole, Broken, Missing

\* The newest copy is a copy, and of no copies there is none.
LEMMA NewestIsCopy ==
    ASSUME TypeOK, CopyInv
    PROVE  /\ Newest \subseteq Copied /\ Copied \subseteq Keys
           /\ WholeCopies = {} => Newest = {} /\ Copied = {}
           /\ \A i \in WholeCopies :
                  (\A j \in WholeCopies : j <= i) => Newest = backups[i]
<1>1. \A i \in WholeCopies : backups[i] \subseteq Keys /\ i \in Nat
  BY ElementOfSeq, LenProperties DEF TypeOK, WholeCopies, Whole
<1>2. Copied \subseteq Keys
  BY <1>1 DEF Copied
<1>3. CASE WholeCopies = {}
  BY <1>2, <1>3 DEF Newest, Copied
<1>4. CASE WholeCopies # {}
  <2>1. PICK i \in WholeCopies : \A j \in WholeCopies : j <= i
    BY <1>4 DEF CopyInv
  <2> DEFINE m == CHOOSE k \in WholeCopies : \A j \in WholeCopies : j <= k
  <2>2. m \in WholeCopies /\ \A j \in WholeCopies : j <= m
    BY <2>1
  <2>3. Newest = backups[m]
    BY <1>4 DEF Newest
  <2> HIDE DEF m
  <2>4. ASSUME NEW k \in WholeCopies, \A j \in WholeCopies : j <= k PROVE k = m
    BY <2>2, <2>4, <1>1
  <2>5. backups[m] \subseteq Copied
    BY <2>2 DEF Copied
  <2> QED  BY <1>2, <1>4, <2>3, <2>4, <2>5
<1> QED  BY <1>3, <1>4

\* A copy made of a file that holds records is the newest and adds them; one of
\* a broken file changes nothing (backup_file).
LEMMA CopyMade ==
    ASSUME TypeOK, CopyInv, NEW f \in Copyable, backups' = Append(backups, f)
    PROVE  /\ backups' \in Seq(Copyable)
           /\ Whole(f) => Newest' = f /\ Copied' = Copied \cup f
           /\ ~Whole(f) => Newest' = Newest /\ Copied' = Copied
           /\ WholeCopies' # {} =>
                  \E i \in WholeCopies' : \A j \in WholeCopies' : j <= i
<1> DEFINE n == Len(backups)
<1>1. /\ backups \in Seq(Copyable) /\ n \in Nat /\ DOMAIN backups = 1 .. n
      /\ backups' \in Seq(Copyable) /\ DOMAIN backups' = 1 .. n + 1
      /\ \A i \in 1 .. n : backups'[i] = backups[i]
      /\ backups'[n + 1] = f
  <2>1. backups \in Seq(Copyable)
    BY DEF TypeOK, Copyable
  <2>2. n \in Nat /\ DOMAIN backups = 1 .. n
    BY <2>1, LenProperties
  <2>3. /\ Append(backups, f) \in Seq(Copyable)
        /\ Len(Append(backups, f)) = n + 1
        /\ \A i \in 1 .. n : Append(backups, f)[i] = backups[i]
        /\ Append(backups, f)[n + 1] = f
    BY <2>1, AppendProperties
  <2>4. DOMAIN backups' = 1 .. n + 1
    BY <2>3, LenProperties
  <2> QED  BY <2>1, <2>2, <2>3, <2>4
<1> HIDE DEF n
<1>2. CASE Whole(f)
  <2>1. WholeCopies' = WholeCopies \cup {n + 1}
    BY <1>1, <1>2 DEF WholeCopies, Whole
  <2>2. \A j \in WholeCopies' : j <= n + 1 /\ j \in Nat
    BY <1>1, <2>1 DEF WholeCopies
  <2> DEFINE m == CHOOSE k \in WholeCopies' : \A j \in WholeCopies' : j <= k
  <2>3. m \in WholeCopies' /\ \A j \in WholeCopies' : j <= m
    BY <2>1, <2>2
  <2>4. Newest' = backups'[m]
    BY <2>1 DEF Newest
  <2> HIDE DEF m
  <2>5. m = n + 1
    <3>1. m <= n + 1 /\ n + 1 <= m /\ m \in Nat
      BY <2>1, <2>2, <2>3
    <3>2. n \in Nat
      BY <1>1
    <3> QED  BY <3>1, <3>2
  <2>6. Copied' = Copied \cup f
    <3>1. \A i \in WholeCopies : backups'[i] = backups[i]
      BY <1>1 DEF WholeCopies
    <3> QED  BY <1>1, <2>1, <3>1 DEF Copied
  <2> QED  BY <1>1, <1>2, <2>1, <2>2, <2>4, <2>5, <2>6
<1>3. CASE ~Whole(f)
  <2>1. WholeCopies' = WholeCopies
    BY <1>1, <1>3 DEF WholeCopies, Whole
  <2>2. \A i \in WholeCopies : backups'[i] = backups[i]
    BY <1>1 DEF WholeCopies
  <2>3. Copied' = Copied
    BY <2>1, <2>2 DEF Copied
  <2>4. Newest' = Newest
    <3>1. CASE WholeCopies = {}
      BY <2>1, <3>1 DEF Newest
    <3>2. CASE WholeCopies # {}
      <4> DEFINE m == CHOOSE k \in WholeCopies : \A j \in WholeCopies : j <= k
      <4>1. m \in WholeCopies
        BY <3>2 DEF CopyInv
      <4>2. Newest = backups[m] /\ Newest' = backups'[m]
        BY <2>1, <3>2 DEF Newest
      <4> HIDE DEF m
      <4> QED  BY <2>2, <4>1, <4>2
    <3> QED  BY <3>1, <3>2
  <2> QED  BY <1>1, <1>3, <2>1, <2>3, <2>4 DEF CopyInv
<1> QED  BY <1>2, <1>3

\* Copies that are left alone are what they were.
LEMMA CopiesLeft ==
    backups' = backups => WholeCopies' = WholeCopies /\ Newest' = Newest /\ Copied' = Copied
<1> SUFFICES ASSUME backups' = backups
             PROVE  WholeCopies' = WholeCopies /\ Newest' = Newest /\ Copied' = Copied
  OBVIOUS
<1>1. WholeCopies' = WholeCopies
  BY DEF WholeCopies, Whole
<1> QED  BY <1>1 DEF Newest, Copied

\* How many copies a load passes over is a number, and none when it takes the
\* newest.
LEMMA PassedOverCount ==
    ASSUME TypeOK, CopyInv, NEW i \in WholeCopies \cup {0}
    PROVE  /\ Cardinality(PassedOver(i)) \in Nat
           /\ Cardinality(PassedOver(i)) = 0
                  => Newest = IF i = 0 THEN {} ELSE backups[i]
<1>1. DOMAIN backups = 1 .. Len(backups) /\ Len(backups) \in Nat
  BY LenProperties DEF TypeOK
<1>2. IsFiniteSet(1 .. Len(backups))
  BY <1>1, FS_Interval
<1>3. PassedOver(i) \subseteq 1 .. Len(backups)
  BY <1>1 DEF PassedOver, WholeCopies
<1>4. IsFiniteSet(PassedOver(i))
  BY <1>2, <1>3, FS_Subset
<1>5. Cardinality(PassedOver(i)) \in Nat
  BY <1>4, FS_CardinalityType
<1>6. ASSUME Cardinality(PassedOver(i)) = 0
      PROVE  Newest = IF i = 0 THEN {} ELSE backups[i]
  <2>1. PassedOver(i) = {}
    BY <1>4, <1>6, FS_EmptySet
  <2>2. \A j \in WholeCopies : j <= i /\ j # 0
    BY <1>1, <2>1 DEF PassedOver, WholeCopies
  <2>3. CASE i = 0
    <3>1. WholeCopies = {}
      BY <1>1, <2>2, <2>3 DEF WholeCopies
    <3> QED  BY <2>3, <3>1 DEF Newest
  <2>4. CASE i # 0
    BY <2>2, <2>4, NewestIsCopy
  <2> QED  BY <2>3, <2>4
<1> QED  BY <1>5, <1>6

-----------------------------------------------------------------------------
(* The invariant. *)

LEMMA InitIInv == Init => IInv
<1> SUFFICES ASSUME Init PROVE IInv
  OBVIOUS
<1>1. TypeOK
  <2>1. faults \in 0 .. MaxFaults /\ breaks \in 0 .. MaxBreaks
    BY RunStateAssumption DEF Init
  <2>2. backups \in Seq((SUBSET Keys) \cup {Broken})
    BY DEF Init
  <2> QED  BY <2>1, <2>2 DEF Init, TypeOK
<1>2. WholeCopies = {}
  BY DEF Init, WholeCopies
<1>3. CopyInv
  BY <1>2 DEF Init, CopyInv
<1>4. AckedInv
  BY DEF Init, AckedInv, KeptSomewhere, Running
<1>5. KnowInv
  BY DEF Init, KnowInv, Running
<1>6. WrittenInv
  BY DEF Init, WrittenInv, EndsWrittenOrSaid, Running, Loading
<1> QED  BY <1>1, <1>3, <1>4, <1>5, <1>6 DEF IInv

\* The types hold on.
LEMMA StepType == IInv /\ [Next]_vars => TypeOK'
<1> SUFFICES ASSUME IInv, [Next]_vars PROVE TypeOK'
  OBVIOUS
<1> USE DEF TypeOK
<1>1. TypeOK /\ CopyInv
  BY DEF IInv
<1>2. \A n \in Nat : Fault(n) => faults' \in 0 .. MaxFaults
  BY <1>1, RunStateAssumption DEF Fault
<1>3. CASE Start
  BY <1>1, <1>3 DEF Start, Unknown
<1>4. CASE Load
  BY <1>1, <1>4 DEF Load, Whole, history
<1>5. CASE CannotLoad
  BY <1>1, <1>2, <1>5 DEF CannotLoad
<1>6. CASE BackUpUnread
  <2>1. file \in Copyable /\ backups' = Append(backups, file)
    BY <1>1, <1>6 DEF BackUpUnread, CopyTo, CopyInv, Copyable
  <2>2. backups' \in Seq((SUBSET Keys) \cup {Broken})
    BY <1>1, <2>1, CopyMade DEF Copyable
  <2> QED  BY <1>1, <1>6, <2>2 DEF BackUpUnread, history
<1>7. CASE CannotBackUp
  BY <1>1, <1>2, <1>7 DEF CannotBackUp, history
<1>8. ASSUME NEW i \in WholeCopies \cup {0}, Recover(i) PROVE TypeOK'
  <2>1. Cardinality(PassedOver(i)) \in Nat
    BY <1>1, PassedOverCount
  <2>2. (IF i = 0 THEN {} ELSE backups[i]) \subseteq Keys
    BY <1>1 DEF WholeCopies, Whole
  <2>3. faults' \in 0 .. MaxFaults /\ refused' \in Nat
    BY <1>1, <1>2, <1>8, <2>1 DEF Recover
  <2>4. trusted' \in BOOLEAN
    BY <1>1, <1>8 DEF Recover
  <2> QED  BY <1>1, <1>8, <2>2, <2>3, <2>4 DEF Recover
<1>9. ASSUME NEW k \in Keys, Update(k) PROVE TypeOK'
  BY <1>1, <1>9 DEF Update, history
<1>10. CASE SaveWithBackup
  BY <1>1, <1>10 DEF SaveWithBackup, BacksUp, history
<1>11. CASE BackUp
  <2>1. backups' \in Seq((SUBSET Keys) \cup {Broken})
    <3>1. CASE backups' = CopyTo(backups)
      <4>1. file \in Copyable /\ backups' = Append(backups, file)
        BY <1>1, <1>11, <3>1 DEF BackUp, CopyTo, CopyInv, Copyable
      <4> QED  BY <1>1, <4>1, CopyMade DEF Copyable
    <3>2. CASE UNCHANGED backups
      BY <1>1, <3>2
    <3> QED  BY <1>11, <3>1, <3>2 DEF BackUp
  <2> QED  BY <1>1, <1>2, <1>11, <2>1 DEF BackUp, history
<1>12. CASE Save
  BY <1>1, <1>2, <1>12 DEF Save, WrittenBefore, history
<1>13. CASE Finish
  BY <1>1, <1>13 DEF Finish, history
<1>14. CASE Leave
  BY <1>1, <1>2, <1>14 DEF Leave
<1>15. CASE Crash
  <2>1. backups' \in Seq((SUBSET Keys) \cup {Broken})
    <3>1. backups' = backups \/ backups' = Append(backups, Broken)
      BY <1>15 DEF Crash, CrashCopies
    <3>2. Broken \in Copyable
      BY DEF Copyable
    <3> QED  BY <1>1, <3>1, <3>2, CopyMade DEF Copyable
  <2> QED  BY <1>1, <1>15, <2>1 DEF Crash, CrashLeaves, history
<1>16. CASE Break
  <2>1. breaks' \in 0 .. MaxBreaks
    BY <1>1, <1>16, RunStateAssumption DEF Break
  <2>2. acked' \subseteq Keys
    BY <1>1, <1>16 DEF Break
  <2> QED  BY <1>1, <1>16, <2>1, <2>2 DEF Break
<1>17. CASE UNCHANGED vars
  BY <1>1, <1>17 DEF vars, history
<1> QED
  BY <1>3, <1>4, <1>5, <1>6, <1>7, <1>8, <1>9, <1>10, <1>11, <1>12, <1>13, <1>14, <1>15,
     <1>16, <1>17 DEF Next

\* A step leaves the copies, or the file is copied in one of the two places that
\* do, or part of it is when the run is killed there.
LEMMA StepCopies ==
    ASSUME IInv, [Next]_vars
    PROVE  \/ backups' = backups
           \/ backups' = Append(backups, file) /\ file' = file /\ file \in Copyable
              /\ (BackUpUnread \/ BackUp)
           \/ backups' = Append(backups, Broken) /\ Broken \in Copyable /\ Crash
<1>1. Broken \in Copyable
  BY DEF Copyable
<1>2. pc \in {"copy", "backup"} => file \in Copyable
  BY DEF IInv, TypeOK, CopyInv, Copyable
<1> QED
  BY <1>1, <1>2
     DEF Next, vars, Start, Load, CannotLoad, BackUpUnread, CannotBackUp, Recover, Update,
         SaveWithBackup, BackUp, Save, Finish, Leave, Crash, Break, CopyTo, CrashCopies

\* Of the copies one stays the newest.
LEMMA StepCopyInv == IInv /\ [Next]_vars => CopyInv'
<1> SUFFICES ASSUME IInv, [Next]_vars PROVE CopyInv'
  OBVIOUS
<1>1. TypeOK /\ CopyInv
  BY DEF IInv
<1>2. pc' \in {"copy", "backup"} => file' # Missing
  <2>1. mem \subseteq Keys
    BY <1>1 DEF TypeOK
  <2>2. mem # Missing
    BY <2>1, RunStateAssumption DEF Missing
  <2> QED
    BY <1>1, <2>2
       DEF CopyInv, Next, vars, Start, Load, CannotLoad, BackUpUnread, CannotBackUp, Recover,
           Update, SaveWithBackup, BacksUp, BackUp, Save, Finish, Leave, Crash, CrashLeaves,
           Break
<1>3. WholeCopies' # {} => \E i \in WholeCopies' : \A j \in WholeCopies' : j <= i
  <2>1. CASE backups' = backups
    BY <1>1, <2>1, CopiesLeft DEF CopyInv
  <2>2. CASE \E f \in Copyable : backups' = Append(backups, f)
    BY <1>1, <2>2, CopyMade
  <2> QED  BY <2>1, <2>2, StepCopies
<1> QED  BY <1>2, <1>3 DEF CopyInv

\* What a step does to what the copies hold: nothing, or a whole file joins them.
LEMMA StepCopied ==
    ASSUME IInv, [Next]_vars
    PROVE  \/ Copied' = Copied /\ Newest' = Newest /\ (BackUpUnread => ~Whole(file))
           \/ /\ Whole(file) /\ file' = file /\ (BackUpUnread \/ BackUp)
              /\ Copied' = Copied \cup file /\ Newest' = file
<1>1. TypeOK /\ CopyInv
  BY DEF IInv
<1>2. CASE backups' = backups
  <2>1. ~BackUpUnread
    <3>1. SUFFICES ASSUME BackUpUnread PROVE FALSE
      OBVIOUS
    <3>2. backups \in Seq(Copyable) /\ backups = Append(backups, file)
      BY <1>1, <1>2, <3>1 DEF BackUpUnread, CopyTo, TypeOK, Copyable
    <3>3. file \in Copyable
      BY <1>1, <3>1 DEF BackUpUnread, TypeOK, CopyInv, Copyable
    <3>4. Len(Append(backups, file)) = Len(backups) + 1 /\ Len(backups) \in Nat
      BY <3>2, <3>3, AppendProperties, LenProperties
    <3> QED  BY <3>2, <3>4
  <2> QED  BY <1>2, <2>1, CopiesLeft
<1>3. CASE backups' = Append(backups, file) /\ file' = file /\ file \in Copyable
           /\ (BackUpUnread \/ BackUp)
  BY <1>1, <1>3, CopyMade
<1>4. CASE backups' = Append(backups, Broken) /\ Broken \in Copyable /\ Crash
  <2>1. Copied' = Copied /\ Newest' = Newest
    BY <1>1, <1>4, CopyMade, NotWhole
  <2>2. ~BackUpUnread
    BY <1>4 DEF Crash, BackUpUnread
  <2> QED  BY <2>1, <2>2
<1> QED  BY <1>2, <1>3, <1>4, StepCopies

\* What was written is kept.
LEMMA StepAcked == IInv /\ [Next]_vars => AckedInv'
<1> SUFFICES ASSUME IInv, [Next]_vars PROVE AckedInv'
  OBVIOUS
<1>1. TypeOK /\ CopyInv /\ AckedInv
  BY DEF IInv
<1>2. Copied \subseteq Copied' /\ (BackUpUnread /\ Whole(file) => file \subseteq Copied')
  BY StepCopied
<1>3. Newest \subseteq Copied
  BY <1>1, NewestIsCopy
<1> USE DEF AckedInv, KeptSomewhere, Running
<1>4. CASE Start
  BY <1>1, <1>2, <1>4 DEF Start, Whole
<1>5. CASE Load
  BY <1>1, <1>2, <1>5 DEF Load, Whole, history
<1>6. CASE CannotLoad
  BY <1>1, <1>2, <1>6 DEF CannotLoad, Whole
<1>7. CASE BackUpUnread
  BY <1>1, <1>2, <1>7 DEF BackUpUnread, Whole, history
<1>8. CASE CannotBackUp
  BY <1>1, <1>2, <1>8 DEF CannotBackUp, Whole, history
<1>9. ASSUME NEW i \in WholeCopies \cup {0}, Recover(i) PROVE AckedInv'
  BY <1>1, <1>2, <1>9 DEF Recover, Whole
<1>10. ASSUME NEW k \in Keys, Update(k) PROVE AckedInv'
  BY <1>1, <1>2, <1>10 DEF Update, Whole, history
<1>11. CASE SaveWithBackup
  BY <1>1, <1>2, <1>11 DEF SaveWithBackup, BacksUp, Whole, history
<1>12. CASE BackUp
  BY <1>1, <1>2, <1>12 DEF BackUp, Whole, history
<1>13. CASE Save
  BY <1>1, <1>2, <1>13 DEF Save, Whole, TypeOK, history
<1>14. CASE Finish
  BY <1>1, <1>2, <1>14 DEF Finish, Whole, history
<1>15. CASE Leave
  BY <1>1, <1>2, <1>15 DEF Leave, Whole, TypeOK
<1>16. CASE Crash
  BY <1>1, <1>2, <1>16 DEF Crash, CrashLeaves, Whole, history
<1>17. CASE Break
  BY <1>1, <1>2, <1>3, <1>17 DEF Break
<1>18. CASE UNCHANGED vars
  BY <1>1, <1>2, <1>18 DEF vars, history, Whole
<1> QED
  BY <1>4, <1>5, <1>6, <1>7, <1>8, <1>9, <1>10, <1>11, <1>12, <1>13, <1>14, <1>15, <1>16,
     <1>17, <1>18 DEF Next

\* What counts as written is what the file holds.
LEMMA StepWritten == IInv /\ [Next]_vars => WrittenInv'
<1> SUFFICES ASSUME IInv, [Next]_vars PROVE WrittenInv'
  OBVIOUS
<1>1. TypeOK /\ WrittenInv
  BY DEF IInv
<1>2. mem # Unknown
  BY <1>1, RunStateAssumption DEF TypeOK, Unknown
<1> USE DEF WrittenInv, EndsWrittenOrSaid, Running, Loading
<1>3. CASE Start \/ Load \/ CannotLoad \/ BackUpUnread \/ CannotBackUp
  BY <1>1, <1>3 DEF Start, Load, CannotLoad, BackUpUnread, CannotBackUp, history
<1>4. ASSUME NEW i \in WholeCopies \cup {0}, Recover(i) PROVE WrittenInv'
  BY <1>1, <1>4 DEF Recover
<1>5. ASSUME NEW k \in Keys, Update(k) PROVE WrittenInv'
  BY <1>1, <1>5 DEF Update, history
<1>6. CASE SaveWithBackup \/ BackUp \/ Finish
  BY <1>1, <1>6 DEF SaveWithBackup, BacksUp, BackUp, Finish, history
<1>7. CASE Save
  BY <1>1, <1>7 DEF Save, WrittenBefore, history
<1>8. CASE Leave
  BY <1>1, <1>2, <1>8 DEF Leave
<1>9. CASE Crash
  BY <1>1, <1>9 DEF Crash, CrashLeaves, history
<1>10. CASE Break
  BY <1>1, <1>10 DEF Break
<1>11. CASE UNCHANGED vars
  BY <1>1, <1>11 DEF vars, history
<1> QED
  BY <1>3, <1>4, <1>5, <1>6, <1>7, <1>8, <1>9, <1>10, <1>11 DEF Next

\* A load that is not refused too much knows all that was written.
LEMMA TrustedLoad ==
    ASSUME IInv, NEW i \in WholeCopies \cup {0}, Recover(i), trusted'
    PROVE  trusted /\ acked \subseteq mem' /\ Newest = mem'
<1>1. TypeOK /\ CopyInv /\ KnowInv /\ pc = "recover"
  BY DEF IInv, Recover
<1>2. Cardinality(PassedOver(i)) \in Nat
  BY <1>1, PassedOverCount
<1>3. trusted /\ refused + Cardinality(PassedOver(i)) <= IF Whole(file) THEN 1 ELSE 0
  BY DEF Recover
<1>4. refused = IF Whole(file) THEN 1 ELSE 0
  BY <1>1 DEF KnowInv
<1>5. Cardinality(PassedOver(i)) = 0
  BY <1>2, <1>3, <1>4
<1>6. Newest = mem'
  BY <1>1, <1>5, PassedOverCount DEF Recover
<1> QED  BY <1>1, <1>3, <1>6 DEF KnowInv

\* The file has all that was written, or its newest copy has.
LEMMA StepKnow == IInv /\ [Next]_vars => KnowInv'
<1> SUFFICES ASSUME IInv, [Next]_vars PROVE KnowInv'
  OBVIOUS
<1>1. TypeOK /\ CopyInv /\ AckedInv /\ KnowInv
  BY DEF IInv
<1>2. \/ Copied' = Copied /\ Newest' = Newest /\ (BackUpUnread => ~Whole(file))
      \/ /\ Whole(file) /\ file' = file /\ (BackUpUnread \/ BackUp)
         /\ Copied' = Copied \cup file /\ Newest' = file
  BY StepCopied
<1>3. file' = file => (Whole(file)' <=> Whole(file))
  BY DEF Whole
<1>4. ~Whole(Broken) /\ ~Whole(Missing)
  BY NotWhole
<1>0. mem # Missing /\ Broken # Missing
  BY <1>1, NotWhole, RunStateAssumption DEF TypeOK, Missing
<1> USE DEF KnowInv, Running
<1>5. CASE Start
  BY <1>1, <1>2, <1>3, <1>5 DEF Start
<1>6. CASE Load
  <2>1. trusted /\ ~Whole(file) => acked = {}
    <3>1. SUFFICES ASSUME trusted, ~Whole(file) PROVE acked = {}
      OBVIOUS
    <3>2. file = Missing
      BY <1>6, <3>1 DEF Load, Loads
    <3> QED  BY <1>1, <3>2
  <2> QED  BY <1>1, <1>2, <1>3, <1>6, <2>1 DEF Load, history
<1>7. CASE CannotLoad
  BY <1>1, <1>2, <1>3, <1>7 DEF CannotLoad, Loads
<1>8. CASE BackUpUnread
  BY <1>1, <1>2, <1>3, <1>8 DEF BackUpUnread, history
<1>9. CASE CannotBackUp
  BY <1>1, <1>2, <1>3, <1>9 DEF CannotBackUp, history
<1>10. ASSUME NEW i \in WholeCopies \cup {0}, Recover(i) PROVE KnowInv'
  <2>1. trusted' => trusted /\ acked \subseteq mem'
    BY <1>10, TrustedLoad
  <2>2. pc' = "run" /\ UNCHANGED <<file, backups, acked>>
    BY <1>10 DEF Recover
  <2>3. Newest' = Newest
    BY <2>2, CopiesLeft
  <2> QED  BY <1>1, <1>3, <2>1, <2>2, <2>3
<1>11. ASSUME NEW k \in Keys, Update(k) PROVE KnowInv'
  BY <1>1, <1>2, <1>3, <1>11 DEF Update, history
<1>12. CASE SaveWithBackup
  BY <1>1, <1>2, <1>3, <1>12 DEF SaveWithBackup, BacksUp, history
<1>13. CASE BackUp
  BY <1>1, <1>2, <1>3, <1>13 DEF BackUp, history
<1>14. CASE Save
  BY <1>0, <1>1, <1>2, <1>3, <1>14 DEF Save, Whole, TypeOK, history
<1>15. CASE Finish
  BY <1>1, <1>2, <1>3, <1>15 DEF Finish, history
<1>16. CASE Leave
  BY <1>0, <1>1, <1>2, <1>3, <1>16 DEF Leave, Whole, TypeOK
<1>17. CASE Crash
  BY <1>1, <1>2, <1>3, <1>17 DEF Crash, CrashLeaves, history
<1>18. CASE Break
  BY <1>0, <1>1, <1>2, <1>4, <1>18 DEF Break
<1>19. CASE UNCHANGED vars
  BY <1>1, <1>2, <1>3, <1>19 DEF vars, history
<1> QED
  BY <1>5, <1>6, <1>7, <1>8, <1>9, <1>10, <1>11, <1>12, <1>13, <1>14, <1>15, <1>16, <1>17,
     <1>18, <1>19 DEF Next

-----------------------------------------------------------------------------
(* Theorems. *)

\* The invariant holds in every run of the store.
THEOREM Invariant == Spec => []IInv
<1>1. IInv /\ [Next]_vars => IInv'
  BY StepType, StepCopyInv, StepAcked, StepKnow, StepWritten DEF IInv
<1> QED  BY InitIInv, <1>1, PTL DEF Spec

\* The variables keep their types.
THEOREM TypeCorrect == Spec => []TypeOK
<1>1. IInv => TypeOK
  BY DEF IInv
<1> QED  BY Invariant, <1>1, PTL

\* No record that was written is lost: it is in the file or in a copy of it,
\* through any cuts, refusals, recoveries and breaks (atomic_write_text, load).
THEOREM WrittenIsKept == Spec => []KeptSomewhere
<1>1. IInv => KeptSomewhere
  BY DEF IInv, AckedInv
<1> QED  BY Invariant, <1>1, PTL

\* A run that came to its end left its records in the file or has said so
\* (save(leaving=True)).
THEOREM EndIsSaid == Spec => []EndsWrittenOrSaid
<1>1. IInv => EndsWrittenOrSaid
  BY DEF IInv, WrittenInv
<1> QED  BY Invariant, <1>1, PTL

\* A run that has loaded knows every record that was written and not broken
\* with the file since (load, _recover_from_backup).
THEOREM LoadKnowsWritten == Spec => LoadKnows
<1> DEFINE A == pc \in {"load", "recover"} /\ pc' = "run" /\ trusted' => acked \subseteq mem'
<1>1. IInv /\ [Next]_vars => [A]_vars
  <2> SUFFICES ASSUME IInv, [Next]_vars, pc \in {"load", "recover"}, pc' = "run", trusted'
               PROVE  acked \subseteq mem'
    OBVIOUS
  <2>1. CASE Load
    <3>1. trusted /\ KnowInv
      BY <2>1 DEF Load, history, IInv
    <3>2. CASE Whole(file)
      BY <2>1, <3>1, <3>2 DEF Load, KnowInv
    <3>3. CASE ~Whole(file)
      BY <2>1, <3>1, <3>3 DEF Load, Loads, KnowInv
    <3> QED  BY <3>2, <3>3
  <2>2. CASE \E i \in WholeCopies \cup {0} : Recover(i)
    BY <2>2, TrustedLoad
  <2> QED
    BY <2>1, <2>2
       DEF Next, vars, Start, CannotLoad, BackUpUnread, CannotBackUp, Update, SaveWithBackup,
           BacksUp, BackUp, Save, Finish, Leave, Crash, Break
<1> HIDE DEF A
<1>2. Spec => [][A]_vars
  BY <1>1, Invariant, PTL DEF Spec
<1> QED  BY <1>2 DEF A, LoadKnows

=============================================================================
