-------------------------------- MODULE Rename --------------------------------
(***************************************************************************)
(* Rename with --apply (renaming.py): files take the names their app gives *)
(* them today, and the ledgers follow.                                     *)
(*                                                                         *)
(* apply moves a file once the file holding its new name has moved, so a   *)
(* chain of names goes from its free end; files trading names are a ring,  *)
(* whose first goes aside under a temporary name.  Then the index and the  *)
(* run state are written, and when a write fails both go back to what they *)
(* were and put_back undoes the moves the same way, turned round.          *)
(* Meanwhile a rename may be refused (a sync client, a scanner), a ledger  *)
(* may be held, files of other programs come, and the run may be cut.      *)
(*                                                                         *)
(* A document app is modelled: one index and progress.json.  A name is one *)
(* of a folder that ignores case, so a change of case keeps the name and   *)
(* is a ring of one.  A move to another drive counts as a rename, which it *)
(* undoes when it fails.  What names are is left out.                      *)
(***************************************************************************)
EXTENDS Naturals, Sequences, FiniteSets

CONSTANTS
    Docs,        \* documents the app filed, each with a row and a record
    Strangers,   \* files other programs may bring
    Names,       \* names in the app's folders
    Temps,       \* temporary names, "....renaming"
    Home,        \* the name each document has, and its ledgers give, at first
    Nowhere,     \* no name
    Nobody,      \* no file holds the name
    Other,       \* a file holds the name, none of those that moved
    MaxFaults    \* bound: refused renames and held ledgers

ASSUME RenameAssumption ==
    /\ IsFiniteSet(Docs)
    /\ Docs \cap Strangers = {} /\ Names \cap Temps = {}
    /\ Nowhere \notin Names \cup Temps
    /\ Nobody \notin Docs /\ Other \notin Docs /\ Nobody # Other
    /\ Home \in [Docs -> Names]
    /\ \A d, e \in Docs : Home[d] = Home[e] => d = e
    /\ MaxFaults \in Nat

Files == Docs \cup Strangers
Paths == Names \cup Temps

VARIABLES
    at,        \* where each file is
    index,     \* durable: the name each document's row gives
    records,   \* durable: the name progress.json gives
    mem,       \* the run state in memory (JsonStore.data)
    plan,      \* the new name the preview gave, or Nowhere
    newPath,   \* Change.new_path, which is found again when it is taken
    pc,        \* where the run is
    holds,     \* the change whose file has this one's new (put_back: old) name
    done,      \* changes tried
    moved,     \* changes whose file has moved (put_back: is home)
    first,     \* ring[0] while a ring moves
    aside,     \* the temporary name it has
    went,      \* the files of the ring that have moved, in order
    going,     \* whether every file of the ring has moved so far
    mapping,   \* Result.mapping: where the ledgers are to find each
    stranded,  \* Result.stranded: the temporary name a file was left under
    stuck,     \* what put_back could not put back, with where it is
    wrote,     \* the index has been written
    unwritten, \* the index could not be written back
    faults

vars == <<at, index, records, mem, plan, newPath, pc, holds, done, moved, first, aside,
          went, going, mapping, stranded, stuck, wrote, unwritten, faults>>

ledgers == <<index, records, mem, wrote, unwritten>>
ringvars == <<first, aside, went, going>>

\* The documents whose files the preview would rename.
Planned == {d \in Docs : plan[d] # Nowhere}

TypeOK ==
    /\ at \in [Files -> Paths \cup {Nowhere}]
    /\ index \in [Docs -> Paths] /\ records \in [Docs -> Paths] /\ mem \in [Docs -> Paths]
    /\ plan \in [Docs -> Names \cup {Nowhere}]
    /\ newPath \in [Docs -> Names \cup {Nowhere}]
    /\ pc \in {"check", "apply", "ring", "return", "index", "save", "undo", "back",
               "backring", "leave", "over", "cut"}
    /\ holds \in [Docs -> Docs \cup {Nobody, Other}]
    /\ done \subseteq Docs /\ moved \subseteq done
    /\ first \in Docs \cup {Nobody}
    /\ aside \in Temps \cup {Nowhere}
    /\ went \in Seq(Docs)
    /\ going \in BOOLEAN
    /\ mapping \in [Docs -> Paths \cup {Nowhere}]
    /\ stranded \in [Docs -> Temps \cup {Nowhere}]
    /\ stuck \in Seq(Docs \X Paths)
    /\ wrote \in BOOLEAN /\ unwritten \in BOOLEAN
    /\ faults \in 0 .. MaxFaults

\* What a plan may say: one new name for each file, each free or the name of a
\* file that is to move itself.
Plans ==
    {p \in [Docs -> Names \cup {Nowhere}] :
        /\ \A d, e \in Docs : p[d] = p[e] /\ p[d] # Nowhere => d = e
        /\ \A d, e \in Docs : p[d] = Home[e] => p[e] # Nowhere}

Init ==
    /\ at = [f \in Files |-> IF f \in Docs THEN Home[f] ELSE Nowhere]
    /\ index = Home /\ records = Home /\ mem = Home
    /\ plan \in Plans /\ newPath = plan
    /\ pc = "check"
    /\ holds = [d \in Docs |-> Nobody]
    /\ done = {} /\ moved = {}
    /\ first = Nobody /\ aside = Nowhere /\ went = <<>> /\ going = TRUE
    /\ mapping = [d \in Docs |-> Nowhere]
    /\ stranded = [d \in Docs |-> Nowhere]
    /\ stuck = <<>>
    /\ wrote = FALSE /\ unwritten = FALSE
    /\ faults = 0

-----------------------------------------------------------------------------
(* Renames, each an attempt of _retried_rename. *)

Free(p) == \A f \in Files : at[f] # p

\* The names after source is renamed to target: a file there is written over.
Renamed(source, target) ==
    [f \in Files |-> IF at[f] = source THEN target
                     ELSE IF at[f] = target THEN Nowhere ELSE at[f]]

Fault == faults < MaxFaults /\ faults' = faults + 1

\* Mutant: land on the new name whatever is there.
LandingsOver(d) == {newPath[d]}

\* _land: the new name, or one beside it when a file has come to it.
Landings(d) == IF Free(newPath[d]) THEN {newPath[d]} ELSE {p \in Names : Free(p)}

Land(d, source) ==
    \E p \in Landings(d) :
        /\ at' = Renamed(source, p)
        /\ newPath' = [newPath EXCEPT ![d] = p]
        /\ UNCHANGED faults

\* It is refused, or no name beside it fits.
Refused(d) ==
    /\ IF Landings(d) = {} THEN UNCHANGED faults ELSE Fault
    /\ UNCHANGED <<at, newPath>>

\* _put, back to a name nothing has.
Put(source, target) ==
    /\ Free(target)
    /\ at' = Renamed(source, target)
    /\ UNCHANGED faults

NotPut(target) ==
    /\ IF Free(target) THEN Fault ELSE UNCHANGED faults
    /\ UNCHANGED at

-----------------------------------------------------------------------------
(* Chains and rings of names, as apply and put_back follow them. *)

Closed(S) == \A d \in S : holds[d] \in S

RingOf(d) == {e \in Docs : \A S \in SUBSET Docs : d \in S /\ Closed(S) => e \in S}

InRing(d) == \E S \in SUBSET Docs : d \in S /\ Closed(S)

\* Mutant: the files in the order of the ledger, none waiting.
ReadyAtOnce(todo) == todo \ done

\* The files whose turn may come: each waits for the one that holds the name it
\* wants.  The chains are in the ledger's order, which may be any.
Ready(todo) == {d \in todo \ done : ~InRing(d) /\ holds[d] \notin todo \ done}

\* The next of a ring to move: from the last back, and ring[0] last.
NextOf(ring, gone) ==
    IF ring = gone \cup {first} THEN first
    ELSE CHOOSE d \in ring \ (gone \cup {first}) : holds[d] \in gone \cup {first}

Holder(d, wanted, movers) ==
    LET there == {e \in movers : at[e] = wanted} IN
    IF there # {} THEN CHOOSE e \in there : TRUE
    ELSE IF Free(wanted) THEN Nobody ELSE Other

-----------------------------------------------------------------------------
(* apply *)

\* free_to_write, of the index and of progress.json, before any file moves.
Check ==
    /\ pc = "check"
    /\ \/ /\ pc' = "apply"
          /\ holds' = [d \in Docs |->
                        IF d \notin Planned THEN Nobody
                        ELSE LET h == Holder(d, plan[d], Planned)
                             IN IF h = Other THEN Nobody ELSE h]
          /\ UNCHANGED faults
       \/ /\ Fault
          /\ pc' = "leave"
          /\ UNCHANGED holds
    /\ UNCHANGED <<at, plan, newPath, done, moved, ringvars, mapping, stranded, stuck, ledgers>>

\* _rename_one
RenameOne(d) ==
    /\ pc = "apply" /\ d \in Ready(Planned)
    /\ done' = done \cup {d}
    /\ \/ /\ holds[d] \in moved \cup {Nobody}
          /\ Land(d, Home[d])
          /\ moved' = moved \cup {d}
          /\ mapping' = [mapping EXCEPT ![d] = newPath'[d]]
       \/ /\ holds[d] \in moved \cup {Nobody}
          /\ Refused(d)
          /\ UNCHANGED <<moved, mapping>>
       \/ /\ holds[d] \notin moved \cup {Nobody}
          /\ UNCHANGED <<at, newPath, moved, mapping, faults>>
    /\ UNCHANGED <<plan, pc, holds, ringvars, stranded, stuck, ledgers>>

\* _rename_ring: ring[0], whichever of the ring comes first, goes aside.
RingAside(d) ==
    /\ pc = "apply" /\ d \in Planned \ done /\ InRing(d)
    /\ \/ \E a \in Temps :
            /\ Put(Home[d], a)
            /\ pc' = "ring"
            /\ first' = d /\ aside' = a /\ went' = <<>>
            /\ UNCHANGED <<done, going>>
       \/ /\ Fault
          /\ done' = done \cup RingOf(d)
          /\ UNCHANGED <<at, pc, ringvars>>
    /\ UNCHANGED <<plan, newPath, holds, moved, mapping, stranded, stuck, ledgers>>

InWent == {went[i] : i \in DOMAIN went}

RingStep ==
    /\ pc = "ring"
    /\ LET ring == RingOf(first)
           d == NextOf(ring, InWent)
       IN \/ /\ Land(d, IF d = first THEN aside ELSE Home[d])
             /\ IF d # first
                THEN /\ went' = Append(went, d)
                     /\ UNCHANGED <<pc, done, moved, mapping, first, aside>>
                ELSE /\ pc' = "apply"
                     /\ done' = done \cup ring /\ moved' = moved \cup ring
                     /\ mapping' = [e \in Docs |-> IF e \in ring THEN newPath'[e]
                                                   ELSE mapping[e]]
                     /\ first' = Nobody /\ aside' = Nowhere /\ went' = <<>>
          \/ /\ Refused(d)
             /\ pc' = "return"
             /\ UNCHANGED <<done, moved, mapping, first, aside, went>>
    /\ UNCHANGED <<plan, holds, going, stranded, stuck, ledgers>>

\* Back as it was, the last to move first.  One that cannot go back keeps its
\* new name, and so do those that moved before it.
RingReturn ==
    /\ pc = "return" /\ went # <<>>
    /\ LET d == went[Len(went)] IN
       /\ went' = SubSeq(went, 1, Len(went) - 1)
       /\ \/ /\ going
             /\ Put(newPath[d], Home[d])
             /\ UNCHANGED <<going, done, moved, mapping>>
          \/ /\ IF going THEN NotPut(Home[d]) ELSE UNCHANGED <<at, faults>>
             /\ going' = FALSE
             /\ done' = done \cup {d} /\ moved' = moved \cup {d}
             /\ mapping' = [mapping EXCEPT ![d] = newPath[d]]
    /\ UNCHANGED <<plan, newPath, pc, holds, first, aside, stranded, stuck, ledgers>>

\* Mutant: a file left aside is never in the mapping.
LeftAsideUntold(d) == mapping

\* A file left under its temporary name while its own holds another is in the
\* mapping too, so that no ledger names the other file for it.
LeftAside(d) == IF Free(Home[d]) THEN mapping ELSE [mapping EXCEPT ![d] = aside]

RingHome ==
    /\ pc = "return" /\ went = <<>>
    /\ \/ /\ Put(aside, Home[first])
          /\ UNCHANGED <<stranded, mapping>>
       \/ /\ NotPut(Home[first])
          /\ stranded' = [stranded EXCEPT ![first] = aside]
          /\ mapping' = LeftAside(first)
    /\ pc' = "apply"
    /\ done' = done \cup RingOf(first)
    /\ first' = Nobody /\ aside' = Nowhere /\ going' = TRUE
    /\ UNCHANGED <<plan, newPath, holds, moved, went, stuck, ledgers>>

\* With nothing to write down, the ledgers are left alone (run_for).
Applied ==
    /\ pc = "apply" /\ Planned \subseteq done
    /\ pc' = IF \A d \in Docs : mapping[d] = Nowhere THEN "leave" ELSE "index"
    /\ UNCHANGED <<at, plan, newPath, holds, done, moved, ringvars, mapping, stranded, stuck,
                   ledgers, faults>>

-----------------------------------------------------------------------------
(* _write_ledgers *)

\* Mutant: a row whose file did not move is given nothing.
FollowedAll(names) == mapping

\* update_rows, update_progress: what names a file by its path follows it.
Followed(names) == [d \in Docs |-> IF mapping[d] # Nowhere THEN mapping[d] ELSE names[d]]

WriteIndex ==
    /\ pc = "index"
    /\ \/ /\ index' = Followed(index)
          /\ wrote' = TRUE
          /\ pc' = "save"
          /\ UNCHANGED faults
       \/ /\ Fault
          /\ pc' = "undo"
          /\ UNCHANGED <<index, wrote>>
    /\ UNCHANGED <<at, records, mem, plan, newPath, holds, done, moved, ringvars, mapping,
                   stranded, stuck, unwritten>>

\* The records follow in memory, and then the file is written.
WriteRecords ==
    /\ pc = "save"
    /\ mem' = Followed(mem)
    /\ \/ /\ records' = mem'
          /\ pc' = "leave"
          /\ UNCHANGED faults
       \/ /\ Fault
          /\ pc' = "undo"
          /\ UNCHANGED records
    /\ UNCHANGED <<at, index, plan, newPath, holds, done, moved, ringvars, mapping, stranded,
                   stuck, wrote, unwritten>>

\* _moved_by: what put_back undoes, and where each of it is.
Moves == {d \in Docs : mapping[d] # Nowhere \/ stranded[d] # Nowhere}

\* Mutant: at its new name, whatever the ledgers were to give.
WhereNew(d) == IF mapping[d] # Nowhere THEN newPath[d] ELSE stranded[d]

Where(d) == IF mapping[d] # Nowhere THEN mapping[d] ELSE stranded[d]

\* Mutant: the records in memory are left as update_progress made them.
NotRestored == mem

\* The records in memory, as they were before the files moved.
Restored == Home

\* _undo, up to put_back: memory, then the index as it was.
Undo ==
    /\ pc = "undo"
    /\ mem' = Restored
    /\ \/ /\ index' = IF wrote THEN Home ELSE index
          /\ UNCHANGED <<unwritten, faults>>
       \/ /\ wrote /\ Fault
          /\ unwritten' = TRUE
          /\ UNCHANGED index
    /\ pc' = "back"
    /\ holds' = [d \in Docs |-> IF d \in Moves THEN Holder(d, Home[d], Moves) ELSE Nobody]
    /\ done' = {} /\ moved' = {}
    /\ UNCHANGED <<at, records, plan, newPath, ringvars, mapping, stranded, stuck, wrote>>

-----------------------------------------------------------------------------
(* put_back *)

BackOne(d) ==
    /\ pc = "back" /\ d \in Ready(Moves)
    /\ done' = done \cup {d}
    /\ \/ /\ holds[d] \in moved \cup {Nobody}
          /\ Put(Where(d), Home[d])
          /\ moved' = moved \cup {d}
          /\ UNCHANGED stuck
       \/ /\ IF holds[d] \in moved \cup {Nobody} THEN NotPut(Home[d])
             ELSE UNCHANGED <<at, faults>>
          /\ stuck' = Append(stuck, <<d, Where(d)>>)
          /\ UNCHANGED moved
    /\ UNCHANGED <<plan, newPath, pc, holds, ringvars, mapping, stranded, ledgers>>

\* ring[0], ring[1], ... as _ring_back is handed them.
RingFrom(d) ==
    LET ring == RingOf(d) IN
    CHOOSE s \in UNION {[1 .. n -> ring] : n \in 1 .. Cardinality(ring)} :
        /\ s[1] = d
        /\ {s[i] : i \in DOMAIN s} = ring
        /\ \A i \in 1 .. Len(s) - 1 : s[i + 1] = holds[s[i]]

\* _ring_back: ring[0], whichever of the ring comes first, goes aside, or none
\* of the ring goes home.
BackAside(d) ==
    /\ pc = "back" /\ d \in Moves \ done /\ InRing(d)
    /\ \/ \E a \in Temps :
            /\ Put(Where(d), a)
            /\ pc' = "backring"
            /\ first' = d /\ aside' = a
            /\ UNCHANGED <<done, stuck>>
       \/ /\ Fault
          /\ done' = done \cup RingOf(d)
          /\ stuck' = stuck \o [i \in DOMAIN RingFrom(d) |->
                                    <<RingFrom(d)[i], Where(RingFrom(d)[i])>>]
          /\ UNCHANGED <<at, pc, first, aside>>
    /\ UNCHANGED <<plan, newPath, holds, moved, went, going, mapping, stranded, ledgers>>

\* The rest from the last back.  Once one cannot go back those before it stay.
BackStep ==
    /\ pc = "backring"
    /\ LET ring == RingOf(first)
           d == NextOf(ring, ring \cap done)
       IN /\ d # first
          /\ done' = done \cup {d}
          /\ \/ /\ going /\ Put(Where(d), Home[d])
                /\ moved' = moved \cup {d}
                /\ UNCHANGED <<going, stuck>>
             \/ /\ IF going THEN NotPut(Home[d]) ELSE UNCHANGED <<at, faults>>
                /\ going' = FALSE
                /\ stuck' = Append(stuck, <<d, Where(d)>>)
                /\ UNCHANGED moved
    /\ UNCHANGED <<plan, newPath, pc, holds, first, aside, went, mapping, stranded, ledgers>>

\* Then ring[0], which goes home, or back where it was, or stays aside.
BackLast ==
    /\ pc = "backring" /\ RingOf(first) \ done = {first}
    /\ \/ /\ going /\ Put(aside, Home[first])
          /\ moved' = moved \cup {first} /\ pc' = "back"
          /\ first' = Nobody /\ aside' = Nowhere
          /\ done' = done \cup {first}
          /\ UNCHANGED <<going, stuck>>
       \/ /\ going /\ NotPut(Home[first])
          /\ going' = FALSE
          /\ UNCHANGED <<moved, pc, first, aside, done, stuck>>
       \/ /\ ~going
          /\ \/ /\ Put(aside, Where(first))
                /\ stuck' = Append(stuck, <<first, Where(first)>>)
             \/ /\ NotPut(Where(first))
                /\ stuck' = Append(stuck, <<first, aside>>)
          /\ going' = TRUE /\ pc' = "back"
          /\ first' = Nobody /\ aside' = Nowhere
          /\ done' = done \cup {first}
          /\ UNCHANGED moved
    /\ UNCHANGED <<plan, newPath, holds, went, mapping, stranded, ledgers>>

PutBack ==
    /\ pc = "back" /\ Moves \subseteq done
    /\ pc' = "leave"
    /\ UNCHANGED <<at, plan, newPath, holds, done, moved, ringvars, mapping, stranded, stuck,
                   ledgers, faults>>

-----------------------------------------------------------------------------

\* The app's finally: the run state in memory is saved on the way out.
Leave ==
    /\ pc = "leave"
    /\ pc' = "over"
    /\ records' = mem
    /\ UNCHANGED <<at, index, mem, plan, newPath, holds, done, moved, ringvars, mapping,
                   stranded, stuck, wrote, unwritten, faults>>

\* The run is killed, or stopped while files move.
Cut ==
    /\ pc # "over" /\ pc' = "cut"
    /\ UNCHANGED <<at, plan, newPath, holds, done, moved, ringvars, mapping, stranded, stuck,
                   ledgers, faults>>

\* Another program brings a file, never over one that is there.
StrangerComes(x, p) ==
    /\ pc \notin {"over", "cut"}
    /\ at[x] = Nowhere /\ Free(p)
    /\ at' = [at EXCEPT ![x] = p]
    /\ UNCHANGED <<plan, newPath, pc, holds, done, moved, ringvars, mapping, stranded, stuck,
                   ledgers, faults>>

Ended == pc \in {"over", "cut"} /\ UNCHANGED vars

Next ==
    \/ Check
    \/ \E d \in Docs : RenameOne(d) \/ RingAside(d)
    \/ RingStep \/ RingReturn \/ RingHome \/ Applied
    \/ WriteIndex \/ WriteRecords \/ Undo
    \/ \E d \in Docs : BackOne(d) \/ BackAside(d)
    \/ BackStep \/ BackLast \/ PutBack
    \/ Leave \/ Cut
    \/ \E x \in Strangers, p \in Names : StrangerComes(x, p)
    \/ Ended

Spec == Init /\ [][Next]_vars

-----------------------------------------------------------------------------
(* Properties. *)

\* A file, once there, is never written over: whatever comes or is refused while
\* chains and rings move, no rename lands on a name in use (_land, _put).
NothingOverwritten == [][\A f \in Files : at[f] # Nowhere => at'[f] # Nowhere]_vars

\* The files the run told the person were left somewhere else than the ledgers
\* say: aside with their own name free, or not put back.
ToldStuck == {stuck[i][1] : i \in DOMAIN stuck}
ToldAside == {d \in Docs : stranded[d] # Nowhere /\ mapping[d] = Nowhere}

\* However a Rename that came to its end went, the index and the run state give
\* each file where it is, or the name it had when the run said it could not be
\* put back; only an index that was said to be unwritten may not (_undo).
LedgersAgree ==
    pc = "over" =>
        \A d \in Docs :
            LET is == IF d \in ToldStuck \cup ToldAside THEN Home[d] ELSE at[d]
            IN records[d] = is /\ (unwritten \/ index[d] = is)

NoFileCame == \A x \in Strangers : at[x] = Nowhere

\* No ledger names one document's file for another, whichever of a ring were
\* refused and left (apply's docstring, _rename_ring), unless the run said the
\* file is to be renamed back by hand.
NoOtherFile ==
    pc = "over" /\ ~unwritten /\ NoFileCame =>
        \A d \in Docs \ ToldStuck, e \in Docs :
            d # e => at[e] \notin {index[d], records[d]}

\* What the run says of a file it left is where that file is.
SaidIsTrue ==
    pc = "over" => \A i \in DOMAIN stuck : at[stuck[i][1]] = stuck[i][2]

\* With nothing refused and no file coming, every file has the name its preview
\* gave it, chains and rings too (apply).
AsPreviewed ==
    pc = "over" /\ faults = 0 /\ NoFileCame =>
        \A d \in Planned : at[d] = plan[d]
=============================================================================
