---------------------------- MODULE Rename_proofs ----------------------------
(***************************************************************************)
(* Proofs about Rename.tla, for any documents, names, plans and faults:    *)
(* that no file is ever written over or lost, wherever the run is cut, and *)
(* that when a Rename ends what the ledgers and the run say is where the   *)
(* files are.                                                              *)
(*                                                                         *)
(* First the rings: a ring's files can be put in order, and while some of  *)
(* them have moved another one's turn has come.  Then the invariant Core,  *)
(* which says where each file is at every point of a Rename, one action at *)
(* a time.  What the ledgers say, and what happens when nothing else       *)
(* touches the folders, is proved from it.                                 *)
(***************************************************************************)
EXTENDS Rename, FiniteSetTheorems, SequenceTheorems, WellFoundedInduction, TLAPS

-----------------------------------------------------------------------------
(* The invariant Core. *)

\* Until a ledger could not be written: the files are where apply put them.
Forward == {"check", "apply", "ring", "return", "index", "save", "undo"}

Moving == {"check", "apply", "ring", "return"}
Backing == {"back", "backring"}
InARing == {"ring", "return", "backring"}

\* Where apply put d's file, which is where put_back looks for it.
PlaceOf(d) == IF d \in Moves THEN Where(d) ELSE Home[d]

\* TypeOK in parts; no other variable matters to where the files are.
AtTyped == at \in [Files -> Paths \cup {Nowhere}]

PlanTyped ==
    /\ plan \in [Docs -> Names \cup {Nowhere}]
    /\ newPath \in [Docs -> Names \cup {Nowhere}]
    /\ holds \in [Docs -> Docs \cup {Nobody, Other}]

RunTyped ==
    /\ pc \in Forward \cup Backing \cup {"leave", "over", "cut"}
    /\ done \subseteq Docs /\ moved \subseteq done
    /\ first \in Docs \cup {Nobody}
    /\ aside \in Temps \cup {Nowhere}
    /\ went \in Seq(Docs)
    /\ going \in BOOLEAN

PlacesTyped ==
    /\ mapping \in [Docs -> Paths \cup {Nowhere}]
    /\ stranded \in [Docs -> Temps \cup {Nowhere}]

StuckTyped == stuck \in Seq(Docs \X Paths)

LedgersTyped ==
    /\ index \in [Docs -> Paths] /\ records \in [Docs -> Paths] /\ mem \in [Docs -> Paths]
    /\ wrote \in BOOLEAN /\ unwritten \in BOOLEAN

\* No two files have one name.
Distinct == \A f, g \in Files : at[f] = at[g] /\ at[f] # Nowhere => f = g

\* The new names are those of the plan, or found beside them.
NewPathsPlanned ==
    /\ plan \in Plans
    /\ \A d \in Docs : newPath[d] = Nowhere <=> plan[d] = Nowhere

\* A name is wanted by one change and held by one.
HoldsOne == \A d, e \in Docs : holds[d] = holds[e] /\ holds[d] \in Docs => d = e

HoldsPlan ==
    pc \in {"apply", "ring", "return"} =>
        /\ \A d \in Docs : holds[d] # Nobody =>
               /\ d \in Planned /\ holds[d] \in Planned
               /\ plan[d] = Home[holds[d]]
        /\ \A d, e \in Docs : plan[d] = Home[e] => holds[d] = e

HoldsMoves == pc \in Backing => \A d \in Docs : holds[d] # Nobody => d \in Moves

\* What has been tried, a ring under way with all its files.
Tried == IF first = Nobody THEN done ELSE done \cup RingOf(first)

\* A ring is tried whole.
RingsWhole ==
    /\ pc = "check" => done = {}
    /\ pc \in Moving \cup Backing =>
           \A d \in Docs \ Tried : InRing(d) => holds[d] \notin Tried

RingUnderWay ==
    /\ IF pc \in InARing
       THEN /\ first \in Docs \ done /\ InRing(first)
            /\ aside \in Temps /\ at[first] = aside
       ELSE pc # "cut" => first = Nobody
    /\ pc = "ring" => RingOf(first) \cap done = {}
    /\ IF pc \in {"ring", "return"}
       THEN /\ InWent \subseteq RingOf(first) \ ({first} \cup done)
            /\ \A i, j \in DOMAIN went : went[i] = went[j] => i = j
       ELSE pc # "cut" => went = <<>>

PlacedForward ==
    /\ pc \in Forward =>
           /\ \A d \in Docs \ {first} :
                  at[d] = IF d \in InWent THEN newPath[d] ELSE PlaceOf(d)
           /\ stuck = <<>>
    /\ pc \in Moving => Moves \subseteq done

PlacedBack ==
    pc \in Backing =>
        /\ done \subseteq Moves
        /\ \A d \in Docs \ {first} : d \notin done => at[d] = PlaceOf(d)
        /\ \A d \in moved : at[d] = Home[d]
        /\ ToldStuck = done \ moved

StuckThere == \A i \in DOMAIN stuck : at[stuck[i][1]] = stuck[i][2]

Core ==
    /\ AtTyped /\ PlanTyped /\ RunTyped /\ PlacesTyped /\ StuckTyped
    /\ Distinct /\ NewPathsPlanned
    /\ HoldsOne /\ HoldsPlan /\ HoldsMoves
    /\ RingsWhole /\ RingUnderWay
    /\ PlacedForward /\ PlacedBack /\ StuckThere

-----------------------------------------------------------------------------
(* What the ledgers say, on top of Core. *)

\* Where the ledgers are to find d's file once the run has ended.
Told(d) == IF d \in ToldStuck \cup ToldAside THEN Home[d] ELSE at[d]

LedgersSoFar ==
    /\ pc \in Forward \ {"undo"} => mem = Home
    /\ pc \in Forward /\ ~wrote => index = Home
    /\ pc \in Moving \cup {"index"} => ~wrote
    /\ pc = "save" => wrote /\ index = Followed(Home)
    /\ pc \in Backing => mem = Home /\ (unwritten \/ index = Home)
    /\ pc \in {"leave", "over"} =>
           \A d \in Docs : mem[d] = Told(d) /\ (unwritten \/ index[d] = Told(d))
    /\ pc = "over" => records = mem

-----------------------------------------------------------------------------
(* What became of the plan, on top of Core. *)

\* The mapping gives a file its new name, or the temporary one it was left under.
Mapped ==
    pc \in Forward =>
        /\ \A d \in Docs : mapping[d] \in {Nowhere, newPath[d]} \cup Temps
        /\ \A d \in moved : mapping[d] = newPath[d] /\ plan[d] # Nowhere

\* While no other program brings a file, the name a file left aside had stays
\* free, as no change to come wants it.
AsideFree ==
    /\ NoFileCame => newPath = plan
    /\ pc \in Forward \ {"undo"} =>
           \A d \in ToldAside :
               /\ \A e \in Docs : plan[e] = Home[d] => e \in done
               /\ NoFileCame => Free(Home[d])
    /\ pc \in {"leave", "over"} /\ NoFileCame =>
           \A d \in ToldAside \ ToldStuck : at[d] = Home[d] \/ Free(Home[d])

\* And when nothing is refused either, whatever was tried has moved.
Smooth ==
    faults = 0 /\ NoFileCame =>
        /\ pc \notin {"return", "undo"} \cup Backing
        /\ pc \in Forward => done = moved
        /\ pc \in {"index", "save"} => Planned \subseteq done
        /\ pc \in {"leave", "over"} => \A d \in Planned : at[d] = plan[d]

-----------------------------------------------------------------------------
(* Rings. *)

HoldsTyped == holds \in [Docs -> Docs \cup {Nobody, Other}]

\* The files of a ring are in it with the files that hold the names they want,
\* and no smaller set is.
LEMMA RingIsLeast ==
    ASSUME HoldsTyped, NEW d \in Docs, InRing(d)
    PROVE  /\ d \in RingOf(d) /\ RingOf(d) \subseteq Docs /\ Closed(RingOf(d))
           /\ \A e \in RingOf(d) : InRing(e)
           /\ \A S \in SUBSET Docs : d \in S /\ Closed(S) => RingOf(d) \subseteq S
<1>1. d \in RingOf(d) /\ RingOf(d) \subseteq Docs
      BY DEF RingOf
<1>2. \A S \in SUBSET Docs : d \in S /\ Closed(S) => RingOf(d) \subseteq S
      BY DEF RingOf
<1>3. Closed(RingOf(d))
  <2>1. SUFFICES ASSUME NEW e \in RingOf(d)
                 PROVE  holds[e] \in RingOf(d)
        BY DEF Closed
  <2>2. PICK T \in SUBSET Docs : d \in T /\ Closed(T)
        BY DEF InRing
  <2>3. holds[e] \in Docs
        BY <2>1, <2>2, <1>2 DEF Closed
  <2>4. \A S \in SUBSET Docs : d \in S /\ Closed(S) => holds[e] \in S
        BY <2>1, <1>2 DEF Closed
  <2> QED
      BY <2>3, <2>4 DEF RingOf
<1>4. \A e \in RingOf(d) : InRing(e)
      BY <1>1, <1>3 DEF InRing
<1> QED
    BY <1>1, <1>2, <1>3, <1>4

\* As each name is wanted once, every file of a closed set holds the name one of
\* the set wants, and no file outside it wants one that the set holds.
LEMMA ClosedIsOnto ==
    ASSUME HoldsTyped, HoldsOne, NEW S \in SUBSET Docs, Closed(S)
    PROVE  /\ \A y \in S : \E x \in S : holds[x] = y
           /\ \A x \in Docs : holds[x] \in S => x \in S
<1> DEFINE f == [x \in S |-> holds[x]]
<1>1. f \in Injection(S, S)
      BY DEF Closed, HoldsOne, Injection, IsInjective
<1>2. IsFiniteSet(S)
      BY RenameAssumption, FS_Subset DEF RenameAssumption
<1>3. f \in Surjection(S, S)
      BY <1>1, <1>2, FS_Injection
<1>4. \A y \in S : \E x \in S : holds[x] = y
      BY <1>3 DEF Surjection
<1> HIDE DEF f
<1>5. \A x \in Docs : holds[x] \in S => x \in S
      BY <1>4 DEF HoldsOne
<1> QED
    BY <1>4, <1>5

\* Until a ring's turn has come round to its first file, one of those that have
\* not moved wants the name of one that has.
LEMMA RingTurn ==
    ASSUME HoldsTyped, HoldsOne, first \in Docs, InRing(first),
           NEW gone \in SUBSET (RingOf(first) \ {first})
    PROVE  LET d == NextOf(RingOf(first), gone) IN
           /\ d \in RingOf(first) \ gone
           /\ IF d = first THEN RingOf(first) = gone \cup {first}
                           ELSE holds[d] \in gone \cup {first}
<1> DEFINE R == RingOf(first)
           T == gone \cup {first}
<1>1. /\ first \in R /\ R \subseteq Docs /\ Closed(R)
      /\ \A S \in SUBSET Docs : first \in S /\ Closed(S) => R \subseteq S
      BY RingIsLeast
<1>2. CASE R = T
      BY <1>1, <1>2 DEF NextOf
<1>3. CASE R # T
  <2>1. T \subseteq R
        BY <1>1
  <2>2. \E d \in R \ T : holds[d] \in T
    <3>1. SUFFICES ASSUME \A d \in R \ T : holds[d] \notin T
                   PROVE  FALSE
          OBVIOUS
    <3>2. R \ T \in SUBSET Docs /\ Closed(R \ T)
          BY <3>1, <1>1 DEF Closed
    <3>3. \A x \in Docs : holds[x] \in R \ T => x \in R \ T
          BY <3>2, ClosedIsOnto
    <3>4. Closed(T)
          BY <3>3, <2>1, <1>1 DEF Closed
    <3> QED
        BY <3>4, <2>1, <1>1, <1>3
  <2>3. NextOf(R, gone) = CHOOSE d \in R \ T : holds[d] \in T
        BY <1>3 DEF NextOf
  <2>4. NextOf(R, gone) \in R \ T /\ holds[NextOf(R, gone)] \in T
        BY <2>2, <2>3
  <2> QED
      BY <2>4
<1> QED
    BY <1>2, <1>3

\* Rings do not share files: what is tried stays whole when a ring is added.
LEMMA RingsApart ==
    ASSUME HoldsTyped, HoldsOne, NEW d \in Docs, InRing(d), NEW T,
           \A e \in Docs \ T : InRing(e) => holds[e] \notin T
    PROVE  \A e \in Docs \ (T \cup RingOf(d)) : InRing(e) => holds[e] \notin T \cup RingOf(d)
<1>1. RingOf(d) \in SUBSET Docs /\ Closed(RingOf(d))
      BY RingIsLeast
<1>2. \A x \in Docs : holds[x] \in RingOf(d) => x \in RingOf(d)
      BY <1>1, ClosedIsOnto
<1> QED
    BY <1>2

\* Nor with what was tried before it.
LEMMA RingUntried ==
    ASSUME HoldsTyped, NEW d \in Docs, InRing(d), NEW T, d \notin T,
           \A e \in Docs \ T : InRing(e) => holds[e] \notin T
    PROVE  RingOf(d) \cap T = {}
<1> DEFINE S == RingOf(d) \ T
<1>1. /\ d \in RingOf(d) /\ RingOf(d) \subseteq Docs /\ Closed(RingOf(d))
      /\ \A e \in RingOf(d) : InRing(e)
      /\ \A U \in SUBSET Docs : d \in U /\ Closed(U) => RingOf(d) \subseteq U
      BY RingIsLeast
<1>2. d \in S /\ S \in SUBSET Docs /\ Closed(S)
      BY <1>1 DEF Closed
<1> QED
    BY <1>1, <1>2

\* The files of a ring wait for one another: each is in a ring with the one it
\* waits for.
LEMMA RingGoesOn ==
    ASSUME NEW d \in Docs, InRing(d)
    PROVE  holds[d] \in Docs /\ InRing(holds[d])
BY DEF InRing, Closed

\* A walk along a ring: its files in order, each once.
Walk(d, n, s) ==
    /\ s \in [1 .. n -> RingOf(d)] /\ s[1] = d
    /\ \A i \in 1 .. n - 1 : s[i + 1] = holds[s[i]]
    /\ \A i, j \in 1 .. n : s[i] = s[j] => i = j

Walked(d) == {n \in 1 .. Cardinality(RingOf(d)) : \E s : Walk(d, n, s)}

\* A bounded set of numbers has a largest.
LEMMA Largest ==
    ASSUME NEW m \in Nat, NEW S \in SUBSET (0 .. m), S # {}
    PROVE  \E n \in S : \A k \in S : k <= n
<1> DEFINE T == {j \in Nat : \E n \in S : j = m - n}
           R == OpToRel(<, Nat)
<1>1. T \subseteq Nat /\ T # {}
  <2>1. PICK n \in S : TRUE
        OBVIOUS
  <2>2. m - n \in Nat
        OBVIOUS
  <2> QED
      BY <2>1, <2>2
<1>2. IsWellFoundedOn(R, Nat)
      BY NatLessThanWellFounded
<1>3. \E x \in T : \A y \in T : ~(<<y, x>> \in R)
  <2> HIDE DEF T, R
  <2> QED
      BY <1>1, <1>2, WFMin
<1>4. \A x, y \in Nat : y < x => <<y, x>> \in R
      BY DEF OpToRel
<1> HIDE DEF R
<1>5. PICK x \in T : \A y \in T : ~(<<y, x>> \in R)
      BY <1>3
<1>6. PICK n \in S : x = m - n
      OBVIOUS
<1>7. \A k \in S : k <= n
  <2>1. SUFFICES ASSUME NEW k \in S, k > n
                 PROVE  FALSE
        OBVIOUS
  <2>2. m - k \in T
        OBVIOUS
  <2>3. m - k < x /\ m - k \in Nat /\ x \in Nat
        BY <1>6, <2>1
  <2> QED
      BY <2>2, <2>3, <1>4, <1>5
<1> QED
    BY <1>7

\* The longest walk comes round: it has every file of the ring.
LEMMA LongestWalk ==
    ASSUME HoldsTyped, NEW d \in Docs, InRing(d),
           NEW n \in Walked(d), \A k \in Walked(d) : k <= n, NEW s, Walk(d, n, s)
    PROVE  {s[i] : i \in 1 .. n} = RingOf(d)
<1> DEFINE T == {s[i] : i \in 1 .. n}
           next == holds[s[n]]
           t == [i \in 1 .. n + 1 |-> IF i = n + 1 THEN next ELSE s[i]]
<1>1. /\ d \in RingOf(d) /\ RingOf(d) \subseteq Docs /\ Closed(RingOf(d))
      /\ \A S \in SUBSET Docs : d \in S /\ Closed(S) => RingOf(d) \subseteq S
      BY RingIsLeast
<1>2. IsFiniteSet(RingOf(d)) /\ Cardinality(RingOf(d)) \in Nat
      BY <1>1, RenameAssumption, FS_Subset, FS_CardinalityType DEF RenameAssumption
<1>3. n \in Nat /\ n >= 1 /\ n <= Cardinality(RingOf(d))
      BY <1>2 DEF Walked
<1>4. T \subseteq RingOf(d) /\ next \in RingOf(d)
      BY <1>1, <1>3 DEF Walk, Closed
<1>5. next \in T
  <2>1. SUFFICES ASSUME next \notin T
                 PROVE  FALSE
        OBVIOUS
  <2>2. t \in [1 .. n + 1 -> RingOf(d)] /\ t[1] = d
        BY <1>3, <1>4 DEF Walk
  <2>3. \A i \in 1 .. n : t[i + 1] = holds[t[i]]
    <3>1. TAKE i \in 1 .. n
    <3>2. CASE i = n
          BY <3>2, <1>3
    <3>3. CASE i # n
          BY <3>3, <1>3 DEF Walk
    <3> QED
        BY <3>2, <3>3
  <2>4. \A i, j \in 1 .. n + 1 : t[i] = t[j] => i = j
    <3>1. \A i \in 1 .. n : t[i] = s[i] /\ s[i] # next
          BY <2>1, <1>3
    <3>2. t[n + 1] = next
          BY <1>3
    <3>3. \A i \in 1 .. n + 1 : i \in 1 .. n \/ i = n + 1
          BY <1>3
    <3>4. \A i, j \in 1 .. n : s[i] = s[j] => i = j
          BY DEF Walk
    <3> HIDE DEF t, next
    <3> QED
        BY <3>1, <3>2, <3>3, <3>4
  <2>5. Walk(d, n + 1, t)
    <3> HIDE DEF t
    <3> QED
        BY <2>2, <2>3, <2>4, <1>3 DEF Walk
  <2>6. n + 1 <= Cardinality(RingOf(d))
    <3>1. t \in Injection(1 .. n + 1, RingOf(d))
      <4> HIDE DEF t
      <4> QED
          BY <2>2, <2>4 DEF Injection, IsInjective
    <3>2. Cardinality(1 .. n + 1) = n + 1
          BY <1>3, FS_Interval
    <3> HIDE DEF t
    <3> QED
        BY <3>1, <3>2, <1>2, FS_Injection
  <2>7. n + 1 \in Walked(d)
    <3> HIDE DEF t
    <3> QED
        BY <2>5, <2>6, <1>2, <1>3 DEF Walked
  <2> QED
      BY <2>7, <1>3
<1>6. Closed(T)
  <2>1. SUFFICES ASSUME NEW i \in 1 .. n
                 PROVE  holds[s[i]] \in T
        BY DEF Closed
  <2>2. CASE i = n
        BY <2>2, <1>5
  <2>3. CASE i # n
    <3>1. i + 1 \in 1 .. n /\ i \in 1 .. n - 1
          BY <2>3, <1>3
    <3>2. s[i + 1] = holds[s[i]]
          BY <3>1 DEF Walk
    <3> QED
        BY <3>1, <3>2
  <2> QED
      BY <2>2, <2>3
<1>7. d \in T /\ T \in SUBSET Docs
      BY <1>1, <1>3, <1>4 DEF Walk
<1> QED
    BY <1>1, <1>4, <1>6, <1>7

\* A ring can be put in order from any of its files, as apply does.
LEMMA RingInOrder ==
    ASSUME HoldsTyped, NEW d \in Docs, InRing(d)
    PROVE  /\ RingFrom(d) \in Seq(RingOf(d))
           /\ {RingFrom(d)[i] : i \in DOMAIN RingFrom(d)} = RingOf(d)
<1> DEFINE R == RingOf(d)
           U == UNION {[1 .. n -> R] : n \in 1 .. Cardinality(R)}
           IsOrder(s) == /\ s[1] = d
                         /\ {s[i] : i \in DOMAIN s} = R
                         /\ \A i \in 1 .. Len(s) - 1 : s[i + 1] = holds[s[i]]
<1>1. d \in R /\ R \subseteq Docs
      BY RingIsLeast
<1>2. IsFiniteSet(R) /\ Cardinality(R) \in Nat
      BY <1>1, RenameAssumption, FS_Subset, FS_CardinalityType DEF RenameAssumption
<1>3. 1 \in Walked(d)
  <2>1. Cardinality(R) # 0
        BY <1>1, <1>2, FS_EmptySet
  <2>2. Walk(d, 1, [i \in 1 .. 1 |-> d])
        BY <1>1 DEF Walk
  <2> QED
      BY <2>1, <2>2, <1>2 DEF Walked
<1>4. PICK n \in Walked(d) : \A k \in Walked(d) : k <= n
  <2>1. Walked(d) \in SUBSET (0 .. Cardinality(R))
        BY <1>2 DEF Walked
  <2> QED
      BY <2>1, <1>2, <1>3, Largest
<1>5. PICK s : Walk(d, n, s)
      BY DEF Walked
<1>6. {s[i] : i \in 1 .. n} = R
      BY <1>4, <1>5, LongestWalk
<1>7. n \in 1 .. Cardinality(R) /\ n \in Nat
      BY <1>2 DEF Walked
<1>8. s \in U
      BY <1>5, <1>7 DEF Walk
<1>9. DOMAIN s = 1 .. n /\ Len(s) = n
  <2>1. s \in Seq(R)
        BY <1>5, <1>7 DEF Walk
  <2> QED
      BY <2>1, <1>5, <1>7, LenProperties DEF Walk
<1>10. IsOrder(s)
       BY <1>5, <1>6, <1>9 DEF Walk
<1>11. RingFrom(d) = CHOOSE q \in U : IsOrder(q)
       BY DEF RingFrom
<1> HIDE DEF U, IsOrder
<1>12. RingFrom(d) \in U /\ IsOrder(RingFrom(d))
       BY <1>8, <1>10, <1>11
<1>13. U \subseteq Seq(R)
       BY <1>2 DEF U
<1> QED
    BY <1>12, <1>13 DEF IsOrder

-----------------------------------------------------------------------------
(* Moves. *)

LEMMA TypeParts ==
    TypeOK <=> /\ AtTyped /\ PlanTyped /\ RunTyped /\ PlacesTyped /\ StuckTyped
               /\ LedgersTyped /\ faults \in 0 .. MaxFaults
<1>1. Forward \cup Backing \cup {"leave", "over", "cut"}
        = {"check", "apply", "ring", "return", "index", "save", "undo", "back",
           "backring", "leave", "over", "cut"}
      BY DEF Forward, Backing
<1> QED
    BY <1>1, ZenonT(30) DEF TypeOK, AtTyped, PlanTyped, RunTyped, PlacesTyped, StuckTyped,
        LedgersTyped

\* A rename to a name no file has moves the one file that had the old name.
LEMMA OneMoves ==
    ASSUME AtTyped, Distinct, NEW f \in Files, at[f] # Nowhere, NEW p \in Paths, Free(p),
           at' = Renamed(at[f], p)
    PROVE  at' = [at EXCEPT ![f] = p] /\ AtTyped' /\ Distinct'
<1>1. at' = [at EXCEPT ![f] = p]
  <2>1. \A g \in Files : at'[g] = IF g = f THEN p ELSE at[g]
        BY DEF Renamed, Distinct, Free
  <2>2. at \in [Files -> Paths \cup {Nowhere}]
        BY DEF AtTyped
  <2>3. at' = [g \in Files |-> at'[g]]
        BY DEF Renamed
  <2> QED
      BY <2>1, <2>2, <2>3
<1>2. AtTyped'
      BY <1>1 DEF AtTyped
<1>3. Distinct'
  <2>1. \A g \in Files : at'[g] = IF g = f THEN p ELSE at[g]
        BY <1>1 DEF AtTyped
  <2> QED
      BY <2>1 DEF Distinct, Free
<1> QED
    BY <1>1, <1>2, <1>3

LEMMA PutMoves ==
    ASSUME AtTyped, Distinct, NEW f \in Files, at[f] # Nowhere, NEW p \in Paths,
           Put(at[f], p)
    PROVE  /\ Free(p) /\ at' = [at EXCEPT ![f] = p] /\ faults' = faults
           /\ AtTyped' /\ Distinct'
BY OneMoves DEF Put

LEMMA LandMoves ==
    ASSUME AtTyped, Distinct, PlanTyped, NEW f \in Files, at[f] # Nowhere,
           NEW d \in Docs, newPath[d] # Nowhere, Land(d, at[f])
    PROVE  /\ AtTyped' /\ Distinct' /\ faults' = faults
           /\ \E p \in Landings(d) :
                  /\ p \in Names /\ Free(p)
                  /\ at' = [at EXCEPT ![f] = p]
                  /\ newPath' = [newPath EXCEPT ![d] = p]
<1>1. PICK p \in Landings(d) :
          at' = Renamed(at[f], p) /\ newPath' = [newPath EXCEPT ![d] = p]
      BY DEF Land
<1>2. p \in Names /\ Free(p)
      BY DEF Landings, PlanTyped
<1>3. p \in Paths
      BY <1>2 DEF Paths
<1> QED
    BY <1>1, <1>2, <1>3, OneMoves DEF Land

\* Rings are made of what holds what, and places of what mapping and stranded say.
LEMMA RingsSame ==
    ASSUME holds' = holds
    PROVE  /\ \A d \in Docs : (InRing(d)' <=> InRing(d)) /\ RingOf(d)' = RingOf(d)
           /\ HoldsOne => HoldsOne'
BY DEF InRing, RingOf, Closed, HoldsOne

LEMMA PlacesSame ==
    ASSUME mapping' = mapping, stranded' = stranded
    PROVE  /\ Moves' = Moves
           /\ \A d \in Docs : Where(d)' = Where(d) /\ PlaceOf(d)' = PlaceOf(d)
BY DEF Moves, Where, PlaceOf

\* Names are places, and a place of a file is a name.
LEMMA PlaceTyped ==
    ASSUME PlacesTyped, NEW d \in Docs
    PROVE  /\ PlaceOf(d) \in Paths /\ PlaceOf(d) # Nowhere
           /\ Home[d] \in Names /\ Home[d] \in Paths /\ Home[d] # Nowhere
           /\ d \in Moves => Where(d) \in Paths /\ PlaceOf(d) = Where(d)
BY RenameAssumption DEF RenameAssumption, PlacesTyped, PlaceOf, Moves, Where, Paths

LEMMA NoneWent ==
    ASSUME went = <<>>
    PROVE  InWent = {}
BY DEF InWent

-----------------------------------------------------------------------------
(* Core holds at first, and every action of apply keeps it. *)

LEMMA InitCore == Init => Core
<1> SUFFICES ASSUME Init PROVE Core
    OBVIOUS
<1>1. Home \in [Docs -> Names] /\ (\A d, e \in Docs : Home[d] = Home[e] => d = e)
      /\ Docs \cap Strangers = {} /\ Nobody \notin Docs
      /\ Nowhere \notin Names \cup Temps
      BY RenameAssumption DEF RenameAssumption
<1>2. AtTyped /\ Distinct
      BY <1>1 DEF Init, AtTyped, Distinct, Files, Paths
<1>3. plan \in Plans /\ newPath = plan
      /\ plan \in [Docs -> Names \cup {Nowhere}]
      BY DEF Init, Plans
<1>4. PlanTyped /\ NewPathsPlanned
      BY <1>3 DEF PlanTyped, NewPathsPlanned, Init
<1>5. RunTyped /\ PlacesTyped /\ StuckTyped
      BY DEF Init, RunTyped, PlacesTyped, StuckTyped, Forward
<1>6. HoldsOne /\ HoldsPlan /\ HoldsMoves
      BY <1>1 DEF Init, HoldsOne, HoldsPlan, HoldsMoves, Backing
<1>7. RingsWhole
      BY DEF Init, RingsWhole, Tried
<1>8. RingUnderWay
      BY DEF Init, RingUnderWay, InARing
<1>9. Moves = {} /\ InWent = {}
      BY DEF Init, Moves, InWent
<1>10. PlacedForward
       BY <1>9 DEF Init, PlacedForward, PlaceOf, Files
<1>11. PlacedBack /\ StuckThere
       BY DEF Init, PlacedBack, Backing, StuckThere
<1> QED
    BY <1>2, <1>4, <1>5, <1>6, <1>7, <1>8, <1>10, <1>11 DEF Core

\* Between two chains or rings of apply every file that was tried is where the
\* mapping says, and the others are where they were.
LEMMA AtApply ==
    ASSUME Core, pc = "apply"
    PROVE  /\ first = Nobody /\ Tried = done /\ went = <<>> /\ InWent = {} /\ stuck = <<>>
           /\ \A d \in Docs : at[d] = PlaceOf(d)
           /\ \A d \in Docs \ done : d \notin Moves /\ at[d] = Home[d]
           /\ \A d \in Docs \ done : InRing(d) => holds[d] \notin done
<1>1. first = Nobody /\ went = <<>>
      BY DEF Core, RingUnderWay, InARing
<1>2. Nobody \notin Docs
      BY RenameAssumption DEF RenameAssumption
<1>3. Tried = done /\ InWent = {}
      BY <1>1, NoneWent DEF Tried
<1>4. /\ stuck = <<>> /\ Moves \subseteq done
      /\ \A d \in Docs : at[d] = PlaceOf(d)
      BY <1>1, <1>2, <1>3 DEF Core, PlacedForward, Forward, Moving
<1>5. \A d \in Docs \ done : InRing(d) => holds[d] \notin done
      BY <1>3 DEF Core, RingsWhole, Moving
<1> QED
    BY <1>1, <1>3, <1>4, <1>5 DEF PlaceOf

LEMMA CheckStep == Core /\ Check => Core'
<1> SUFFICES ASSUME Core, Check PROVE Core'
    OBVIOUS
<1> USE DEF Check
<1>1. AtTyped' /\ PlacesTyped' /\ StuckTyped' /\ Distinct' /\ NewPathsPlanned' /\ StuckThere'
      BY DEF Core, AtTyped, PlacesTyped, StuckTyped, Distinct, NewPathsPlanned, StuckThere
<1>2. RunTyped'
      BY DEF Core, RunTyped, Forward, Check, ringvars
<1>3. first = Nobody /\ went = <<>> /\ done = {}
      BY DEF Core, RingUnderWay, RingsWhole, InARing
<1>4. /\ Moves = {} /\ InWent = {} /\ stuck = <<>>
      /\ \A d \in Docs : at[d] = Home[d]
  <2>1. Moves = {} /\ InWent = {}
        BY <1>3, NoneWent DEF Core, PlacedForward, Moving
  <2> QED
      BY <2>1, <1>3, RenameAssumption DEF RenameAssumption, Core, PlacedForward, Forward, PlaceOf
<1>5. PlacedForward' /\ PlacedBack'
  <2>1. Moves' = {} /\ InWent' = {} /\ stuck' = <<>>
        BY <1>4 DEF Moves, InWent, ringvars
  <2> QED
      BY <2>1, <1>4 DEF PlacedForward, PlacedBack, PlaceOf, Backing
<1>6. RingUnderWay'
      BY <1>3 DEF RingUnderWay, InARing, ringvars
<1>7. RingsWhole'
      BY <1>3 DEF RingsWhole, Tried, Moving, Backing, ringvars
<1>8. CASE pc' = "leave" /\ UNCHANGED holds
  <2>1. PlanTyped' /\ HoldsOne' /\ HoldsPlan' /\ HoldsMoves'
        BY <1>8 DEF Core, PlanTyped, HoldsOne, HoldsPlan, HoldsMoves, Backing
  <2> QED
      BY <2>1, <1>1, <1>2, <1>5, <1>6, <1>7 DEF Core
<1>9. CASE pc' = "apply"
  <2> DEFINE holder(d) == Holder(d, plan[d], Planned)
  <2>1. holds' = [d \in Docs |-> IF d \notin Planned THEN Nobody
                                 ELSE IF holder(d) = Other THEN Nobody ELSE holder(d)]
        BY <1>9
  <2>2. \A d \in Docs : \/ holder(d) \in Planned /\ at[holder(d)] = plan[d]
                        \/ /\ holder(d) \in {Nobody, Other}
                           /\ \A e \in Planned : at[e] # plan[d]
        BY DEF Holder
  <2> HIDE DEF holder
  <2>3. /\ Nobody \notin Docs /\ Other \notin Docs
        /\ \A d, e \in Docs : Home[d] = Home[e] => d = e
        /\ \A d \in Docs : Home[d] # Nowhere
        BY RenameAssumption DEF RenameAssumption
  <2>4. /\ \A d, e \in Docs : plan[d] = plan[e] /\ plan[d] # Nowhere => d = e
        /\ \A d, e \in Docs : plan[d] = Home[e] => plan[e] # Nowhere
        BY DEF Core, NewPathsPlanned, Plans
  <2>5. /\ \A d \in Docs : holds'[d] # Nobody =>
               /\ d \in Planned /\ holds'[d] \in Planned
               /\ plan[d] = Home[holds'[d]]
        /\ \A d, e \in Docs : plan[d] = Home[e] => holds'[d] = e
        BY <2>1, <2>2, <2>3, <2>4, <1>4 DEF Planned
  <2>6. Planned' = Planned /\ plan' = plan /\ Planned \subseteq Docs
        BY DEF Planned
  <2>7. HoldsPlan' /\ HoldsMoves'
        BY <2>5, <2>6, <1>9 DEF HoldsPlan, HoldsMoves, Backing
  <2>8. HoldsOne'
        BY <2>3, <2>4, <2>5, <2>6 DEF HoldsOne, Planned
  <2>9. PlanTyped'
    <3>1. \A d \in Docs : holds'[d] \in Docs \cup {Nobody, Other}
          BY <2>5, <2>6
    <3>2. holds' = [d \in Docs |-> holds'[d]]
          BY <2>1
    <3> QED
        BY <3>1, <3>2 DEF Core, PlanTyped
  <2> QED
      BY <2>7, <2>8, <2>9, <1>1, <1>2, <1>5, <1>6, <1>7 DEF Core
<1> QED
    BY <1>8, <1>9

LEMMA RenameOneStep == ASSUME NEW d \in Docs PROVE Core /\ RenameOne(d) => Core'
<1> SUFFICES ASSUME Core, RenameOne(d) PROVE Core'
    OBVIOUS
<1>1. /\ pc = "apply" /\ pc' = "apply" /\ d \in Planned \ done /\ ~InRing(d)
      /\ done' = done \cup {d}
      /\ UNCHANGED <<plan, holds, first, aside, went, going, stranded, stuck>>
      BY DEF RenameOne, Ready, ringvars
<1>2. /\ first = Nobody /\ Tried = done /\ went = <<>> /\ InWent = {} /\ stuck = <<>>
      /\ \A e \in Docs : at[e] = PlaceOf(e)
      /\ d \notin Moves /\ at[d] = Home[d]
      /\ \A e \in Docs \ done : InRing(e) => holds[e] \notin done
      BY <1>1, AtApply
<1>3. AtTyped /\ PlanTyped /\ RunTyped /\ PlacesTyped /\ StuckTyped /\ Distinct
      BY DEF Core
<1>4. StuckTyped' /\ StuckThere'
      BY <1>1, <1>2, <1>3 DEF StuckTyped, StuckThere
<1>5. HoldsOne' /\ HoldsPlan' /\ HoldsMoves'
      BY <1>1 DEF Core, HoldsOne, HoldsPlan, HoldsMoves, Planned, Backing
<1>6. RingsWhole'
  <2>1. Tried' = done \cup {d}
        BY <1>1, <1>2 DEF Tried
  <2>2. \A e \in Docs : (InRing(e)' <=> InRing(e)) /\ holds'[e] = holds[e]
        BY <1>1, RingsSame
  <2>3. \A e \in Docs : InRing(e) => holds[e] # d
        BY <1>1, RingGoesOn
  <2> QED
      BY <1>1, <1>2, <2>1, <2>2, <2>3 DEF RingsWhole, Moving
<1>7. RingUnderWay'
      BY <1>1, <1>2 DEF RingUnderWay, InARing
<1>8. PlacedBack'
      BY <1>1 DEF PlacedBack, Backing
<1>9. d \in Files /\ Nobody \notin Docs /\ newPath[d] # Nowhere /\ at[d] # Nowhere
      BY <1>1, <1>2, <1>3, PlaceTyped, RenameAssumption
         DEF RenameAssumption, Files, Core, NewPathsPlanned, Planned
<1>10. CASE Land(d, Home[d]) /\ moved' = moved \cup {d}
            /\ mapping' = [mapping EXCEPT ![d] = newPath'[d]]
  <2>1. PICK p : /\ p \in Names /\ Free(p)
                 /\ at' = [at EXCEPT ![d] = p]
                 /\ newPath' = [newPath EXCEPT ![d] = p]
        BY <1>2, <1>3, <1>9, <1>10, LandMoves
  <2>2. AtTyped' /\ Distinct'
        BY <1>2, <1>3, <1>9, <1>10, LandMoves
  <2>3. p \in Paths /\ p # Nowhere
        BY <2>1, RenameAssumption DEF RenameAssumption, Paths
  <2>4. PlanTyped' /\ NewPathsPlanned'
        BY <1>1, <1>3, <2>1, <2>3, <1>9 DEF Core, PlanTyped, NewPathsPlanned
  <2>5. RunTyped' /\ PlacesTyped'
        BY <1>1, <1>3, <1>10, <2>1, <2>3 DEF RunTyped, PlacesTyped, PlanTyped
  <2>6. /\ mapping' = [mapping EXCEPT ![d] = p] /\ mapping'[d] = p
        /\ \A e \in Docs \ {d} : mapping'[e] = mapping[e]
        BY <1>3, <1>10, <2>1 DEF PlanTyped, PlacesTyped
  <2>7. Moves' = Moves \cup {d} /\ PlaceOf(d)' = p
        /\ \A e \in Docs \ {d} : PlaceOf(e)' = PlaceOf(e)
        BY <1>1, <2>3, <2>6 DEF Moves, PlaceOf, Where
  <2>8. \A e \in Docs : at'[e] = IF e = d THEN p ELSE at[e]
        BY <2>1, <1>3 DEF AtTyped, Files
  <2>9. PlacedForward'
        BY <1>1, <1>2, <2>7, <2>8 DEF Core, PlacedForward, InWent, Moving
  <2> QED
      BY <1>4, <1>5, <1>6, <1>7, <1>8, <2>2, <2>4, <2>5, <2>9 DEF Core
<1>11. CASE UNCHANGED <<at, newPath, moved, mapping>>
  <2>1. AtTyped' /\ PlanTyped' /\ PlacesTyped' /\ Distinct' /\ NewPathsPlanned'
        BY <1>1, <1>3, <1>11
           DEF Core, AtTyped, PlanTyped, PlacesTyped, Distinct, NewPathsPlanned
  <2>2. RunTyped'
        BY <1>1, <1>3, <1>11 DEF RunTyped
  <2>3. PlacedForward'
        BY <1>1, <1>2, <1>11, PlacesSame DEF Core, PlacedForward, InWent, Moving
  <2> QED
      BY <1>4, <1>5, <1>6, <1>7, <1>8, <2>1, <2>2, <2>3 DEF Core
<1> QED
    BY <1>10, <1>11 DEF RenameOne, Refused

LEMMA RingAsideStep == ASSUME NEW d \in Docs PROVE Core /\ RingAside(d) => Core'
<1> SUFFICES ASSUME Core, RingAside(d) PROVE Core'
    OBVIOUS
<1>1. /\ pc = "apply" /\ d \in Planned \ done /\ InRing(d)
      /\ UNCHANGED <<plan, newPath, holds, moved, mapping, stranded, stuck>>
      BY DEF RingAside
<1>2. /\ first = Nobody /\ Tried = done /\ went = <<>> /\ InWent = {} /\ stuck = <<>>
      /\ \A e \in Docs : at[e] = PlaceOf(e)
      /\ d \notin Moves /\ at[d] = Home[d]
      /\ \A e \in Docs \ done : InRing(e) => holds[e] \notin done
      BY <1>1, AtApply
<1>3. AtTyped /\ PlanTyped /\ RunTyped /\ PlacesTyped /\ StuckTyped /\ Distinct /\ HoldsOne
      BY DEF Core
<1>4. HoldsTyped
      BY <1>3 DEF PlanTyped, HoldsTyped
<1>5. /\ d \in RingOf(d) /\ RingOf(d) \subseteq Docs
      /\ RingOf(d) \cap done = {}
      /\ \A e \in Docs \ (done \cup RingOf(d)) : InRing(e) => holds[e] \notin done \cup RingOf(d)
      BY <1>1, <1>2, <1>3, <1>4, RingIsLeast, RingUntried, RingsApart
<1>6. PlanTyped' /\ PlacesTyped' /\ NewPathsPlanned' /\ StuckTyped' /\ StuckThere' /\ HoldsOne'
      BY <1>1, <1>2, <1>3
         DEF Core, PlanTyped, PlacesTyped, NewPathsPlanned, StuckTyped, StuckThere, HoldsOne
<1>7. d \in Files /\ Nobody \notin Docs /\ at[d] # Nowhere
      BY <1>1, <1>2, <1>3, PlaceTyped, RenameAssumption DEF RenameAssumption, Files
<1>8. /\ Moves' = Moves /\ \A e \in Docs : PlaceOf(e)' = PlaceOf(e)
      /\ \A e \in Docs : (InRing(e)' <=> InRing(e)) /\ RingOf(e)' = RingOf(e)
                         /\ holds'[e] = holds[e]
      BY <1>1, PlacesSame, RingsSame
<1>9. ASSUME NEW a \in Temps, Put(Home[d], a), pc' = "ring",
             first' = d, aside' = a, went' = <<>>, UNCHANGED <<done, going>>
      PROVE  Core'
  <2>1. AtTyped' /\ Distinct' /\ at' = [at EXCEPT ![d] = a]
        BY <1>2, <1>3, <1>7, <1>9, PutMoves DEF Paths
  <2>2. at'[d] = a /\ \A e \in Docs \ {d} : at'[e] = at[e]
        BY <2>1, <1>3, <1>7 DEF AtTyped
  <2>3. RunTyped'
        BY <1>1, <1>3, <1>9 DEF RunTyped, Forward
  <2>4. HoldsPlan' /\ HoldsMoves' /\ PlacedBack'
        BY <1>1, <1>9 DEF Core, HoldsPlan, HoldsMoves, Planned, Backing, PlacedBack
  <2>5. InWent' = {}
        BY <1>9 DEF InWent
  <2>6. RingUnderWay'
        BY <1>1, <1>5, <1>8, <1>9, <2>2, <2>5 DEF RingUnderWay, InARing
  <2>7. RingsWhole'
    <3>1. Tried' = done \cup RingOf(d)
          BY <1>7, <1>8, <1>9 DEF Tried
    <3> QED
        BY <1>5, <1>8, <1>9, <3>1 DEF RingsWhole
  <2>8. PlacedForward'
        BY <1>1, <1>2, <1>8, <1>9, <2>2, <2>5 DEF Core, PlacedForward, Moving
  <2> QED
      BY <1>6, <2>1, <2>3, <2>4, <2>6, <2>7, <2>8 DEF Core
<1>10. ASSUME done' = done \cup RingOf(d), UNCHANGED <<at, pc, ringvars>>
       PROVE  Core'
  <2> USE <1>10 DEF ringvars
  <2>1. AtTyped' /\ Distinct'
        BY <1>3 DEF AtTyped, Distinct
  <2>2. RunTyped'
        BY <1>1, <1>3, <1>5 DEF RunTyped
  <2>3. HoldsPlan' /\ HoldsMoves' /\ PlacedBack'
        BY <1>1 DEF Core, HoldsPlan, HoldsMoves, Planned, Backing, PlacedBack
  <2>4. RingUnderWay'
        BY <1>1, <1>2 DEF RingUnderWay, InARing
  <2>5. RingsWhole'
    <3>1. Tried' = done \cup RingOf(d)
          BY <1>2, <1>7 DEF Tried
    <3> QED
        BY <1>1, <1>5, <1>8, <3>1 DEF RingsWhole
  <2>6. InWent' = {}
        BY <1>2 DEF InWent
  <2>7. PlacedForward'
        BY <1>1, <1>2, <1>8, <2>6 DEF Core, PlacedForward, Moving
  <2> QED
      BY <1>6, <2>1, <2>2, <2>3, <2>4, <2>5, <2>7 DEF Core
<1> QED
    BY <1>9, <1>10 DEF RingAside

\* While a ring moves its first file is aside, those that went are at their new
\* names, and the rest where they were.
LEMMA AtRing ==
    ASSUME Core, pc \in {"ring", "return"}
    PROVE  /\ first \in Docs \ done /\ InRing(first) /\ aside \in Temps /\ at[first] = aside
           /\ first \in RingOf(first) /\ RingOf(first) \subseteq Docs \cap Planned
           /\ InWent \in SUBSET (RingOf(first) \ {first}) /\ InWent \cap done = {}
           /\ Tried = done \cup RingOf(first)
           /\ \A e \in Docs \ Tried : InRing(e) => holds[e] \notin Tried
           /\ Moves \subseteq done /\ stuck = <<>>
           /\ \A e \in InWent : at[e] = newPath[e]
           /\ \A e \in Docs \ (InWent \cup {first}) : at[e] = PlaceOf(e)
           /\ \A e \in Docs \ (InWent \cup {first} \cup done) : at[e] = Home[e]
           /\ \A e \in RingOf(first) : newPath[e] # Nowhere /\ holds[e] \in RingOf(first)
           /\ HoldsTyped /\ HoldsOne
<1>1. /\ first \in Docs \ done /\ InRing(first) /\ aside \in Temps /\ at[first] = aside
      /\ InWent \subseteq RingOf(first) \ ({first} \cup done)
      BY DEF Core, RingUnderWay, InARing
<1>2. HoldsTyped /\ HoldsOne
      BY DEF Core, PlanTyped, HoldsTyped
<1>3. /\ first \in RingOf(first) /\ RingOf(first) \subseteq Docs
      /\ \A e \in RingOf(first) : holds[e] \in RingOf(first)
      BY <1>1, <1>2, RingIsLeast DEF Closed
<1>4. Nobody \notin Docs
      BY RenameAssumption DEF RenameAssumption
<1>5. \A e \in RingOf(first) : e \in Planned /\ newPath[e] # Nowhere
      BY <1>3, <1>4 DEF Core, HoldsPlan, NewPathsPlanned, Planned
<1>6. /\ Tried = done \cup RingOf(first)
      /\ \A e \in Docs \ Tried : InRing(e) => holds[e] \notin Tried
      BY <1>1, <1>4 DEF Core, RingsWhole, Moving, Tried
<1>7. /\ Moves \subseteq done /\ stuck = <<>>
      /\ \A e \in Docs \ {first} : at[e] = IF e \in InWent THEN newPath[e] ELSE PlaceOf(e)
      BY DEF Core, PlacedForward, Forward, Moving
<1>8. /\ \A e \in InWent : at[e] = newPath[e]
      /\ \A e \in Docs \ (InWent \cup {first}) : at[e] = PlaceOf(e)
      BY <1>1, <1>3, <1>7
<1>9. \A e \in Docs \ (InWent \cup {first} \cup done) : at[e] = Home[e]
      BY <1>7 DEF PlaceOf
<1> QED
    BY <1>1, <1>2, <1>3, <1>5, <1>6, <1>7, <1>8, <1>9

\* Which of a ring moves next, from where, and that it has a new name.
LEMMA RingNext ==
    ASSUME Core, pc = "ring"
    PROVE  LET d == NextOf(RingOf(first), InWent) IN
           /\ d \in RingOf(first) \ InWent /\ d \in Docs \ done
           /\ newPath[d] # Nowhere
           /\ at[d] = IF d = first THEN aside ELSE Home[d]
           /\ IF d = first THEN RingOf(first) = InWent \cup {first}
                           ELSE holds[d] \in InWent \cup {first}
<1> DEFINE d == NextOf(RingOf(first), InWent)
<1>1. /\ d \in RingOf(first) \ InWent
      /\ IF d = first THEN RingOf(first) = InWent \cup {first}
                      ELSE holds[d] \in InWent \cup {first}
      BY AtRing, RingTurn
<1> HIDE DEF d
<1>2. d \in Docs \ done
      BY <1>1, AtRing DEF Core, RingUnderWay
<1>3. newPath[d] # Nowhere
      BY <1>1, AtRing
<1>4. at[d] = IF d = first THEN aside ELSE Home[d]
      BY <1>1, <1>2, AtRing
<1> QED
    BY <1>1, <1>2, <1>3, <1>4 DEF d

LEMMA RingStepStep == Core /\ RingStep => Core'
<1> SUFFICES ASSUME Core, RingStep PROVE Core'
    OBVIOUS
<1> DEFINE R == RingOf(first)
           d == NextOf(R, InWent)
           Moved == Land(d, IF d = first THEN aside ELSE Home[d])
<1>1. pc = "ring" /\ UNCHANGED <<plan, holds, going, stranded, stuck>>
      BY DEF RingStep
<1>2. \/ /\ Moved /\ d # first /\ went' = Append(went, d)
         /\ UNCHANGED <<pc, done, moved, mapping, first, aside>>
      \/ /\ Moved /\ d = first /\ pc' = "apply"
         /\ done' = done \cup R /\ moved' = moved \cup R
         /\ mapping' = [e \in Docs |-> IF e \in R THEN newPath'[e] ELSE mapping[e]]
         /\ first' = Nobody /\ aside' = Nowhere /\ went' = <<>>
      \/ /\ pc' = "return"
         /\ UNCHANGED <<at, newPath, done, moved, mapping, first, aside, went>>
      BY DEF RingStep, Refused
<1>3. /\ d \in R \ InWent /\ d \in Docs \ done /\ newPath[d] # Nowhere
      /\ at[d] = IF d = first THEN aside ELSE Home[d]
      /\ d = first => R = InWent \cup {first}
      BY <1>1, RingNext
<1> HIDE DEF d
<1>4. /\ first \in Docs \ done /\ InRing(first) /\ aside \in Temps /\ at[first] = aside
      /\ first \in R /\ R \subseteq Docs
      /\ InWent \subseteq R \ {first} /\ InWent \cap done = {}
      /\ Tried = done \cup R
      /\ \A e \in Docs \ Tried : InRing(e) => holds[e] \notin Tried
      /\ Moves \subseteq done /\ stuck = <<>>
      /\ \A e \in InWent : at[e] = newPath[e]
      /\ \A e \in Docs \ (InWent \cup {first}) : at[e] = PlaceOf(e)
      /\ \A e \in R : newPath[e] # Nowhere
      BY <1>1, AtRing
<1>5. R \cap done = {}
      BY <1>1 DEF Core, RingUnderWay
<1>6. AtTyped /\ PlanTyped /\ RunTyped /\ PlacesTyped /\ StuckTyped /\ Distinct
      BY DEF Core
<1>7. StuckTyped' /\ StuckThere' /\ HoldsOne'
      BY <1>1, <1>4, <1>6 DEF StuckTyped, StuckThere, Core, HoldsOne
<1>8. /\ RingOf(first)' = RingOf(first') /\ holds' = holds
      /\ \A e \in Docs : (InRing(e)' <=> InRing(e)) /\ RingOf(e)' = RingOf(e)
      BY <1>1, RingsSame DEF RingOf, Closed
<1>9. Nobody \notin Docs /\ Nowhere \notin Names /\ Nowhere \notin Temps
      BY RenameAssumption DEF RenameAssumption
<1>10. pc' \in {"apply", "ring", "return"}
       BY <1>1, <1>2
<1>11. HoldsPlan' /\ HoldsMoves' /\ PlacedBack'
       BY <1>1, <1>10 DEF Core, HoldsPlan, HoldsMoves, Planned, Backing, PlacedBack
<1>12. ASSUME Moved
       PROVE  /\ AtTyped' /\ Distinct' /\ PlanTyped' /\ NewPathsPlanned'
              /\ at'[d] = newPath'[d] /\ newPath'[d] # Nowhere /\ newPath'[d] \in Names
              /\ \A e \in Docs \ {d} : at'[e] = at[e] /\ newPath'[e] = newPath[e]
  <2>1. d \in Files /\ at[d] # Nowhere
        BY <1>3, <1>4, <1>9, PlaceTyped, <1>6 DEF Files
  <2>2. Land(d, at[d])
        BY <1>3, <1>12
  <2>3. /\ AtTyped' /\ Distinct'
        /\ \E p \in Landings(d) : /\ p \in Names /\ Free(p)
                                  /\ at' = [at EXCEPT ![d] = p]
                                  /\ newPath' = [newPath EXCEPT ![d] = p]
        BY <1>3, <1>6, <2>1, <2>2, LandMoves
  <2>4. PICK p \in Names : at' = [at EXCEPT ![d] = p] /\ newPath' = [newPath EXCEPT ![d] = p]
        BY <2>3
  <2>5. /\ at'[d] = p /\ newPath'[d] = p /\ p # Nowhere
        /\ \A e \in Docs \ {d} : at'[e] = at[e] /\ newPath'[e] = newPath[e]
        BY <1>3, <1>6, <1>9, <2>1, <2>4 DEF AtTyped, PlanTyped, Files
  <2>6. PlanTyped'
        BY <1>1, <1>6, <2>4 DEF PlanTyped
  <2>7. NewPathsPlanned'
        BY <1>1, <1>3, <2>5 DEF Core, NewPathsPlanned
  <2> QED
      BY <2>3, <2>5, <2>6, <2>7
<1>13. CASE /\ Moved /\ d # first /\ went' = Append(went, d)
            /\ UNCHANGED <<pc, done, moved, mapping, first, aside>>
  <2>1. /\ went' \in Seq(Docs) /\ Len(went') = Len(went) + 1 /\ went'[Len(went) + 1] = d
        /\ \A i \in 1 .. Len(went) : went'[i] = went[i]
        /\ DOMAIN went' = 1 .. Len(went) + 1 /\ DOMAIN went = 1 .. Len(went)
        /\ Len(went) \in Nat
        BY <1>3, <1>6, <1>13, AppendProperties, LenProperties DEF RunTyped
  <2>2. InWent' = InWent \cup {d}
        BY <2>1 DEF InWent
  <2>3. \A i, j \in DOMAIN went' : went'[i] = went'[j] => i = j
    <3>1. \A i, j \in 1 .. Len(went) : went[i] = went[j] => i = j
          BY <1>1, <2>1 DEF Core, RingUnderWay
    <3>2. \A i \in 1 .. Len(went) : went[i] # d
          BY <1>3, <2>1 DEF InWent
    <3>3. \A i \in DOMAIN went' : i \in 1 .. Len(went) \/ i = Len(went) + 1
          BY <2>1
    <3> QED
        BY <2>1, <3>1, <3>2, <3>3
  <2>4. RunTyped'
        BY <1>1, <1>6, <1>13, <2>1 DEF RunTyped
  <2>5. PlacesTyped' /\ Moves' = Moves /\ \A e \in Docs : PlaceOf(e)' = PlaceOf(e)
        BY <1>1, <1>6, <1>13, PlacesSame DEF PlacesTyped
  <2>6. at'[first] = aside /\ RingOf(first)' = R
        BY <1>4, <1>8, <1>12, <1>13
  <2>7. RingUnderWay'
        BY <1>1, <1>3, <1>4, <1>5, <1>8, <1>13, <2>2, <2>3, <2>6 DEF RingUnderWay, InARing
  <2>8. RingsWhole'
    <3>1. Tried' = Tried
          BY <1>4, <1>9, <1>13, <2>6 DEF Tried
    <3> QED
        BY <1>1, <1>4, <1>8, <1>13, <3>1 DEF RingsWhole
  <2>9. PlacedForward'
        BY <1>1, <1>3, <1>4, <1>12, <1>13, <2>2, <2>5 DEF PlacedForward
  <2> QED
      BY <1>7, <1>11, <1>12, <1>13, <2>4, <2>5, <2>7, <2>8, <2>9 DEF Core
<1>14. CASE /\ Moved /\ d = first /\ pc' = "apply"
            /\ done' = done \cup R /\ moved' = moved \cup R
            /\ mapping' = [e \in Docs |-> IF e \in R THEN newPath'[e] ELSE mapping[e]]
            /\ first' = Nobody /\ aside' = Nowhere /\ went' = <<>>
  <2>1. RunTyped'
        BY <1>1, <1>4, <1>6, <1>14 DEF RunTyped, Forward
  <2>2. \A e \in R : newPath'[e] # Nowhere /\ newPath'[e] \in Paths
        BY <1>4, <1>6, <1>12, <1>14 DEF PlanTyped, Paths
  <2>3. PlacesTyped'
        BY <1>1, <1>6, <1>14, <2>2 DEF PlacesTyped
  <2>4. InWent' = {}
        BY <1>14 DEF InWent
  <2>5. Moves' = Moves \cup R
        BY <1>1, <1>4, <1>14, <2>2 DEF Moves
  <2>6. /\ \A e \in R : PlaceOf(e)' = newPath'[e]
        /\ \A e \in Docs \ R : PlaceOf(e)' = PlaceOf(e)
        BY <1>1, <1>4, <1>14, <2>2, <2>5 DEF PlaceOf, Where
  <2>7. RingUnderWay'
        BY <1>14 DEF RingUnderWay, InARing
  <2>8. RingsWhole'
    <3>1. Tried' = Tried
          BY <1>4, <1>14 DEF Tried
    <3> QED
        BY <1>4, <1>8, <1>14, <3>1 DEF RingsWhole
  <2>9. PlacedForward'
    <3>1. \A e \in R : at'[e] = newPath'[e]
          BY <1>3, <1>4, <1>12, <1>14
    <3>2. \A e \in Docs \ R : at'[e] = PlaceOf(e)
          BY <1>3, <1>4, <1>12, <1>14
    <3> QED
        BY <1>1, <1>4, <1>14, <2>4, <2>5, <2>6, <3>1, <3>2 DEF PlacedForward
  <2> QED
      BY <1>7, <1>11, <1>12, <1>14, <2>1, <2>3, <2>7, <2>8, <2>9 DEF Core
<1>15. CASE /\ pc' = "return"
            /\ UNCHANGED <<at, newPath, done, moved, mapping, first, aside, went>>
  <2>1. /\ AtTyped' /\ PlanTyped' /\ PlacesTyped' /\ Distinct' /\ NewPathsPlanned'
        BY <1>1, <1>6, <1>15
           DEF Core, AtTyped, PlanTyped, PlacesTyped, Distinct, NewPathsPlanned
  <2>2. RunTyped'
        BY <1>1, <1>6, <1>15 DEF RunTyped, Forward
  <2>3. Moves' = Moves /\ InWent' = InWent /\ \A e \in Docs : PlaceOf(e)' = PlaceOf(e)
        BY <1>1, <1>15, PlacesSame DEF InWent
  <2>4. RingOf(first)' = R
        BY <1>4, <1>8, <1>15
  <2>5. RingUnderWay'
        BY <1>1, <1>4, <1>8, <1>15, <2>3, <2>4 DEF Core, RingUnderWay, InARing
  <2>6. RingsWhole'
    <3>1. Tried' = Tried
          BY <1>4, <1>9, <1>15, <2>4 DEF Tried
    <3> QED
        BY <1>4, <1>8, <1>15, <3>1 DEF RingsWhole
  <2>7. PlacedForward'
        BY <1>1, <1>4, <1>15, <2>3 DEF PlacedForward
  <2> QED
      BY <1>7, <1>11, <2>1, <2>2, <2>5, <2>6, <2>7 DEF Core
<1> QED
    BY <1>2, <1>13, <1>14, <1>15

LEMMA RingReturnStep == Core /\ RingReturn => Core'
<1> SUFFICES ASSUME Core, RingReturn PROVE Core'
    OBVIOUS
<1> DEFINE R == RingOf(first)
<1>0. PICK n, d : n = Len(went) /\ d = went[n]
      OBVIOUS
<1>1. /\ pc = "return" /\ pc' = "return" /\ went # <<>> /\ went' = SubSeq(went, 1, n - 1)
      /\ UNCHANGED <<plan, newPath, holds, first, aside, stranded, stuck>>
      BY <1>0 DEF RingReturn
<1>2. \/ /\ Put(newPath[d], Home[d])
         /\ UNCHANGED <<going, done, moved, mapping>>
      \/ /\ at' = at /\ going' = FALSE
         /\ done' = done \cup {d} /\ moved' = moved \cup {d}
         /\ mapping' = [mapping EXCEPT ![d] = newPath[d]]
      BY <1>0 DEF RingReturn, NotPut
<1>3. /\ first \in Docs \ done /\ InRing(first) /\ aside \in Temps /\ at[first] = aside
      /\ first \in R /\ R \subseteq Docs
      /\ InWent \subseteq R \ {first} /\ InWent \cap done = {}
      /\ Tried = done \cup R
      /\ \A e \in Docs \ Tried : InRing(e) => holds[e] \notin Tried
      /\ Moves \subseteq done /\ stuck = <<>>
      /\ \A e \in InWent : at[e] = newPath[e]
      /\ \A e \in Docs \ (InWent \cup {first}) : at[e] = PlaceOf(e)
      /\ \A e \in R : newPath[e] # Nowhere
      BY <1>1, AtRing
<1>4. AtTyped /\ PlanTyped /\ RunTyped /\ PlacesTyped /\ StuckTyped /\ Distinct
      BY DEF Core
<1>5. n \in Nat \ {0} /\ DOMAIN went = 1 .. n /\ d \in InWent
  <2>1. n \in Nat /\ DOMAIN went = 1 .. n /\ (n = 0 <=> went = <<>>)
        BY <1>0, <1>4, LenProperties, EmptySeq DEF RunTyped
  <2> QED
      BY <2>1, <1>0, <1>1 DEF InWent
<1>6. \A i, j \in 1 .. n : went[i] = went[j] => i = j
      BY <1>1, <1>5 DEF Core, RingUnderWay
<1>7. /\ went' \in Seq(Docs) /\ DOMAIN went' = 1 .. n - 1
      /\ \A i \in 1 .. n - 1 : went'[i] = went[i]
      BY <1>0, <1>1, <1>4, <1>5, SubSeqProperties, LenProperties DEF RunTyped
<1>8. InWent' = InWent \ {d}
  <2>1. \A i \in 1 .. n - 1 : went[i] # d
        BY <1>0, <1>5, <1>6
  <2>2. \A i \in 1 .. n : i \in 1 .. n - 1 \/ went[i] = d
        BY <1>0, <1>5
  <2> QED
      BY <1>5, <1>7, <2>1, <2>2 DEF InWent
<1>9. \A i, j \in DOMAIN went' : went'[i] = went'[j] => i = j
      BY <1>5, <1>6, <1>7
<1>10. Nobody \notin Docs /\ Nowhere \notin Names /\ Nowhere \notin Temps
       BY RenameAssumption DEF RenameAssumption
<1>11. /\ d \in R \ ({first} \cup done) /\ d \in Docs /\ at[d] = newPath[d]
       /\ newPath[d] \in Names
       BY <1>3, <1>4, <1>5 DEF PlanTyped
<1>12. /\ PlanTyped' /\ NewPathsPlanned' /\ HoldsOne' /\ HoldsPlan' /\ HoldsMoves'
       /\ StuckTyped' /\ PlacedBack'
       BY <1>1, <1>4 DEF Core, PlanTyped, NewPathsPlanned, HoldsOne, HoldsPlan, HoldsMoves,
          StuckTyped, PlacedBack, Planned, Backing
<1>13. StuckThere'
       BY <1>1, <1>3 DEF StuckThere
<1>14. /\ \A e \in Docs : (InRing(e)' <=> InRing(e)) /\ RingOf(e)' = RingOf(e)
       /\ RingOf(first)' = R /\ holds' = holds
  <2>1. \A e \in Docs : (InRing(e)' <=> InRing(e)) /\ RingOf(e)' = RingOf(e)
        BY <1>1, RingsSame
  <2> QED
      BY <1>1, <1>3, <2>1
<1>15. CASE Put(newPath[d], Home[d]) /\ UNCHANGED <<going, done, moved, mapping>>
  <2>1. d \in Files /\ at[d] # Nowhere /\ Home[d] \in Paths
        BY <1>4, <1>10, <1>11, PlaceTyped DEF Files
  <2>2. /\ AtTyped' /\ Distinct' /\ at' = [at EXCEPT ![d] = Home[d]]
        BY <1>4, <1>11, <1>15, <2>1, PutMoves
  <2>3. at'[d] = Home[d] /\ \A e \in Docs \ {d} : at'[e] = at[e]
        BY <1>4, <2>1, <2>2 DEF AtTyped
  <2>4. RunTyped' /\ PlacesTyped'
        BY <1>1, <1>4, <1>7, <1>15 DEF RunTyped, PlacesTyped
  <2>5. Moves' = Moves /\ \A e \in Docs : PlaceOf(e)' = PlaceOf(e)
        BY <1>1, <1>15, PlacesSame
  <2>6. RingUnderWay'
    <3>1. first' \in Docs \ done' /\ InRing(first)' /\ aside' \in Temps /\ at'[first'] = aside'
          BY <1>1, <1>3, <1>11, <1>14, <1>15, <2>3
    <3>2. InWent' \subseteq RingOf(first)' \ ({first'} \cup done')
          BY <1>1, <1>3, <1>8, <1>14, <1>15
    <3> QED
        BY <1>1, <1>9, <3>1, <3>2 DEF RingUnderWay, InARing
  <2>7. RingsWhole'
    <3>1. Tried' = Tried
          BY <1>1, <1>3, <1>10, <1>14, <1>15 DEF Tried
    <3> QED
        BY <1>1, <1>3, <1>14, <3>1 DEF RingsWhole
  <2>8. PlacedForward'
    <3>1. PlaceOf(d) = Home[d]
          BY <1>3, <1>11 DEF PlaceOf
    <3> QED
        BY <1>1, <1>3, <1>8, <1>11, <1>15, <2>3, <2>5, <3>1 DEF PlacedForward
  <2> QED
      BY <1>12, <1>13, <2>2, <2>4, <2>6, <2>7, <2>8 DEF Core
<1>16. CASE /\ at' = at /\ going' = FALSE
            /\ done' = done \cup {d} /\ moved' = moved \cup {d}
            /\ mapping' = [mapping EXCEPT ![d] = newPath[d]]
  <2>1. AtTyped' /\ Distinct'
        BY <1>4, <1>16 DEF AtTyped, Distinct
  <2>2. RunTyped' /\ PlacesTyped'
        BY <1>1, <1>4, <1>7, <1>11, <1>16 DEF RunTyped, PlacesTyped, Paths
  <2>3. mapping'[d] = newPath[d] /\ \A e \in Docs \ {d} : mapping'[e] = mapping[e]
        BY <1>4, <1>11, <1>16 DEF PlacesTyped
  <2>4. /\ Moves' = Moves \cup {d} /\ PlaceOf(d)' = newPath[d]
        /\ \A e \in Docs \ {d} : PlaceOf(e)' = PlaceOf(e)
        BY <1>1, <1>3, <1>10, <1>11, <2>3 DEF Moves, PlaceOf, Where
  <2>5. RingUnderWay'
    <3>1. first' \in Docs \ done' /\ InRing(first)' /\ aside' \in Temps /\ at'[first'] = aside'
          BY <1>1, <1>3, <1>11, <1>14, <1>16
    <3>2. InWent' \subseteq RingOf(first)' \ ({first'} \cup done')
          BY <1>1, <1>3, <1>8, <1>14, <1>16
    <3> QED
        BY <1>1, <1>9, <3>1, <3>2 DEF RingUnderWay, InARing
  <2>6. RingsWhole'
    <3>1. Tried' = Tried
          BY <1>1, <1>3, <1>10, <1>11, <1>14, <1>16 DEF Tried
    <3> QED
        BY <1>1, <1>3, <1>14, <3>1 DEF RingsWhole
  <2>7. PlacedForward'
        BY <1>1, <1>3, <1>8, <1>11, <1>16, <2>4 DEF PlacedForward
  <2> QED
      BY <1>12, <1>13, <2>1, <2>2, <2>5, <2>6, <2>7 DEF Core
<1> QED
    BY <1>2, <1>15, <1>16

LEMMA RingHomeStep == Core /\ RingHome => Core'
<1> SUFFICES ASSUME Core, RingHome PROVE Core'
    OBVIOUS
<1> DEFINE R == RingOf(first)
<1>1. /\ pc = "return" /\ pc' = "apply" /\ went = <<>> /\ went' = <<>>
      /\ done' = done \cup R /\ first' = Nobody /\ aside' = Nowhere /\ going' = TRUE
      /\ UNCHANGED <<plan, newPath, holds, moved, stuck>>
      BY DEF RingHome
<1>2. \/ Put(aside, Home[first]) /\ UNCHANGED <<stranded, mapping>>
      \/ /\ at' = at
         /\ stranded' = [stranded EXCEPT ![first] = aside]
         /\ mapping' \in {mapping, [mapping EXCEPT ![first] = aside]}
      BY DEF RingHome, NotPut, LeftAside
<1>3. /\ first \in Docs \ done /\ InRing(first) /\ aside \in Temps /\ at[first] = aside
      /\ first \in R /\ R \subseteq Docs
      /\ Tried = done \cup R
      /\ \A e \in Docs \ Tried : InRing(e) => holds[e] \notin Tried
      /\ Moves \subseteq done /\ stuck = <<>>
      /\ \A e \in Docs \ {first} : at[e] = PlaceOf(e)
  <2>1. InWent = {}
        BY <1>1, NoneWent
  <2> QED
      BY <1>1, <2>1, AtRing
<1>4. AtTyped /\ PlanTyped /\ RunTyped /\ PlacesTyped /\ StuckTyped /\ Distinct
      BY DEF Core
<1>5. Nobody \notin Docs /\ Nowhere \notin Names /\ Nowhere \notin Temps
      BY RenameAssumption DEF RenameAssumption
<1>6. /\ PlanTyped' /\ NewPathsPlanned' /\ HoldsOne' /\ HoldsPlan' /\ HoldsMoves'
      /\ StuckTyped' /\ PlacedBack'
      BY <1>1, <1>4 DEF Core, PlanTyped, NewPathsPlanned, HoldsOne, HoldsPlan, HoldsMoves,
         StuckTyped, PlacedBack, Planned, Backing
<1>7. StuckThere'
      BY <1>1, <1>3 DEF StuckThere
<1>8. RunTyped'
      BY <1>1, <1>3, <1>4 DEF RunTyped, Forward
<1>9. RingUnderWay'
      BY <1>1 DEF RingUnderWay, InARing
<1>10. RingsWhole'
  <2>1. Tried' = Tried
        BY <1>1, <1>3 DEF Tried
  <2> QED
      BY <1>1, <1>3, <2>1, RingsSame DEF RingsWhole
<1>11. InWent' = {}
       BY <1>1 DEF InWent
<1>12. CASE Put(aside, Home[first]) /\ UNCHANGED <<stranded, mapping>>
  <2>1. first \in Files /\ at[first] # Nowhere /\ Home[first] \in Paths
        BY <1>3, <1>4, <1>5, PlaceTyped DEF Files
  <2>2. /\ AtTyped' /\ Distinct' /\ at' = [at EXCEPT ![first] = Home[first]]
        BY <1>3, <1>4, <1>12, <2>1, PutMoves
  <2>3. at'[first] = Home[first] /\ \A e \in Docs \ {first} : at'[e] = at[e]
        BY <1>4, <2>1, <2>2 DEF AtTyped
  <2>4. Moves' = Moves /\ \A e \in Docs : PlaceOf(e)' = PlaceOf(e)
        BY <1>12, PlacesSame
  <2>5. PlacedForward'
    <3>1. PlaceOf(first) = Home[first]
          BY <1>3 DEF PlaceOf
    <3> QED
        BY <1>1, <1>3, <1>11, <2>3, <2>4, <3>1 DEF PlacedForward
  <2>6. PlacesTyped'
        BY <1>4, <1>12 DEF PlacesTyped
  <2> QED
      BY <1>6, <1>7, <1>8, <1>9, <1>10, <2>2, <2>5, <2>6 DEF Core
<1>13. CASE /\ at' = at
            /\ stranded' = [stranded EXCEPT ![first] = aside]
            /\ mapping' \in {mapping, [mapping EXCEPT ![first] = aside]}
  <2>1. AtTyped' /\ Distinct'
        BY <1>4, <1>13 DEF AtTyped, Distinct
  <2>2. PlacesTyped'
        BY <1>3, <1>4, <1>13 DEF PlacesTyped, Paths
  <2>3. /\ stranded'[first] = aside /\ mapping'[first] \in {Nowhere, aside}
        /\ \A e \in Docs \ {first} : stranded'[e] = stranded[e] /\ mapping'[e] = mapping[e]
    <3>1. mapping[first] = Nowhere
          BY <1>3 DEF Moves
    <3> QED
        BY <1>3, <1>4, <1>13, <3>1 DEF PlacesTyped
  <2>4. /\ Moves' = Moves \cup {first} 
        /\ \A e \in Docs : PlaceOf(e)' = IF e = first THEN aside ELSE PlaceOf(e)
    <3>1. Moves' = Moves \cup {first}
          BY <1>3, <1>5, <2>3 DEF Moves
    <3> QED
        BY <1>3, <1>5, <2>3, <3>1 DEF PlaceOf, Where
  <2>5. PlacedForward'
        BY <1>1, <1>3, <1>11, <1>13, <2>4 DEF PlacedForward
  <2> QED
      BY <1>6, <1>7, <1>8, <1>9, <1>10, <2>1, <2>2, <2>5 DEF Core
<1> QED
    BY <1>2, <1>12, <1>13

-----------------------------------------------------------------------------
(* Steps that move no file. *)

\* The variables Core is about, but for pc.
corevars == <<at, plan, newPath, holds, done, moved, ringvars, mapping, stranded, stuck>>

LEMMA FilesStay ==
    ASSUME Core, UNCHANGED corevars, pc' \in Forward \cup {"leave", "over", "cut"},
           \/ pc' = pc
           \/ pc' = "cut"
           \/ /\ pc \notin InARing \cup {"cut"} /\ pc' \notin Moving \cup InARing
              /\ pc' \in Forward => pc \in Forward
    PROVE  Core'
<1> USE DEF corevars, ringvars
<1>1. AtTyped' /\ PlanTyped' /\ PlacesTyped' /\ StuckTyped' /\ Distinct' /\ NewPathsPlanned'
      /\ HoldsOne' /\ StuckThere'
      BY DEF Core, AtTyped, PlanTyped, PlacesTyped, StuckTyped, Distinct, NewPathsPlanned,
         HoldsOne, StuckThere
<1>2. RunTyped'
      BY DEF Core, RunTyped
<1>3. /\ Moves' = Moves /\ InWent' = InWent /\ Planned' = Planned
      /\ \A e \in Docs : PlaceOf(e)' = PlaceOf(e)
      /\ \A e \in Docs : (InRing(e)' <=> InRing(e)) /\ RingOf(e)' = RingOf(e)
      BY PlacesSame, RingsSame DEF InWent, Planned
<1>4. first \in Docs \cup {Nobody}
      BY DEF Core, RunTyped
<1>5. Tried' = Tried /\ (first \in Docs => (InRing(first)' <=> InRing(first)))
                     /\ (first \in Docs => RingOf(first)' = RingOf(first))
      BY <1>3, <1>4 DEF Tried
<1>6. HoldsPlan' /\ HoldsMoves'
      BY <1>3 DEF Core, HoldsPlan, HoldsMoves, Moving, Backing, InARing, Forward
<1>7. RingsWhole'
      BY <1>3, <1>5 DEF Core, RingsWhole, Moving, Backing, InARing, Forward
<1>8. CASE pc' = pc
  <2>1. RingUnderWay'
        BY <1>3, <1>8 DEF Core, RingUnderWay, InRing, RingOf, Closed
  <2>2. PlacedForward' /\ PlacedBack'
        BY <1>3, <1>8 DEF Core, PlacedForward, PlacedBack, ToldStuck
  <2> QED
      BY <1>1, <1>2, <1>6, <1>7, <2>1, <2>2 DEF Core
<1>9. CASE pc' = "cut"
  <2>1. RingUnderWay'
        BY <1>9 DEF RingUnderWay, InARing
  <2>2. PlacedForward' /\ PlacedBack'
        BY <1>9 DEF PlacedForward, PlacedBack, Forward, Moving, Backing
  <2> QED
      BY <1>1, <1>2, <1>6, <1>7, <2>1, <2>2 DEF Core
<1>10. CASE /\ pc \notin InARing \cup {"cut"} /\ pc' \notin Moving \cup InARing
            /\ pc' \in Forward => pc \in Forward
  <2>1. RingUnderWay'
        BY <1>10 DEF Core, RingUnderWay, InARing
  <2>2. PlacedForward' /\ PlacedBack'
        BY <1>3, <1>10 DEF Core, PlacedForward, PlacedBack, Forward, Moving, Backing
  <2> QED
      BY <1>1, <1>2, <1>6, <1>7, <2>1, <2>2 DEF Core
<1> QED
    BY <1>8, <1>9, <1>10

LEMMA AppliedStep == Core /\ Applied => Core'
BY FilesStay DEF Applied, corevars, Forward, Moving, InARing

LEMMA WriteIndexStep == Core /\ WriteIndex => Core'
BY FilesStay DEF WriteIndex, corevars, Forward, Moving, InARing

LEMMA WriteRecordsStep == Core /\ WriteRecords => Core'
BY FilesStay DEF WriteRecords, corevars, Forward, Moving, InARing

LEMMA PutBackStep == Core /\ PutBack => Core'
BY FilesStay DEF PutBack, corevars, Forward, Moving, InARing

LEMMA LeaveStep == Core /\ Leave => Core'
BY FilesStay DEF Leave, corevars, Forward, Moving, InARing

LEMMA CutStep == Core /\ Cut => Core'
BY FilesStay DEF Cut, corevars

\* A step that changes nothing keeps what holds of any pc.
LEMMA StutterStep == Core /\ UNCHANGED vars => Core'
<1> SUFFICES ASSUME Core, UNCHANGED vars PROVE Core'
    OBVIOUS
<1> USE DEF vars
<1>1. AtTyped' /\ PlanTyped' /\ PlacesTyped' /\ StuckTyped' /\ Distinct' /\ NewPathsPlanned'
      /\ HoldsOne' /\ StuckThere' /\ RunTyped'
      BY DEF Core, AtTyped, PlanTyped, PlacesTyped, StuckTyped, Distinct, NewPathsPlanned,
         HoldsOne, StuckThere, RunTyped
<1>2. /\ Moves' = Moves /\ InWent' = InWent /\ Planned' = Planned /\ ToldStuck' = ToldStuck
      /\ Tried' = Tried
      /\ \A e : PlaceOf(e)' = PlaceOf(e) /\ RingOf(e)' = RingOf(e)
      /\ \A e : (InRing(e)' <=> InRing(e))
      BY DEF Moves, InWent, Planned, ToldStuck, Tried, PlaceOf, Where, RingOf, InRing, Closed
<1>3. HoldsPlan' /\ HoldsMoves' /\ RingsWhole' /\ PlacedForward' /\ PlacedBack'
      BY <1>2 DEF Core, HoldsPlan, HoldsMoves, RingsWhole, PlacedForward, PlacedBack
<1>4. RingUnderWay'
      BY <1>2 DEF Core, RingUnderWay, InRing, RingOf, Closed
<1> QED
    BY <1>1, <1>3, <1>4 DEF Core

\* A file that another program brings is none of the run's.
LEMMA StrangerStep ==
    ASSUME NEW x \in Strangers, NEW p \in Names PROVE Core /\ StrangerComes(x, p) => Core'
<1> SUFFICES ASSUME Core, StrangerComes(x, p) PROVE Core'
    OBVIOUS
<1>1. /\ at[x] = Nowhere /\ Free(p) /\ at' = [at EXCEPT ![x] = p]
      /\ UNCHANGED <<plan, newPath, pc, holds, done, moved, ringvars, mapping, stranded, stuck>>
      BY DEF StrangerComes
<1> USE <1>1 DEF ringvars
<1>2. AtTyped /\ PlanTyped /\ RunTyped /\ PlacesTyped /\ StuckTyped /\ Distinct
      BY DEF Core
<1>3. x \in Files /\ x \notin Docs /\ p \in Paths /\ Docs \subseteq Files
      BY RenameAssumption DEF RenameAssumption, Files, Paths
<1>4. at'[x] = p /\ \A f \in Files \ {x} : at'[f] = at[f]
      BY <1>2, <1>3 DEF AtTyped
<1>5. AtTyped'
      BY <1>2, <1>3 DEF AtTyped
<1>6. Distinct'
      BY <1>2, <1>4 DEF Distinct, Free
<1>7. \A d \in Docs : at'[d] = at[d]
      BY <1>3, <1>4
<1>8. PlanTyped' /\ RunTyped' /\ PlacesTyped' /\ StuckTyped' /\ NewPathsPlanned' /\ HoldsOne'
      BY <1>2 DEF Core, PlanTyped, RunTyped, PlacesTyped, StuckTyped, NewPathsPlanned, HoldsOne
<1>9. /\ Moves' = Moves /\ InWent' = InWent /\ Planned' = Planned /\ ToldStuck' = ToldStuck
      /\ Tried' = Tried
      /\ \A e : PlaceOf(e)' = PlaceOf(e) /\ RingOf(e)' = RingOf(e)
      /\ \A e : (InRing(e)' <=> InRing(e))
      BY DEF Moves, InWent, Planned, ToldStuck, Tried, PlaceOf, Where, RingOf, InRing, Closed
<1>10. HoldsPlan' /\ HoldsMoves' /\ RingsWhole'
       BY <1>9 DEF Core, HoldsPlan, HoldsMoves, RingsWhole
<1>11. RingUnderWay'
       BY <1>7, <1>9 DEF Core, RingUnderWay, InRing, RingOf, Closed
<1>12. PlacedForward' /\ PlacedBack'
       BY <1>2, <1>7, <1>9 DEF Core, PlacedForward, PlacedBack, RunTyped
<1>13. StuckThere'
  <2>1. \A i \in DOMAIN stuck : stuck[i][1] \in Docs
        BY <1>2, ElementOfSeq DEF StuckTyped
  <2> QED
      BY <1>7, <2>1 DEF Core, StuckThere
<1> QED
    BY <1>5, <1>6, <1>8, <1>10, <1>11, <1>12, <1>13 DEF Core

-----------------------------------------------------------------------------
(* put_back. *)

LEMMA UndoStep == Core /\ Undo => Core'
<1> SUFFICES ASSUME Core, Undo PROVE Core'
    OBVIOUS
<1>1. /\ pc = "undo" /\ pc' = "back" /\ done' = {} /\ moved' = {}
      /\ holds' = [d \in Docs |-> IF d \in Moves THEN Holder(d, Home[d], Moves) ELSE Nobody]
      /\ UNCHANGED <<at, plan, newPath, first, aside, went, going, mapping, stranded, stuck>>
      BY DEF Undo, ringvars
<1>2. first = Nobody /\ went = <<>> /\ Nobody \notin Docs /\ Other \notin Docs
      BY <1>1, RenameAssumption DEF RenameAssumption, Core, RingUnderWay, InARing
<1>3. InWent = {} /\ stuck = <<>> /\ \A d \in Docs : at[d] = PlaceOf(d)
      BY <1>1, <1>2, NoneWent DEF Core, PlacedForward, Forward
<1>4. /\ AtTyped' /\ PlacesTyped' /\ StuckTyped' /\ Distinct' /\ NewPathsPlanned' /\ StuckThere'
      BY <1>1 DEF Core, AtTyped, PlacesTyped, StuckTyped, Distinct, NewPathsPlanned, StuckThere
<1>5. RunTyped'
      BY <1>1 DEF Core, RunTyped, Backing
<1>6. \A d \in Moves : \/ holds'[d] \in Moves /\ at[holds'[d]] = Home[d]
                       \/ holds'[d] \in {Nobody, Other}
      BY <1>1 DEF Holder, Moves
<1>7. \A d \in Docs : d \notin Moves => holds'[d] = Nobody
      BY <1>1
<1>8. Moves' = Moves /\ Moves \subseteq Docs /\ \A d \in Docs : PlaceOf(d)' = PlaceOf(d)
      BY <1>1, PlacesSame DEF Moves
<1>9. HoldsPlan' /\ HoldsMoves'
      BY <1>1, <1>7, <1>8 DEF HoldsPlan, HoldsMoves
<1>10. HoldsOne'
  <2>1. \A d, e \in Docs : Home[d] = Home[e] => d = e
        BY RenameAssumption DEF RenameAssumption
  <2> QED
      BY <1>2, <1>6, <1>7, <2>1 DEF HoldsOne
<1>11. PlanTyped'
  <2>1. \A d \in Docs : holds'[d] \in Docs \cup {Nobody, Other}
        BY <1>6, <1>7, <1>8
  <2>2. holds' = [d \in Docs |-> holds'[d]]
        BY <1>1
  <2> QED
      BY <1>1, <2>1, <2>2 DEF Core, PlanTyped
<1>12. RingsWhole'
       BY <1>1, <1>2 DEF RingsWhole, Tried
<1>13. RingUnderWay'
       BY <1>1, <1>2 DEF RingUnderWay, InARing
<1>14. ToldStuck' = {}
       BY <1>1, <1>3 DEF ToldStuck
<1>15. PlacedForward' /\ PlacedBack'
       BY <1>1, <1>2, <1>3, <1>8, <1>14 DEF PlacedForward, PlacedBack, Forward, Moving
<1> QED
    BY <1>4, <1>5, <1>9, <1>10, <1>11, <1>12, <1>13, <1>15 DEF Core

LEMMA AtBack ==
    ASSUME Core, pc \in Backing
    PROVE  /\ done \subseteq Moves /\ moved \subseteq done /\ Moves \subseteq Docs
           /\ \A d \in Docs \ {first} : d \notin done => at[d] = PlaceOf(d)
           /\ \A d \in moved : at[d] = Home[d]
           /\ ToldStuck = done \ moved
           /\ went = <<>>
           /\ HoldsTyped /\ HoldsOne
           /\ \A d \in Docs : InRing(d) => RingOf(d) \subseteq Moves
           /\ \A d \in Docs \ Tried : InRing(d) => holds[d] \notin Tried
<1>1. /\ done \subseteq Moves /\ moved \subseteq done /\ Moves \subseteq Docs
      /\ \A d \in Docs \ {first} : d \notin done => at[d] = PlaceOf(d)
      /\ \A d \in moved : at[d] = Home[d]
      /\ ToldStuck = done \ moved
      BY DEF Core, PlacedBack, RunTyped, Moves
<1>2. HoldsTyped /\ HoldsOne /\ went = <<>>
      BY DEF Core, PlanTyped, HoldsTyped, RingUnderWay, Backing
<1>3. \A d \in Docs \ Tried : InRing(d) => holds[d] \notin Tried
      BY DEF Core, RingsWhole
<1>4. \A d \in Docs : InRing(d) => RingOf(d) \subseteq Moves
  <2>1. SUFFICES ASSUME NEW d \in Docs, InRing(d), NEW e \in RingOf(d)
                 PROVE  e \in Moves
        OBVIOUS
  <2>2. e \in Docs /\ InRing(e)
        BY <1>2, <2>1, RingIsLeast
  <2>3. holds[e] \in Docs /\ Nobody \notin Docs
        BY <2>2, RingGoesOn, RenameAssumption DEF RenameAssumption
  <2> QED
      BY <2>2, <2>3 DEF Core, HoldsMoves
<1> QED
    BY <1>1, <1>2, <1>3, <1>4

\* One more file is said to have stayed.
LEMMA OneMoreStuck ==
    ASSUME StuckTyped, NEW d \in Docs, NEW p \in Paths, stuck' = Append(stuck, <<d, p>>)
    PROVE  /\ StuckTyped' /\ ToldStuck' = ToldStuck \cup {d}
           /\ (\A i \in DOMAIN stuck : at'[stuck[i][1]] = stuck[i][2]) /\ at'[d] = p
                  => StuckThere'
<1> DEFINE n == Len(stuck)
<1>1. /\ stuck' \in Seq(Docs \X Paths) /\ n \in Nat /\ DOMAIN stuck = 1 .. n
      /\ DOMAIN stuck' = 1 .. n + 1 /\ stuck'[n + 1] = <<d, p>>
      /\ \A i \in 1 .. n : stuck'[i] = stuck[i]
  <2>1. stuck \in Seq(Docs \X Paths) /\ <<d, p>> \in Docs \X Paths
        BY DEF StuckTyped
  <2> QED
      BY <2>1, AppendProperties, LenProperties
<1>2. \A i \in 1 .. n + 1 : i \in 1 .. n \/ i = n + 1
      BY <1>1
<1>3. 1 .. n \subseteq 1 .. n + 1 /\ n + 1 \in 1 .. n + 1
      BY <1>1
<1> HIDE DEF n
<1>4. ToldStuck' = ToldStuck \cup {d}
      BY <1>1, <1>2, <1>3 DEF ToldStuck
<1>5. (\A i \in DOMAIN stuck : at'[stuck[i][1]] = stuck[i][2]) /\ at'[d] = p => StuckThere'
      BY <1>1, <1>2 DEF StuckThere
<1> QED
    BY <1>1, <1>4, <1>5 DEF StuckTyped

\* What was said to have stayed is none of the files that have yet to be tried.
LEMMA StuckTried ==
    ASSUME StuckTyped, StuckThere, NEW d, d \notin ToldStuck,
           \A e \in Docs : e # d => at'[e] = at[e]
    PROVE  \A i \in DOMAIN stuck : at'[stuck[i][1]] = stuck[i][2]
<1>1. \A i \in DOMAIN stuck : stuck[i][1] \in Docs
      BY ElementOfSeq DEF StuckTyped
<1> QED
    BY <1>1 DEF StuckThere, ToldStuck

LEMMA BackOneStep == ASSUME NEW d \in Docs PROVE Core /\ BackOne(d) => Core'
<1> SUFFICES ASSUME Core, BackOne(d) PROVE Core'
    OBVIOUS
<1>1. /\ pc = "back" /\ pc' = "back" /\ d \in Moves \ done /\ ~InRing(d)
      /\ done' = done \cup {d}
      /\ UNCHANGED <<plan, newPath, holds, first, aside, went, going, mapping, stranded>>
      BY DEF BackOne, Ready, ringvars
<1>2. \/ /\ Put(Where(d), Home[d]) /\ moved' = moved \cup {d} /\ stuck' = stuck
      \/ /\ at' = at /\ stuck' = Append(stuck, <<d, Where(d)>>) /\ moved' = moved
      BY DEF BackOne, NotPut
<1>3. AtTyped /\ PlanTyped /\ RunTyped /\ PlacesTyped /\ StuckTyped /\ Distinct /\ StuckThere
      BY DEF Core
<1>4. first = Nobody /\ Nobody \notin Docs /\ went = <<>> /\ Tried = done
      BY <1>1, RenameAssumption DEF RenameAssumption, Core, RingUnderWay, InARing, Tried
<1>5. /\ done \subseteq Moves /\ moved \subseteq done /\ Moves \subseteq Docs
      /\ \A e \in Docs : e \notin done => at[e] = PlaceOf(e)
      /\ \A e \in moved : at[e] = Home[e]
      /\ ToldStuck = done \ moved
      /\ \A e \in Docs \ done : InRing(e) => holds[e] \notin done
      BY <1>1, <1>4, AtBack DEF Backing
<1>6. /\ at[d] = Where(d) /\ Where(d) \in Paths /\ Where(d) # Nowhere
      /\ Home[d] \in Paths /\ d \in Files
      BY <1>1, <1>3, <1>5, PlaceTyped DEF Files
<1>7. PlanTyped' /\ PlacesTyped' /\ NewPathsPlanned' /\ HoldsOne'
      BY <1>1, <1>3 DEF Core, PlanTyped, PlacesTyped, NewPathsPlanned, HoldsOne
<1>8. Moves' = Moves /\ \A e \in Docs : PlaceOf(e)' = PlaceOf(e)
      BY <1>1, PlacesSame
<1>9. HoldsPlan' /\ HoldsMoves'
      BY <1>1, <1>8 DEF Core, HoldsPlan, HoldsMoves, Backing
<1>10. RingsWhole'
  <2>1. Tried' = done \cup {d}
        BY <1>1, <1>4 DEF Tried
  <2>2. \A e \in Docs : (InRing(e)' <=> InRing(e)) /\ holds'[e] = holds[e]
        BY <1>1, RingsSame
  <2>3. \A e \in Docs : InRing(e) => holds[e] # d
        BY <1>1, RingGoesOn
  <2> QED
      BY <1>1, <1>5, <2>1, <2>2, <2>3 DEF RingsWhole
<1>11. RingUnderWay'
       BY <1>1, <1>4 DEF RingUnderWay, InARing
<1>12. PlacedForward'
       BY <1>1 DEF PlacedForward, Forward, Moving
<1>13. CASE Put(Where(d), Home[d]) /\ moved' = moved \cup {d} /\ stuck' = stuck
  <2>1. AtTyped' /\ Distinct' /\ at' = [at EXCEPT ![d] = Home[d]]
        BY <1>3, <1>6, <1>13, PutMoves
  <2>2. at'[d] = Home[d] /\ \A e \in Docs : e # d => at'[e] = at[e]
        BY <1>3, <1>6, <2>1 DEF AtTyped, Files
  <2>3. RunTyped'
        BY <1>1, <1>3, <1>13 DEF RunTyped
  <2>4. StuckTyped' /\ ToldStuck' = ToldStuck
        BY <1>3, <1>13 DEF StuckTyped, ToldStuck
  <2>5. StuckThere'
        BY <1>1, <1>3, <1>5, <1>13, <2>2, StuckTried DEF StuckThere
  <2>6. PlacedBack'
        BY <1>1, <1>5, <1>8, <1>13, <2>2, <2>4 DEF PlacedBack
  <2> QED
      BY <1>7, <1>9, <1>10, <1>11, <1>12, <2>1, <2>3, <2>4, <2>5, <2>6 DEF Core
<1>14. CASE at' = at /\ stuck' = Append(stuck, <<d, Where(d)>>) /\ moved' = moved
  <2>1. AtTyped' /\ Distinct' /\ RunTyped'
        BY <1>1, <1>3, <1>14 DEF AtTyped, Distinct, RunTyped
  <2>2. StuckTyped' /\ ToldStuck' = ToldStuck \cup {d} /\ StuckThere'
        BY <1>3, <1>6, <1>14, OneMoreStuck DEF StuckThere
  <2>3. PlacedBack'
        BY <1>1, <1>5, <1>8, <1>14, <2>2 DEF PlacedBack
  <2> QED
      BY <1>7, <1>9, <1>10, <1>11, <1>12, <2>1, <2>2, <2>3 DEF Core
<1> QED
    BY <1>2, <1>13, <1>14

\* What stuck says, whatever the order.
LEMMA StuckSays ==
    ASSUME NEW q
    PROVE  /\ {q[i][1] : i \in DOMAIN q} = {e[1] : e \in Range(q)}
           /\ \A place : (\A i \in DOMAIN q : place[q[i][1]] = q[i][2])
                            <=> (\A e \in Range(q) : place[e[1]] = e[2])
BY Zenon DEF Range

\* A whole ring is said to have stayed, in the order apply had it.
LEMMA RingStuck ==
    ASSUME StuckTyped, PlacesTyped, HoldsTyped, NEW d \in Docs, InRing(d),
           RingOf(d) \subseteq Moves, StuckThere,
           \A e \in RingOf(d) : at[e] = Where(e), at' = at,
           stuck' = stuck \o [i \in DOMAIN RingFrom(d) |->
                                  <<RingFrom(d)[i], Where(RingFrom(d)[i])>>]
    PROVE  StuckTyped' /\ ToldStuck' = ToldStuck \cup RingOf(d) /\ StuckThere'
<1>1. PICK s : s = RingFrom(d)
      OBVIOUS
<1>2. s \in Seq(RingOf(d)) /\ Range(s) = RingOf(d) /\ RingOf(d) \subseteq Docs
      BY <1>1, RingInOrder, RingIsLeast DEF Range
<1>3. PICK t : t = [i \in DOMAIN s |-> <<s[i], Where(s[i])>>]
      OBVIOUS
<1>4. PICK m : m = Len(s)
      OBVIOUS
<1>5. m \in Nat /\ DOMAIN s = 1 .. m /\ \A i \in 1 .. m : s[i] \in RingOf(d)
      BY <1>2, <1>4, LenProperties, ElementOfSeq
<1>6. PICK S : S = Docs \X Paths
      OBVIOUS
<1>7. \A e \in RingOf(d) : <<e, Where(e)>> \in S
      BY <1>2, <1>6, PlaceTyped
<1>8. t \in Seq(S)
  <2>1. t \in [1 .. m -> S]
        BY <1>3, <1>5, <1>7
  <2> QED
      BY <2>1, <1>5
<1>9. Range(t) = {<<e, Where(e)>> : e \in RingOf(d)}
  <2>1. Range(t) = {<<s[i], Where(s[i])>> : i \in DOMAIN s}
        BY <1>3 DEF Range
  <2> QED
      BY <2>1, <1>2 DEF Range
<1>10. PICK q : q = stuck'
       OBVIOUS
<1>11. PICK u : u = stuck
       OBVIOUS
<1>12. /\ q \in Seq(S)
       /\ Range(q) = Range(u) \cup {<<e, Where(e)>> : e \in RingOf(d)}
  <2>1. q = u \o t /\ u \in Seq(S)
        BY <1>1, <1>3, <1>6, <1>10, <1>11 DEF StuckTyped
  <2> QED
      BY <2>1, <1>8, <1>9, RangeConcatenation, ConcatProperties
<1>13. /\ ToldStuck = {e[1] : e \in Range(u)} /\ ToldStuck' = {e[1] : e \in Range(q)}
       /\ \A e \in Range(u) : at[e[1]] = e[2]
       /\ (\A e \in Range(q) : at[e[1]] = e[2]) => StuckThere'
  <2>1. ToldStuck = {e[1] : e \in Range(u)}
        BY <1>11, StuckSays DEF ToldStuck
  <2>2. ToldStuck' = {e[1] : e \in Range(q)}
        BY <1>10, StuckSays DEF ToldStuck
  <2>3. \A e \in Range(u) : at[e[1]] = e[2]
        BY <1>11 DEF StuckThere, Range
  <2>4. (\A e \in Range(q) : at[e[1]] = e[2]) => StuckThere'
        BY <1>10 DEF StuckThere, Range
  <2> QED
      BY <2>1, <2>2, <2>3, <2>4
<1>14. ToldStuck' = ToldStuck \cup RingOf(d)
  <2> DEFINE W == {<<e, Where(e)>> : e \in RingOf(d)}
  <2>1. {e[1] : e \in W} = RingOf(d)
    <3>1. \A w \in W : w[1] \in RingOf(d)
          OBVIOUS
    <3>2. \A e \in RingOf(d) : \E w \in W : w[1] = e
      <4>1. TAKE e \in RingOf(d)
      <4>2. <<e, Where(e)>> \in W /\ <<e, Where(e)>>[1] = e
            OBVIOUS
      <4> QED
          BY <4>2
    <3> HIDE DEF W
    <3> QED
        BY <3>1, <3>2
  <2>2. {e[1] : e \in Range(u) \cup W} = {e[1] : e \in Range(u)} \cup {e[1] : e \in W}
        OBVIOUS
  <2> QED
      BY <2>1, <2>2, <1>12, <1>13
<1>15. StuckThere'
       BY <1>12, <1>13
<1> QED
    BY <1>6, <1>10, <1>12, <1>14, <1>15 DEF StuckTyped

LEMMA BackAsideStep == ASSUME NEW d \in Docs PROVE Core /\ BackAside(d) => Core'
<1> SUFFICES ASSUME Core, BackAside(d) PROVE Core'
    OBVIOUS
<1>1. /\ pc = "back" /\ d \in Moves \ done /\ InRing(d)
      /\ UNCHANGED <<plan, newPath, holds, moved, went, going, mapping, stranded>>
      BY DEF BackAside
<1>2. AtTyped /\ PlanTyped /\ RunTyped /\ PlacesTyped /\ StuckTyped /\ Distinct /\ StuckThere
      BY DEF Core
<1>3. first = Nobody /\ Nobody \notin Docs /\ went = <<>> /\ Tried = done
      BY <1>1, RenameAssumption DEF RenameAssumption, Core, RingUnderWay, InARing, Tried
<1>4. /\ done \subseteq Moves /\ moved \subseteq done /\ Moves \subseteq Docs
      /\ \A e \in Docs : e \notin done => at[e] = PlaceOf(e)
      /\ \A e \in moved : at[e] = Home[e]
      /\ ToldStuck = done \ moved
      /\ \A e \in Docs \ done : InRing(e) => holds[e] \notin done
      /\ HoldsTyped /\ HoldsOne
      /\ RingOf(d) \subseteq Moves
      BY <1>1, <1>3, AtBack DEF Backing
<1>5. /\ d \in RingOf(d) /\ RingOf(d) \subseteq Docs
      /\ RingOf(d) \cap done = {}
      /\ \A e \in Docs \ (done \cup RingOf(d)) : InRing(e) => holds[e] \notin done \cup RingOf(d)
      BY <1>1, <1>4, RingIsLeast, RingUntried, RingsApart
<1>6. /\ \A e \in RingOf(d) : at[e] = Where(e)
      /\ Where(d) # Nowhere /\ d \in Files
      BY <1>1, <1>2, <1>4, <1>5, PlaceTyped DEF Files
<1>7. PlanTyped' /\ PlacesTyped' /\ NewPathsPlanned' /\ HoldsOne'
      BY <1>1, <1>2 DEF Core, PlanTyped, PlacesTyped, NewPathsPlanned, HoldsOne
<1>8. /\ Moves' = Moves /\ \A e \in Docs : PlaceOf(e)' = PlaceOf(e)
      /\ \A e \in Docs : (InRing(e)' <=> InRing(e)) /\ RingOf(e)' = RingOf(e)
                         /\ holds'[e] = holds[e]
      BY <1>1, PlacesSame, RingsSame
<1>9. ASSUME NEW a \in Temps, Put(Where(d), a), pc' = "backring",
             first' = d, aside' = a, UNCHANGED <<done, stuck>>
      PROVE  Core'
  <2>1. AtTyped' /\ Distinct' /\ at' = [at EXCEPT ![d] = a]
        BY <1>2, <1>5, <1>6, <1>9, PutMoves DEF Paths
  <2>2. at'[d] = a /\ \A e \in Docs : e # d => at'[e] = at[e]
        BY <2>1, <1>2, <1>6 DEF AtTyped, Files
  <2>3. RunTyped'
        BY <1>1, <1>2, <1>4, <1>9 DEF RunTyped, Backing
  <2>4. HoldsPlan' /\ HoldsMoves' /\ PlacedForward'
        BY <1>1, <1>8, <1>9
           DEF Core, HoldsPlan, HoldsMoves, Backing, PlacedForward, Forward, Moving
  <2>5. StuckTyped' /\ ToldStuck' = ToldStuck
        BY <1>2, <1>9 DEF StuckTyped, ToldStuck
  <2>6. StuckThere'
        BY <1>1, <1>2, <1>4, <1>9, <2>2, StuckTried DEF StuckThere
  <2>7. RingUnderWay'
        BY <1>1, <1>3, <1>4, <1>8, <1>9, <2>2 DEF RingUnderWay, InARing
  <2>8. RingsWhole'
    <3>1. Tried' = done \cup RingOf(d)
          BY <1>3, <1>4, <1>5, <1>8, <1>9 DEF Tried
    <3> QED
        BY <1>5, <1>8, <1>9, <3>1 DEF RingsWhole
  <2>9. PlacedBack'
        BY <1>1, <1>4, <1>8, <1>9, <2>2, <2>5 DEF PlacedBack
  <2> QED
      BY <1>7, <2>1, <2>3, <2>4, <2>5, <2>6, <2>7, <2>8, <2>9 DEF Core
<1>10. ASSUME done' = done \cup RingOf(d), UNCHANGED <<at, pc, first, aside>>,
              stuck' = stuck \o [i \in DOMAIN RingFrom(d) |->
                                     <<RingFrom(d)[i], Where(RingFrom(d)[i])>>]
       PROVE  Core'
  <2>1. AtTyped' /\ Distinct'
        BY <1>2, <1>10 DEF AtTyped, Distinct
  <2>2. RunTyped'
        BY <1>1, <1>2, <1>5, <1>10 DEF RunTyped
  <2>3. HoldsPlan' /\ HoldsMoves' /\ PlacedForward'
        BY <1>1, <1>8, <1>10
           DEF Core, HoldsPlan, HoldsMoves, Backing, PlacedForward, Forward, Moving
  <2>4. StuckTyped' /\ ToldStuck' = ToldStuck \cup RingOf(d) /\ StuckThere'
        BY <1>1, <1>2, <1>4, <1>6, <1>10, RingStuck
  <2>5. RingUnderWay'
        BY <1>1, <1>3, <1>10 DEF RingUnderWay, InARing
  <2>6. RingsWhole'
    <3>1. Tried' = done \cup RingOf(d)
          BY <1>3, <1>10 DEF Tried
    <3> QED
        BY <1>1, <1>5, <1>8, <1>10, <3>1 DEF RingsWhole
  <2>7. PlacedBack'
        BY <1>1, <1>4, <1>5, <1>8, <1>10, <2>4 DEF PlacedBack
  <2> QED
      BY <1>7, <2>1, <2>2, <2>3, <2>4, <2>5, <2>6, <2>7 DEF Core
<1> QED
    BY <1>9, <1>10 DEF BackAside

\* While a ring is put back its first file is aside.
LEMMA AtBackRing ==
    ASSUME Core, pc = "backring"
    PROVE  /\ first \in Docs \ done /\ InRing(first) /\ aside \in Temps /\ at[first] = aside
           /\ first \in RingOf(first) /\ RingOf(first) \subseteq Moves
           /\ Tried = done \cup RingOf(first)
           /\ at[first] # Nowhere /\ first \in Files /\ Nobody \notin Docs
<1>1. /\ first \in Docs \ done /\ InRing(first) /\ aside \in Temps /\ at[first] = aside
      BY DEF Core, RingUnderWay, InARing
<1>2. /\ first \in RingOf(first) /\ RingOf(first) \subseteq Moves
      BY <1>1, AtBack, RingIsLeast DEF Backing
<1> QED
    BY <1>1, <1>2, RenameAssumption DEF RenameAssumption, Tried, Files

LEMMA BackStepStep == Core /\ BackStep => Core'
<1> SUFFICES ASSUME Core, BackStep PROVE Core'
    OBVIOUS
<1>1. PICK d, R : R = RingOf(first) /\ d = NextOf(R, R \cap done)
      OBVIOUS
<1>2. /\ pc = "backring" /\ pc' = "backring" /\ d # first /\ done' = done \cup {d}
      /\ UNCHANGED <<plan, newPath, holds, first, aside, went, mapping, stranded>>
      BY <1>1 DEF BackStep
<1>3. \/ /\ Put(Where(d), Home[d]) /\ moved' = moved \cup {d}
         /\ going' = going /\ stuck' = stuck
      \/ /\ at' = at /\ stuck' = Append(stuck, <<d, Where(d)>>) /\ moved' = moved
         /\ going' = FALSE
      BY <1>1 DEF BackStep, NotPut
<1>4. AtTyped /\ PlanTyped /\ RunTyped /\ PlacesTyped /\ StuckTyped /\ Distinct /\ StuckThere
      BY DEF Core
<1>5. /\ first \in Docs \ done /\ InRing(first) /\ aside \in Temps /\ at[first] = aside
      /\ first \in R /\ R \subseteq Moves /\ Tried = done \cup R /\ Nobody \notin Docs
      BY <1>1, <1>2, AtBackRing
<1>6. /\ done \subseteq Moves /\ moved \subseteq done /\ Moves \subseteq Docs
      /\ \A e \in Docs \ {first} : e \notin done => at[e] = PlaceOf(e)
      /\ \A e \in moved : at[e] = Home[e]
      /\ ToldStuck = done \ moved
      /\ \A e \in Docs \ Tried : InRing(e) => holds[e] \notin Tried
      /\ HoldsTyped /\ HoldsOne /\ went = <<>>
      BY <1>2, AtBack DEF Backing
<1>7. d \in R \ done
  <2>1. R \cap done \in SUBSET (R \ {first})
        BY <1>5
  <2>2. d \in R \ (R \cap done)
        BY <1>1, <1>5, <1>6, <2>1, RingTurn
  <2> QED
      BY <2>2
<1>8. /\ d \in Docs /\ d \in Files /\ at[d] = Where(d) /\ Where(d) # Nowhere
      /\ Where(d) \in Paths /\ Home[d] \in Paths
      BY <1>2, <1>4, <1>5, <1>6, <1>7, PlaceTyped DEF Files
<1>9. PlanTyped' /\ PlacesTyped' /\ NewPathsPlanned' /\ HoldsOne'
      BY <1>2, <1>4 DEF Core, PlanTyped, PlacesTyped, NewPathsPlanned, HoldsOne
<1>10. /\ Moves' = Moves /\ \A e \in Docs : PlaceOf(e)' = PlaceOf(e)
       /\ \A e \in Docs : (InRing(e)' <=> InRing(e)) /\ RingOf(e)' = RingOf(e)
                          /\ holds'[e] = holds[e]
       BY <1>2, PlacesSame, RingsSame
<1>11. HoldsPlan' /\ HoldsMoves' /\ PlacedForward'
       BY <1>2, <1>10
          DEF Core, HoldsPlan, HoldsMoves, Backing, PlacedForward, Forward, Moving
<1>12. RingsWhole'
  <2>1. Tried' = Tried
        BY <1>1, <1>2, <1>5, <1>7, <1>10 DEF Tried
  <2> QED
      BY <1>2, <1>6, <1>10, <2>1 DEF RingsWhole
<1>13. at'[first] = aside => RingUnderWay'
       BY <1>2, <1>5, <1>6, <1>10 DEF RingUnderWay, InARing
<1>14. CASE /\ Put(Where(d), Home[d]) /\ moved' = moved \cup {d}
            /\ going' = going /\ stuck' = stuck
  <2>1. AtTyped' /\ Distinct' /\ at' = [at EXCEPT ![d] = Home[d]]
        BY <1>4, <1>8, <1>14, PutMoves
  <2>2. at'[d] = Home[d] /\ \A e \in Docs : e # d => at'[e] = at[e]
        BY <1>4, <1>8, <2>1 DEF AtTyped, Files
  <2>3. RunTyped'
        BY <1>2, <1>4, <1>8, <1>14 DEF RunTyped
  <2>4. StuckTyped' /\ ToldStuck' = ToldStuck
        BY <1>4, <1>14 DEF StuckTyped, ToldStuck
  <2>5. StuckThere'
        BY <1>4, <1>6, <1>7, <1>14, <2>2, StuckTried DEF StuckThere
  <2>6. PlacedBack'
        BY <1>2, <1>5, <1>6, <1>7, <1>10, <1>14, <2>2, <2>4 DEF PlacedBack
  <2>7. at'[first] = aside
        BY <1>2, <1>5, <2>2
  <2> QED
      BY <1>9, <1>11, <1>12, <1>13, <2>1, <2>3, <2>4, <2>5, <2>6, <2>7 DEF Core
<1>15. CASE /\ at' = at /\ stuck' = Append(stuck, <<d, Where(d)>>) /\ moved' = moved
            /\ going' = FALSE
  <2>1. AtTyped' /\ Distinct' /\ RunTyped'
        BY <1>2, <1>4, <1>8, <1>15 DEF AtTyped, Distinct, RunTyped
  <2>2. StuckTyped' /\ ToldStuck' = ToldStuck \cup {d} /\ StuckThere'
        BY <1>4, <1>8, <1>15, OneMoreStuck DEF StuckThere
  <2>3. PlacedBack'
        BY <1>2, <1>5, <1>6, <1>7, <1>10, <1>15, <2>2 DEF PlacedBack
  <2>4. at'[first] = aside
        BY <1>5, <1>15
  <2> QED
      BY <1>9, <1>11, <1>12, <1>13, <2>1, <2>2, <2>3, <2>4 DEF Core
<1> QED
    BY <1>3, <1>14, <1>15

LEMMA BackLastStep == Core /\ BackLast => Core'
<1> SUFFICES ASSUME Core, BackLast PROVE Core'
    OBVIOUS
<1>1. PICK d, R : R = RingOf(first) /\ d = first
      OBVIOUS
<1>2. /\ pc = "backring" /\ R \ done = {d}
      /\ UNCHANGED <<plan, newPath, holds, went, mapping, stranded>>
      BY <1>1 DEF BackLast
<1>3. \/ /\ Put(aside, Home[d]) /\ moved' = moved \cup {d} /\ stuck' = stuck /\ going' = going
         /\ pc' = "back" /\ first' = Nobody /\ aside' = Nowhere /\ done' = done \cup {d}
      \/ /\ at' = at /\ going' = FALSE
         /\ UNCHANGED <<moved, pc, first, aside, done, stuck>>
      \/ /\ \/ Put(aside, Where(d)) /\ stuck' = Append(stuck, <<d, Where(d)>>)
            \/ at' = at /\ stuck' = Append(stuck, <<d, aside>>)
         /\ pc' = "back" /\ first' = Nobody /\ aside' = Nowhere /\ done' = done \cup {d}
         /\ moved' = moved /\ going' = TRUE
      BY <1>1 DEF BackLast, NotPut
<1>4. AtTyped /\ PlanTyped /\ RunTyped /\ PlacesTyped /\ StuckTyped /\ Distinct /\ StuckThere
      BY DEF Core
<1>5. /\ first = d /\ d \in Docs \ done /\ InRing(d) /\ aside \in Temps /\ at[d] = aside
      /\ at[d] # Nowhere /\ d \in Files
      /\ d \in R /\ R \subseteq Moves /\ Tried = done \cup R /\ Nobody \notin Docs
      BY <1>1, <1>2, AtBackRing
<1>6. /\ done \subseteq Moves /\ moved \subseteq done /\ Moves \subseteq Docs
      /\ \A e \in Docs : e # d /\ e \notin done => at[e] = PlaceOf(e)
      /\ \A e \in moved : at[e] = Home[e]
      /\ ToldStuck = done \ moved
      /\ \A e \in Docs \ Tried : InRing(e) => holds[e] \notin Tried
      /\ went = <<>>
      BY <1>1, <1>2, AtBack DEF Backing
<1>7. Where(d) \in Paths /\ Home[d] \in Paths /\ aside \in Paths
      BY <1>4, <1>5, PlaceTyped DEF Paths
<1>8. PlanTyped' /\ PlacesTyped' /\ NewPathsPlanned' /\ HoldsOne'
      BY <1>2, <1>4 DEF Core, PlanTyped, PlacesTyped, NewPathsPlanned, HoldsOne
<1>9. /\ Moves' = Moves /\ \A e \in Docs : PlaceOf(e)' = PlaceOf(e)
      /\ \A e \in Docs : (InRing(e)' <=> InRing(e)) /\ RingOf(e)' = RingOf(e)
                         /\ holds'[e] = holds[e]
      BY <1>2, PlacesSame, RingsSame
<1>10. pc' \in Backing
       BY <1>2, <1>3 DEF Backing
<1>11. HoldsPlan' /\ HoldsMoves' /\ PlacedForward'
       BY <1>2, <1>9, <1>10
          DEF Core, HoldsPlan, HoldsMoves, Backing, PlacedForward, Forward, Moving
<1>12. Tried' = Tried
       BY <1>1, <1>2, <1>3, <1>5, <1>9 DEF Tried
<1>13. RingsWhole'
       BY <1>6, <1>9, <1>10, <1>12 DEF RingsWhole, Backing
<1>14. CASE /\ at' = at /\ going' = FALSE
            /\ UNCHANGED <<moved, pc, first, aside, done, stuck>>
  <2>1. AtTyped' /\ Distinct' /\ RunTyped' /\ StuckTyped' /\ StuckThere' /\ ToldStuck' = ToldStuck
        BY <1>2, <1>4, <1>14
           DEF AtTyped, Distinct, RunTyped, StuckTyped, StuckThere, ToldStuck
  <2>2. PlacedBack'
        BY <1>5, <1>6, <1>9, <1>14, <2>1 DEF PlacedBack
  <2>3. RingUnderWay'
        BY <1>2, <1>5, <1>6, <1>9, <1>14 DEF RingUnderWay, InARing
  <2> QED
      BY <1>8, <1>11, <1>13, <2>1, <2>2, <2>3 DEF Core
<1>15. ASSUME pc' = "back", first' = Nobody, aside' = Nowhere, done' = done \cup {d},
              going' \in BOOLEAN, moved' \in {moved, moved \cup {d}},
              AtTyped', Distinct', \A e \in Docs : e # d => at'[e] = at[e],
              StuckTyped', StuckThere', ToldStuck' = done' \ moved',
              d \in moved' => at'[d] = Home[d]
       PROVE  Core'
  <2>1. RunTyped'
        BY <1>2, <1>4, <1>5, <1>15 DEF RunTyped, Backing
  <2>2. RingUnderWay'
        BY <1>2, <1>6, <1>15 DEF RingUnderWay, InARing
  <2>3. PlacedBack'
        BY <1>5, <1>6, <1>9, <1>15 DEF PlacedBack
  <2> QED
      BY <1>8, <1>11, <1>13, <1>15, <2>1, <2>2, <2>3 DEF Core
<1>16. ASSUME NEW p \in Paths, Put(aside, p)
       PROVE  /\ AtTyped' /\ Distinct' /\ at'[d] = p
              /\ \A e \in Docs : e # d => at'[e] = at[e]
  <2>1. AtTyped' /\ Distinct' /\ at' = [at EXCEPT ![d] = p]
        BY <1>4, <1>5, <1>16, PutMoves
  <2> QED
      BY <1>4, <1>5, <2>1 DEF AtTyped, Files
<1>17. (\A e \in Docs : e # d => at'[e] = at[e])
           => \A i \in DOMAIN stuck : at'[stuck[i][1]] = stuck[i][2]
       BY <1>4, <1>5, <1>6, StuckTried
<1>18. CASE /\ Put(aside, Home[d]) /\ moved' = moved \cup {d} /\ stuck' = stuck
            /\ going' = going
            /\ pc' = "back" /\ first' = Nobody /\ aside' = Nowhere /\ done' = done \cup {d}
  <2>1. AtTyped' /\ Distinct' /\ at'[d] = Home[d] /\ \A e \in Docs : e # d => at'[e] = at[e]
        BY <1>7, <1>16, <1>18
  <2>2. StuckTyped' /\ StuckThere' /\ ToldStuck' = ToldStuck
        BY <1>4, <1>17, <1>18, <2>1 DEF StuckTyped, StuckThere, ToldStuck
  <2>3. ToldStuck' = done' \ moved'
        BY <1>5, <1>6, <1>18, <2>2
  <2>4. going' \in BOOLEAN
        BY <1>4, <1>18 DEF RunTyped
  <2> QED
      BY <1>15, <1>18, <2>1, <2>2, <2>3, <2>4
<1>19. ASSUME NEW p \in Paths, stuck' = Append(stuck, <<d, p>>), AtTyped', Distinct',
              at'[d] = p, \A e \in Docs : e # d => at'[e] = at[e],
              pc' = "back", first' = Nobody, aside' = Nowhere, done' = done \cup {d},
              moved' = moved, going' = TRUE
       PROVE  Core'
  <2>1. StuckTyped' /\ ToldStuck' = ToldStuck \cup {d} /\ StuckThere'
        BY <1>4, <1>5, <1>17, <1>19, OneMoreStuck
  <2>2. ToldStuck' = done' \ moved' /\ d \notin moved'
        BY <1>5, <1>6, <1>19, <2>1
  <2> QED
      BY <1>15, <1>19, <2>1, <2>2
<1>20. CASE /\ \/ Put(aside, Where(d)) /\ stuck' = Append(stuck, <<d, Where(d)>>)
               \/ at' = at /\ stuck' = Append(stuck, <<d, aside>>)
            /\ pc' = "back" /\ first' = Nobody /\ aside' = Nowhere /\ done' = done \cup {d}
            /\ moved' = moved /\ going' = TRUE
  <2>1. CASE Put(aside, Where(d)) /\ stuck' = Append(stuck, <<d, Where(d)>>)
    <3>1. /\ AtTyped' /\ Distinct' /\ at'[d] = Where(d)
          /\ \A e \in Docs : e # d => at'[e] = at[e]
          BY <1>7, <1>16, <2>1
    <3> QED
        BY <1>7, <1>19, <1>20, <2>1, <3>1
  <2>2. CASE at' = at /\ stuck' = Append(stuck, <<d, aside>>)
    <3>1. AtTyped' /\ Distinct'
          BY <1>4, <2>2 DEF AtTyped, Distinct
    <3> QED
        BY <1>5, <1>7, <1>19, <1>20, <2>2, <3>1
  <2> QED
      BY <1>20, <2>1, <2>2
<1> QED
    BY <1>3, <1>14, <1>18, <1>20

-----------------------------------------------------------------------------

LEMMA CoreStep == Core /\ [Next]_vars => Core'
<1> SUFFICES ASSUME Core, [Next]_vars PROVE Core'
    OBVIOUS
<1>1. CASE Check \/ RingStep \/ RingReturn \/ RingHome \/ Applied
      BY <1>1, CheckStep, RingStepStep, RingReturnStep, RingHomeStep, AppliedStep
<1>2. CASE \E d \in Docs : RenameOne(d) \/ RingAside(d)
      BY <1>2, RenameOneStep, RingAsideStep
<1>3. CASE WriteIndex \/ WriteRecords \/ Undo
      BY <1>3, WriteIndexStep, WriteRecordsStep, UndoStep
<1>4. CASE \E d \in Docs : BackOne(d) \/ BackAside(d)
      BY <1>4, BackOneStep, BackAsideStep
<1>5. CASE BackStep \/ BackLast \/ PutBack \/ Leave \/ Cut
      BY <1>5, BackStepStep, BackLastStep, PutBackStep, LeaveStep, CutStep
<1>6. CASE \E x \in Strangers, p \in Names : StrangerComes(x, p)
      BY <1>6, StrangerStep
<1>7. CASE Ended \/ UNCHANGED vars
      BY <1>7, StutterStep DEF Ended
<1> QED
    BY <1>1, <1>2, <1>3, <1>4, <1>5, <1>6, <1>7 DEF Next

-----------------------------------------------------------------------------
(* The ledgers. *)

Agree == \A d \in Docs : mem[d] = Told(d) /\ (unwritten \/ index[d] = Told(d))

LEMMA ToldSame ==
    ASSUME UNCHANGED <<mapping, stranded, stuck>>, \A d \in Docs : at'[d] = at[d]
    PROVE  \A d \in Docs : Told(d)' = Told(d)
BY DEF Told, ToldStuck, ToldAside

\* Once apply is done the mapping says of each file whether and where it moved.
LEMMA ToldWhenApplied ==
    ASSUME Core, pc \in {"check", "apply", "index", "save"}
    PROVE  /\ \A d \in Docs : Told(d) = Followed(Home)[d]
           /\ stuck = <<>> /\ \A d \in Docs : at[d] = PlaceOf(d)
<1>1. /\ first = Nobody /\ InWent = {} /\ Nobody \notin Docs
      BY NoneWent, RenameAssumption DEF RenameAssumption, Core, RingUnderWay, InARing
<1>2. stuck = <<>> /\ \A d \in Docs : at[d] = PlaceOf(d)
      BY <1>1 DEF Core, PlacedForward, Forward
<1>3. ToldStuck = {}
      BY <1>2 DEF ToldStuck
<1>4. \A d \in Docs : Told(d) = Followed(Home)[d]
      BY <1>2, <1>3 DEF Told, ToldAside, Followed, PlaceOf, Where, Moves
<1> QED
    BY <1>2, <1>4

\* Once put_back is done each file is home, or was said not to be.
LEMMA ToldWhenBack ==
    ASSUME Core, pc = "back", Moves \subseteq done
    PROVE  /\ \A d \in Docs : Told(d) = Home[d]
           /\ \A d \in Docs \ ToldStuck : at[d] = Home[d]
<1>1. /\ first = Nobody /\ Nobody \notin Docs
      BY RenameAssumption DEF RenameAssumption, Core, RingUnderWay, InARing
<1>2. \A d \in Docs \ ToldStuck : at[d] = Home[d]
      BY <1>1, AtBack DEF Backing, PlaceOf
<1> QED
    BY <1>2 DEF Told

\* Steps while files move and are put back.
LEMMA LedgersStill ==
    ASSUME Core, LedgersSoFar, UNCHANGED ledgers,
           \/ pc \in Moving /\ pc' \in Moving
           \/ pc \in Backing /\ pc' \in Backing
    PROVE  LedgersSoFar'
BY DEF LedgersSoFar, ledgers, Moving, Backing, Forward

\* Steps of another program, and those that change nothing.
LEMMA LedgersSame ==
    ASSUME Core, LedgersSoFar, UNCHANGED ledgers, pc' = pc,
           UNCHANGED <<mapping, stranded, stuck>>, \A d \in Docs : at'[d] = at[d]
    PROVE  LedgersSoFar'
<1>1. \A d \in Docs : Told(d)' = Told(d)
      BY ToldSame
<1>2. Followed(Home)' = Followed(Home)
      BY DEF Followed
<1> QED
    BY <1>1, <1>2 DEF LedgersSoFar, ledgers

LEMMA LedgersStep == Core /\ LedgersSoFar /\ [Next]_vars => LedgersSoFar'
<1> SUFFICES ASSUME Core, LedgersSoFar, [Next]_vars PROVE LedgersSoFar'
    OBVIOUS
<1>1. ASSUME Check PROVE LedgersSoFar'
  <2>1. CASE pc' = "apply"
        BY <1>1, <2>1, LedgersStill DEF Check, Moving
  <2>2. CASE pc' = "leave"
    <3>1. /\ pc = "check" /\ UNCHANGED <<at, mapping, stranded, stuck, ledgers>>
          BY <1>1 DEF Check
    <3>2. mem = Home /\ index = Home
          BY <3>1 DEF LedgersSoFar, Forward, Moving
    <3>3. \A d \in Docs : mapping[d] = Nowhere
          BY <3>1 DEF Core, RingsWhole, PlacedForward, Moving, Moves
    <3>4. \A d \in Docs : Told(d) = Home[d]
          BY <3>1, <3>3, ToldWhenApplied DEF Followed
    <3>5. \A d \in Docs : Told(d)' = Home[d]
          BY <3>1, <3>4, ToldSame
    <3> QED
        BY <2>2, <3>1, <3>2, <3>5 DEF LedgersSoFar, ledgers, Forward, Moving, Backing
  <2> QED
      BY <1>1, <2>1, <2>2 DEF Check
<1>2. ASSUME \/ \E d \in Docs : RenameOne(d) \/ RingAside(d)
             \/ RingStep \/ RingReturn \/ RingHome
      PROVE  LedgersSoFar'
      BY <1>2, LedgersStill DEF RenameOne, RingAside, RingStep, RingReturn, RingHome, Moving,
         ringvars
<1>3. ASSUME Applied PROVE LedgersSoFar'
  <2>1. /\ pc = "apply" /\ UNCHANGED <<at, mapping, stranded, stuck, ledgers>>
        /\ pc' = IF \A d \in Docs : mapping[d] = Nowhere THEN "leave" ELSE "index"
        BY <1>3 DEF Applied
  <2>2. mem = Home /\ index = Home /\ ~wrote
        BY <2>1 DEF LedgersSoFar, Forward, Moving
  <2>3. CASE pc' = "index"
        BY <2>1, <2>2, <2>3 DEF LedgersSoFar, ledgers, Forward, Moving, Backing
  <2>4. CASE \A d \in Docs : mapping[d] = Nowhere
    <3>1. \A d \in Docs : Told(d)' = Home[d]
          BY <2>1, <2>4, ToldWhenApplied, ToldSame DEF Followed
    <3>2. pc' = "leave"
          BY <2>1, <2>4
    <3> QED
        BY <2>1, <2>2, <3>1, <3>2 DEF LedgersSoFar, ledgers, Forward, Moving, Backing
  <2> QED
      BY <2>1, <2>3, <2>4
<1>4. ASSUME WriteIndex PROVE LedgersSoFar'
  <2>1. mem = Home /\ index = Home /\ ~wrote /\ Followed(Home)' = Followed(Home)
        BY <1>4 DEF WriteIndex, LedgersSoFar, Forward, Followed
  <2> QED
      BY <1>4, <2>1 DEF WriteIndex, LedgersSoFar, Forward, Moving, Backing
<1>5. ASSUME WriteRecords PROVE LedgersSoFar'
  <2>1. /\ pc = "save" /\ mem = Home /\ index = Followed(Home)
        /\ UNCHANGED <<at, index, mapping, stranded, stuck, wrote, unwritten>>
        /\ mem' = Followed(Home)
        BY <1>5 DEF WriteRecords, LedgersSoFar, Forward
  <2>2. \A d \in Docs : Told(d)' = Followed(Home)[d]
        BY <2>1, ToldWhenApplied, ToldSame
  <2>3. wrote
        BY <2>1 DEF LedgersSoFar
  <2>4. pc' \in {"leave", "undo"}
        BY <1>5 DEF WriteRecords
  <2> QED
      BY <2>1, <2>2, <2>3, <2>4 DEF LedgersSoFar, Forward, Moving, Backing
<1>6. ASSUME Undo PROVE LedgersSoFar'
      BY <1>6 DEF Undo, Restored, LedgersSoFar, Forward, Moving, Backing
<1>7. ASSUME \/ \E d \in Docs : BackOne(d) \/ BackAside(d)
             \/ BackStep \/ BackLast
      PROVE  LedgersSoFar'
      BY <1>7, LedgersStill DEF BackOne, BackAside, BackStep, BackLast, Backing, ringvars
<1>8. ASSUME PutBack PROVE LedgersSoFar'
  <2>1. /\ pc = "back" /\ pc' = "leave" /\ Moves \subseteq done
        /\ UNCHANGED <<at, mapping, stranded, stuck, ledgers>>
        BY <1>8 DEF PutBack
  <2>2. \A d \in Docs : Told(d)' = Home[d]
        BY <2>1, ToldWhenBack, ToldSame
  <2>3. mem = Home /\ (unwritten \/ index = Home)
        BY <2>1 DEF LedgersSoFar, Backing
  <2> QED
      BY <2>1, <2>2, <2>3 DEF LedgersSoFar, ledgers, Forward, Moving, Backing
<1>9. ASSUME Leave PROVE LedgersSoFar'
  <2>1. /\ pc = "leave" /\ pc' = "over" /\ records' = mem
        /\ UNCHANGED <<at, mapping, stranded, stuck, mem, index, unwritten>>
        BY <1>9 DEF Leave
  <2>2. \A d \in Docs : Told(d)' = Told(d)
        BY <2>1, ToldSame
  <2> QED
      BY <2>1, <2>2 DEF LedgersSoFar, Forward, Moving, Backing
<1>10. ASSUME Cut PROVE LedgersSoFar'
       BY <1>10 DEF Cut, LedgersSoFar, Forward, Moving, Backing
<1>11. ASSUME NEW x \in Strangers, NEW p \in Names, StrangerComes(x, p) PROVE LedgersSoFar'
  <2>1. /\ at' = [at EXCEPT ![x] = p] /\ pc' = pc
        /\ UNCHANGED <<mapping, stranded, stuck, ledgers>>
        BY <1>11 DEF StrangerComes
  <2>2. \A d \in Docs : at'[d] = at[d]
        BY <2>1, RenameAssumption DEF RenameAssumption, Core, AtTyped, Files
  <2> QED
      BY <2>1, <2>2, LedgersSame
<1>12. CASE Ended \/ UNCHANGED vars
       BY <1>12, LedgersSame DEF Ended, vars, ledgers
<1> QED
    BY <1>1, <1>2, <1>3, <1>4, <1>5, <1>6, <1>7, <1>8, <1>9, <1>10, <1>11, <1>12 DEF Next

-----------------------------------------------------------------------------
(* How a step moves a file. *)

GoesTo(f, p) == Free(p) /\ at' = [at EXCEPT ![f] = p]

LandsAt(d) ==
    \E p \in Landings(d) :
        p \in Names /\ GoesTo(d, p) /\ newPath' = [newPath EXCEPT ![d] = p]

LEMMA RenameOneLands ==
    ASSUME Core, NEW d \in Docs, RenameOne(d)
    PROVE  /\ pc = "apply" /\ first = Nobody /\ InWent = {} /\ d \in Planned \ done
           /\ d \notin Moves
           /\ Land(d, Home[d]) => LandsAt(d)
<1>1. pc = "apply" /\ d \in Planned \ done
      BY DEF RenameOne, Ready
<1>2. /\ first = Nobody /\ InWent = {} /\ d \notin Moves /\ at[d] = Home[d]
      BY <1>1, AtApply
<1>3. d \in Files /\ newPath[d] # Nowhere /\ at[d] # Nowhere
      BY <1>1, <1>2, RenameAssumption
         DEF RenameAssumption, Files, Core, NewPathsPlanned, Planned
<1>4. Land(d, Home[d]) => LandsAt(d)
      BY <1>2, <1>3, LandMoves DEF Core, LandsAt, GoesTo
<1> QED
    BY <1>1, <1>2, <1>4

LEMMA RingStepLands ==
    ASSUME Core, NEW d, d = NextOf(RingOf(first), InWent), pc = "ring"
    PROVE  /\ d \in RingOf(first) \ (InWent \cup done) /\ d \in Planned /\ d \notin Moves
           /\ \A e \in Docs : plan[d] = Home[e] => e \in InWent \cup {first}
           /\ Land(d, IF d = first THEN aside ELSE Home[d]) => LandsAt(d)
<1>1. /\ d \in RingOf(first) \ InWent /\ d \in Docs \ done
      /\ newPath[d] # Nowhere
      /\ at[d] = IF d = first THEN aside ELSE Home[d]
      /\ IF d = first THEN RingOf(first) = InWent \cup {first}
                      ELSE holds[d] \in InWent \cup {first}
      BY RingNext
<1>2. /\ \A e \in RingOf(first) : holds[e] \in RingOf(first)
      /\ Moves \subseteq done /\ aside \in Temps /\ RingOf(first) \subseteq Docs \cap Planned
      BY AtRing
<1>3. \A e \in Docs : plan[d] = Home[e] => e \in InWent \cup {first}
      BY <1>1, <1>2 DEF Core, HoldsPlan
<1>4. d \in Files /\ at[d] # Nowhere
      BY <1>1, <1>2, RenameAssumption DEF RenameAssumption, Files
<1>5. Land(d, IF d = first THEN aside ELSE Home[d]) => LandsAt(d)
      BY <1>1, <1>4, LandMoves DEF Core, LandsAt, GoesTo
<1> QED
    BY <1>1, <1>2, <1>3, <1>5

LEMMA PutGoes ==
    ASSUME Core, NEW f \in Files, NEW source, at[f] = source, source # Nowhere,
           NEW p \in Paths, Put(source, p)
    PROVE  GoesTo(f, p)
BY PutMoves DEF Core, GoesTo

LEMMA RingAsideGoes ==
    ASSUME Core, NEW d \in Docs, RingAside(d), NEW a \in Temps, Put(Home[d], a)
    PROVE  d \in Files /\ a \in Paths /\ GoesTo(d, a)
<1>1. at[d] = Home[d] /\ Home[d] # Nowhere
      BY AtApply, RenameAssumption DEF RenameAssumption, RingAside
<1> QED
    BY <1>1, PutGoes DEF Files, Paths

LEMMA RingReturnGoes ==
    ASSUME Core, RingReturn, NEW d, d = went[Len(went)]
    PROVE  /\ d \in InWent /\ d \in Docs \ done /\ d \in Planned /\ newPath[d] # Nowhere
           /\ Put(newPath[d], Home[d]) => GoesTo(d, Home[d])
<1>1. pc = "return" /\ went # <<>>
      BY DEF RingReturn
<1>2. went \in Seq(Docs)
      BY DEF Core, RunTyped
<1>3. d \in InWent
  <2>1. Len(went) \in DOMAIN went
        BY <1>1, <1>2, LenProperties, EmptySeq
  <2> QED
      BY <2>1 DEF InWent
<1>4. /\ at[d] = newPath[d] /\ d \in Docs \ done /\ d \in Planned /\ newPath[d] # Nowhere
      BY <1>1, <1>3, AtRing
<1>5. d \in Files /\ Home[d] \in Paths
      BY <1>4, PlaceTyped DEF Core, Files
<1> QED
    BY <1>3, <1>4, <1>5, PutGoes

LEMMA RingHomeGoes ==
    ASSUME Core, RingHome
    PROVE  /\ first \in Docs \ done /\ InWent = {} /\ aside \in Temps /\ at[first] = aside
           /\ Put(aside, Home[first]) => GoesTo(first, Home[first])
<1>1. pc = "return" /\ InWent = {}
      BY NoneWent DEF RingHome
<1>2. first \in Docs \ done /\ at[first] = aside /\ aside \in Temps
      BY <1>1, AtRing
<1>3. first \in Files /\ aside # Nowhere /\ Home[first] \in Paths
      BY <1>2, PlaceTyped, RenameAssumption DEF RenameAssumption, Core, Files
<1> QED
    BY <1>1, <1>2, <1>3, PutGoes

LEMMA BackGoes ==
    ASSUME Core
    PROVE  /\ \A d \in Docs : BackOne(d) /\ at' # at => GoesTo(d, Home[d])
           /\ \A d \in Docs : BackAside(d) /\ at' # at => \E a \in Temps : GoesTo(d, a)
           /\ BackStep /\ at' # at => \E d \in Docs : GoesTo(d, Home[d])
           /\ BackLast /\ at' # at =>
                  /\ first \in Docs \cap Moves
                  /\ \E p \in {Home[first], Where(first)} : p \in Paths /\ GoesTo(first, p)
<1>1. \A d \in Docs : d \in Files /\ Home[d] \in Paths
                      /\ (d \in Moves => Where(d) \in Paths /\ Where(d) # Nowhere
                                         /\ PlaceOf(d) = Where(d))
      BY PlaceTyped DEF Core, Files
<1>2. Nobody \notin Docs /\ Nowhere \notin Temps
      BY RenameAssumption DEF RenameAssumption
<1>3. pc = "back" => first = Nobody
      BY DEF Core, RingUnderWay, InARing
<1>4. ASSUME NEW d \in Docs, BackOne(d), at' # at PROVE GoesTo(d, Home[d])
  <2>1. pc = "back" /\ d \in Moves \ done /\ Put(Where(d), Home[d])
        BY <1>4 DEF BackOne, Ready, NotPut
  <2>2. at[d] = Where(d)
        BY <1>1, <1>2, <1>3, <2>1, AtBack DEF Backing
  <2> QED
      BY <1>1, <2>1, <2>2, PutGoes
<1>5. ASSUME NEW d \in Docs, BackAside(d), at' # at PROVE \E a \in Temps : GoesTo(d, a)
  <2>1. pc = "back" /\ d \in Moves \ done /\ \E a \in Temps : Put(Where(d), a)
        BY <1>5 DEF BackAside
  <2>2. at[d] = Where(d)
        BY <1>1, <1>2, <1>3, <2>1, AtBack DEF Backing
  <2> QED
      BY <1>1, <2>1, <2>2, PutGoes DEF Paths
<1>6. ASSUME BackStep, at' # at PROVE \E d \in Docs : GoesTo(d, Home[d])
  <2>1. PICK R, d : R = RingOf(first) /\ d = NextOf(R, R \cap done)
        OBVIOUS
  <2>2. pc = "backring" /\ d # first /\ Put(Where(d), Home[d])
        BY <1>6, <2>1 DEF BackStep, NotPut
  <2>3. first \in Docs \ done /\ InRing(first) /\ R \subseteq Moves
        BY <2>1, <2>2, AtBackRing
  <2>4. HoldsTyped /\ HoldsOne /\ Moves \subseteq Docs
        BY <2>2, AtBack DEF Backing
  <2>5. R \cap done \in SUBSET (R \ {first})
        BY <2>3
  <2>6. d \in R \ done
        BY <2>1, <2>3, <2>4, <2>5, RingTurn
  <2>7. at[d] = Where(d) /\ d \in Docs
        BY <1>1, <2>2, <2>3, <2>4, <2>6, AtBack DEF Backing
  <2> QED
      BY <1>1, <2>2, <2>3, <2>6, <2>7, PutGoes
<1>7. ASSUME BackLast, at' # at
      PROVE  /\ first \in Docs \cap Moves
             /\ \E p \in {Home[first], Where(first)} : p \in Paths /\ GoesTo(first, p)
  <2>1. /\ pc = "backring"
        /\ Put(aside, Home[first]) \/ Put(aside, Where(first))
        BY <1>7 DEF BackLast, NotPut
  <2>2. /\ first \in Docs /\ first \in Moves /\ at[first] = aside /\ aside # Nowhere
        BY <1>2, <2>1, AtBackRing
  <2>3. first \in Files /\ Home[first] \in Paths /\ Where(first) \in Paths
        BY <1>1, <2>2
  <2>4. GoesTo(first, Home[first]) \/ GoesTo(first, Where(first))
        BY <2>1, <2>2, <2>3, PutGoes
  <2> QED
      BY <2>2, <2>3, <2>4
<1> QED
    BY <1>4, <1>5, <1>6, <1>7

\* Whatever the step, one file at most goes to a name that no file had.
LEMMA OneFileGoes ==
    ASSUME Core, [Next]_vars
    PROVE  at' = at \/ \E f \in Files, p \in Paths : GoesTo(f, p)
<1> SUFFICES ASSUME at' # at
             PROVE  \E f \in Files, p \in Paths : GoesTo(f, p)
    OBVIOUS
<1>1. Docs \subseteq Files /\ Names \subseteq Paths /\ Temps \subseteq Paths
      /\ \A d \in Docs : Home[d] \in Paths
      BY RenameAssumption DEF RenameAssumption, Files, Paths
<1>2. CASE \E d \in Docs : RenameOne(d)
      BY <1>1, <1>2, RenameOneLands DEF RenameOne, Refused, LandsAt
<1>3. CASE \E d \in Docs : RingAside(d)
      BY <1>1, <1>3, RingAsideGoes DEF RingAside
<1>4. CASE RingStep
  <2>1. PICK d : d = NextOf(RingOf(first), InWent)
        OBVIOUS
  <2>2. pc = "ring" /\ Land(d, IF d = first THEN aside ELSE Home[d])
        BY <1>4, <2>1 DEF RingStep, Refused
  <2>3. LandsAt(d) /\ d \in Planned
        BY <2>1, <2>2, RingStepLands
  <2> QED
      BY <1>1, <2>3 DEF LandsAt, Planned
<1>5. CASE RingReturn
  <2>1. PICK d : d = went[Len(went)]
        OBVIOUS
  <2>2. Put(newPath[d], Home[d])
        BY <1>5, <2>1 DEF RingReturn, NotPut
  <2>3. GoesTo(d, Home[d]) /\ d \in Docs
        BY <1>5, <2>1, <2>2, RingReturnGoes
  <2> QED
      BY <1>1, <2>3
<1>6. CASE RingHome
      BY <1>1, <1>6, RingHomeGoes DEF RingHome, NotPut
<1>7. CASE \/ \E d \in Docs : BackOne(d) \/ BackAside(d)
           \/ BackStep \/ BackLast
      BY <1>1, <1>7, BackGoes
<1>8. CASE \E x \in Strangers, p \in Names : StrangerComes(x, p)
      BY <1>1, <1>8 DEF StrangerComes, GoesTo, Files
<1>9. CASE \/ Check \/ Applied \/ WriteIndex \/ WriteRecords \/ Undo \/ PutBack \/ Leave
           \/ Cut \/ Ended \/ UNCHANGED vars
      BY <1>9 DEF Check, Applied, WriteIndex, WriteRecords, Undo, PutBack, Leave, Cut, Ended,
         vars
<1> QED
    BY <1>2, <1>3, <1>4, <1>5, <1>6, <1>7, <1>8, <1>9 DEF Next

LEMMA NoneOverwritten ==
    ASSUME Core, [Next]_vars
    PROVE  \A f \in Files : at[f] # Nowhere => at'[f] # Nowhere
<1>1. Nowhere \notin Paths
      BY RenameAssumption DEF RenameAssumption, Paths
<1>2. CASE at' = at
      BY <1>2
<1>3. CASE \E f \in Files, p \in Paths : GoesTo(f, p)
      BY <1>1, <1>3 DEF Core, AtTyped, GoesTo
<1> QED
    BY <1>2, <1>3, OneFileGoes

-----------------------------------------------------------------------------
(* What became of the plan. *)

LEMMA MappedStep == Core /\ Mapped /\ [Next]_vars => Mapped'
<1> SUFFICES ASSUME Core, Mapped, [Next]_vars PROVE Mapped'
    OBVIOUS
<1>1. /\ mapping \in [Docs -> Paths \cup {Nowhere}]
      /\ newPath \in [Docs -> Names \cup {Nowhere}]
      /\ moved \subseteq done /\ done \subseteq Docs
      /\ \A d \in Docs : newPath[d] = Nowhere <=> plan[d] = Nowhere
      BY DEF Core, PlacesTyped, PlanTyped, RunTyped, NewPathsPlanned
<1>2. Nowhere \notin Names /\ Nobody \notin Docs
      BY RenameAssumption DEF RenameAssumption
<1>3. ASSUME NEW d \in Docs, LandsAt(d)
      PROVE  /\ newPath'[d] # Nowhere
             /\ \A e \in Docs \ {d} : newPath'[e] = newPath[e]
      BY <1>1, <1>2, <1>3 DEF LandsAt
<1>4. ASSUME NEW d \in Docs, RenameOne(d) PROVE Mapped'
  <2>1. /\ pc = "apply" /\ pc' = "apply" /\ d \in Planned \ done /\ d \notin Moves
        /\ plan' = plan
        BY <1>4, RenameOneLands DEF RenameOne
  <2>2. mapping[d] = Nowhere
        BY <2>1 DEF Moves
  <2>3. CASE Land(d, Home[d]) /\ moved' = moved \cup {d}
             /\ mapping' = [mapping EXCEPT ![d] = newPath'[d]]
    <3>1. LandsAt(d)
          BY <1>4, <2>3, RenameOneLands
    <3> QED
        BY <1>1, <1>3, <2>1, <2>2, <2>3, <3>1 DEF Mapped, Forward, Planned
  <2>4. CASE UNCHANGED <<newPath, moved, mapping>>
        BY <2>1, <2>4 DEF Mapped
  <2> QED
      BY <1>4, <2>3, <2>4 DEF RenameOne, Refused
<1>5. ASSUME RingStep PROVE Mapped'
  <2>1. PICK d, R : R = RingOf(first) /\ d = NextOf(R, InWent)
        OBVIOUS
  <2>2. /\ pc = "ring" /\ plan' = plan
        /\ pc' \in {"ring", "apply", "return"}
        BY <1>5 DEF RingStep
  <2>3. /\ d \in R \ done /\ d \notin Moves
        /\ Land(d, IF d = first THEN aside ELSE Home[d]) => LandsAt(d)
        BY <2>1, <2>2, RingStepLands
  <2>4. R \subseteq Docs \cap Planned /\ R \cap done = {}
        BY <2>1, <2>2, AtRing DEF Core, RingUnderWay
  <2>5. mapping[d] = Nowhere
        BY <2>3, <2>4 DEF Moves
  <2>6. CASE LandsAt(d) /\ UNCHANGED <<moved, mapping>>
        BY <1>1, <1>3, <2>2, <2>3, <2>4, <2>5, <2>6 DEF Mapped, Forward
  <2>7. CASE /\ LandsAt(d) /\ moved' = moved \cup R
             /\ mapping' = [e \in Docs |-> IF e \in R THEN newPath'[e] ELSE mapping[e]]
        BY <1>1, <1>3, <2>2, <2>3, <2>4, <2>7 DEF Mapped, Forward, Planned
  <2>8. CASE UNCHANGED <<newPath, moved, mapping>>
        BY <2>2, <2>8 DEF Mapped, Forward
  <2> QED
      BY <1>5, <2>1, <2>3, <2>6, <2>7, <2>8 DEF RingStep, Refused
<1>6. ASSUME RingReturn PROVE Mapped'
  <2>1. PICK d : d = went[Len(went)]
        OBVIOUS
  <2>2. /\ pc = "return" /\ pc' = "return" /\ UNCHANGED <<plan, newPath>>
        /\ d \in Docs \ done /\ d \in Planned
        BY <1>6, <2>1, RingReturnGoes DEF RingReturn
  <2>3. CASE UNCHANGED <<moved, mapping>>
        BY <2>2, <2>3 DEF Mapped
  <2>4. CASE moved' = moved \cup {d} /\ mapping' = [mapping EXCEPT ![d] = newPath[d]]
        BY <1>1, <2>2, <2>4 DEF Mapped, Forward, Planned
  <2> QED
      BY <1>6, <2>1, <2>3, <2>4 DEF RingReturn
<1>7. ASSUME RingHome PROVE Mapped'
  <2>1. PICK d : d = first
        OBVIOUS
  <2>2. /\ pc = "return" /\ pc' = "apply" /\ UNCHANGED <<plan, newPath, moved>>
        /\ mapping' \in {mapping, [mapping EXCEPT ![d] = aside]}
        /\ d \in Docs \ done /\ aside \in Temps
        BY <1>7, <2>1, RingHomeGoes DEF RingHome, LeftAside
  <2> QED
      BY <1>1, <2>2 DEF Mapped, Forward
<1>8. CASE \/ Check \/ \E d \in Docs : RingAside(d)
           \/ Applied \/ WriteIndex \/ WriteRecords
           \/ \E x \in Strangers, p \in Names : StrangerComes(x, p)
           \/ Ended \/ UNCHANGED vars
      BY <1>8 DEF Check, RingAside, Applied, WriteIndex, WriteRecords, StrangerComes, Ended,
         vars, Mapped, Forward
<1>9. CASE \/ Undo \/ BackStep \/ BackLast \/ PutBack \/ Leave \/ Cut
           \/ \E d \in Docs : BackOne(d) \/ BackAside(d)
      BY <1>9 DEF Undo, BackStep, BackLast, PutBack, Leave, Cut, BackOne, BackAside, Mapped,
         Forward
<1> QED
    BY <1>4, <1>5, <1>6, <1>7, <1>8, <1>9 DEF Next

\* A new name is free when its turn comes, as long as no other program brings a
\* file: what had it has moved, and no one else is to have it.
LEMMA NewNameFree ==
    ASSUME Core, Mapped, NoFileCame, newPath = plan, pc \in {"apply", "ring"},
           NEW d \in Planned \ done, d \notin InWent,
           \A e \in Docs : plan[d] = Home[e] => e \in Moves \cup InWent \cup {first}
    PROVE  Free(plan[d]) /\ Landings(d) = {plan[d]}
<1>1. /\ plan[d] \in Names /\ d \in Docs
      /\ \A e, g \in Docs : plan[e] = plan[g] /\ plan[e] # Nowhere => e = g
      BY DEF Core, PlanTyped, NewPathsPlanned, Plans, Planned
<1>2. Names \cap Temps = {} /\ Nowhere \notin Names /\ Nobody \notin Docs
      BY RenameAssumption DEF RenameAssumption
<1>3. /\ Moves \subseteq done
      /\ \A e \in Docs \ {first} : at[e] = IF e \in InWent THEN newPath[e] ELSE PlaceOf(e)
      /\ \A e \in Docs : mapping[e] \in {Nowhere, newPath[e]} \cup Temps
      BY DEF Core, PlacedForward, Moving, Forward, Mapped
<1>4. pc = "ring" => at[first] \in Temps
      BY DEF Core, RingUnderWay, InARing
<1>5. pc = "apply" => first = Nobody
      BY DEF Core, RingUnderWay, InARing
<1>6. \A e \in Docs : stranded[e] \in Temps \cup {Nowhere}
      BY DEF Core, PlacesTyped
<1>7. \A e \in Docs : at[e] # plan[d]
  <2>1. SUFFICES ASSUME NEW e \in Docs, at[e] = plan[d]
                 PROVE  FALSE
        OBVIOUS
  <2>2. CASE e = first
        BY <1>1, <1>2, <1>4, <1>5, <2>1, <2>2
  <2>3. CASE e # first /\ e \in InWent
        BY <1>1, <1>2, <1>3, <2>1, <2>3
  <2>4. CASE e # first /\ e \notin InWent /\ e \in Moves
    <3>1. at[e] = Where(e)
          BY <1>3, <2>4 DEF PlaceOf
    <3>2. at[e] \in {newPath[e], Nowhere} \cup Temps
          BY <1>3, <1>6, <3>1 DEF Where
    <3>3. e = d
          BY <1>1, <1>2, <2>1, <3>2
    <3> QED
        BY <1>3, <2>4, <3>3
  <2>5. CASE e # first /\ e \notin InWent /\ e \notin Moves
        BY <1>3, <2>1, <2>5 DEF PlaceOf
  <2> QED
      BY <2>2, <2>3, <2>4, <2>5
<1>8. Free(plan[d])
      BY <1>1, <1>2, <1>7 DEF Free, NoFileCame, Files
<1> QED
    BY <1>8 DEF Landings

LEMMA RenameOneFree ==
    ASSUME Core, Mapped, NoFileCame, newPath = plan, NEW d \in Docs, RenameOne(d),
           holds[d] \in moved \cup {Nobody}
    PROVE  Free(plan[d]) /\ Landings(d) = {plan[d]}
<1>1. /\ pc = "apply" /\ d \in Planned \ done /\ InWent = {}
      BY RenameOneLands
<1>2. Nobody \notin Docs
      BY RenameAssumption DEF RenameAssumption
<1>3. moved \subseteq Moves
  <2>1. \A e \in moved : e \in Docs /\ mapping[e] = newPath[e] /\ newPath[e] # Nowhere
        BY <1>1 DEF Core, RunTyped, Mapped, Forward
  <2> QED
      BY <2>1 DEF Moves
<1>4. \A e \in Docs : plan[d] = Home[e] => e \in Moves
      BY <1>1, <1>2, <1>3 DEF Core, HoldsPlan
<1> QED
    BY <1>1, <1>4, NewNameFree

LEMMA RingStepFree ==
    ASSUME Core, Mapped, NoFileCame, newPath = plan, pc = "ring",
           NEW d, d = NextOf(RingOf(first), InWent)
    PROVE  Free(plan[d]) /\ Landings(d) = {plan[d]}
BY RingStepLands, NewNameFree

LEMMA NoFileComesBack ==
    ASSUME Core, [Next]_vars, NoFileCame'
    PROVE  NoFileCame
BY NoneOverwritten DEF NoFileCame, Files

\* A file that goes to another name leaves a free name free.
LEMMA StaysFree ==
    ASSUME Core, NEW f \in Files, NEW p, GoesTo(f, p), NEW q, q # p, Free(q)
    PROVE  Free(q)'
BY DEF Core, AtTyped, GoesTo, Free

\* In AsideFree, what a step of apply leaves as it was.
LEMMA AsideStill ==
    ASSUME Core, AsideFree, pc \in Moving, pc' \in Moving, UNCHANGED plan,
           done \subseteq done', ToldAside' \subseteq ToldAside,
           NoFileCame' => NoFileCame /\ newPath' = plan
                          /\ \A d \in ToldAside : Free(Home[d]) => Free(Home[d])'
    PROVE  AsideFree'
BY DEF AsideFree, Forward, Moving

LEMMA AsideStep == Core /\ Mapped /\ AsideFree /\ [Next]_vars => AsideFree'
<1> SUFFICES ASSUME Core, Mapped, AsideFree, [Next]_vars PROVE AsideFree'
    OBVIOUS
<1>1. /\ mapping \in [Docs -> Paths \cup {Nowhere}]
      /\ stranded \in [Docs -> Temps \cup {Nowhere}]
      /\ newPath \in [Docs -> Names \cup {Nowhere}]
      /\ ToldAside \subseteq Docs /\ ToldAside \subseteq Moves
      BY DEF Core, PlacesTyped, PlanTyped, ToldAside, Moves
<1>2. /\ Names \cap Temps = {} /\ Nowhere \notin Names /\ Nobody \notin Docs
      /\ Docs \subseteq Files /\ Home \in [Docs -> Names] /\ Nowhere \notin Temps
      /\ \A d, e \in Docs : Home[d] = Home[e] => d = e
      BY RenameAssumption DEF RenameAssumption, Files
<1>3. NoFileCame' => NoFileCame /\ newPath = plan
      BY NoFileComesBack DEF AsideFree
<1>4. pc \in Moving =>
          /\ ToldAside \subseteq done
          /\ \A d \in ToldAside : \A e \in Docs \ done : plan[e] # Home[d]
      BY <1>1 DEF AsideFree, Moving, Forward, Core, PlacedForward
<1>5. ASSUME NEW d \in Docs \ done, pc \in Moving, LandsAt(d),
             NoFileCame' => Landings(d) = {plan[d]}
      PROVE  NoFileCame' => newPath' = plan
                            /\ \A e \in ToldAside : Free(Home[e]) => Free(Home[e])'
  <2>1. SUFFICES ASSUME NoFileCame'
                 PROVE  newPath' = plan
                        /\ \A e \in ToldAside : Free(Home[e]) => Free(Home[e])'
        OBVIOUS
  <2>2. GoesTo(d, plan[d]) /\ newPath' = [newPath EXCEPT ![d] = plan[d]]
        BY <1>5, <2>1 DEF LandsAt
  <2>3. newPath' = plan
        BY <1>3, <2>1, <2>2, <1>1
  <2>4. \A e \in ToldAside : Free(Home[e]) => Free(Home[e])'
        BY <1>2, <1>4, <1>5, <2>2, StaysFree
  <2> QED
      BY <2>3, <2>4
<1>6. ASSUME NEW f \in Docs, NEW p, GoesTo(f, p), \A d \in ToldAside : p # Home[d]
      PROVE  \A d \in ToldAside : Free(Home[d]) => Free(Home[d])'
      BY <1>2, <1>6, StaysFree
<1>7. at' = at => \A d \in Docs : Free(Home[d]) => Free(Home[d])'
      BY DEF Free
<1>8. ASSUME Check PROVE AsideFree'
  <2>1. pc = "check" /\ UNCHANGED <<at, plan, newPath, done, mapping, stranded, stuck>>
        BY <1>8 DEF Check
  <2>2. ToldAside' = ToldAside /\ ToldAside = {}
        BY <1>4, <2>1 DEF ToldAside, Core, RingsWhole, Moving
  <2> QED
      BY <1>3, <2>1, <2>2 DEF AsideFree
<1>9. ASSUME NEW d \in Docs, RenameOne(d) PROVE AsideFree'
  <2>1. /\ pc = "apply" /\ pc' = "apply" /\ d \in Planned \ done /\ d \notin Moves
        /\ plan' = plan /\ stranded' = stranded /\ done' = done \cup {d}
        BY <1>9, RenameOneLands DEF RenameOne
  <2>2. CASE /\ Land(d, Home[d]) /\ holds[d] \in moved \cup {Nobody}
             /\ mapping' = [mapping EXCEPT ![d] = newPath'[d]]
    <3>1. LandsAt(d)
          BY <1>9, <2>2, RenameOneLands
    <3>2. NoFileCame' => Landings(d) = {plan[d]}
          BY <1>3, <1>9, <2>2, RenameOneFree
    <3>3. NoFileCame' => newPath' = plan
                         /\ \A e \in ToldAside : Free(Home[e]) => Free(Home[e])'
          BY <1>5, <2>1, <3>1, <3>2 DEF Moving
    <3>4. ToldAside' \subseteq ToldAside
          BY <1>1, <2>1, <2>2 DEF ToldAside, Moves
    <3> QED
        BY <1>3, <2>1, <3>3, <3>4, AsideStill DEF Moving
  <2>3. CASE UNCHANGED <<at, newPath, mapping>>
    <3>1. ToldAside' = ToldAside
          BY <2>1, <2>3 DEF ToldAside
    <3> QED
        BY <1>1, <1>3, <1>7, <2>1, <2>3, <3>1, AsideStill DEF Moving
  <2> QED
      BY <1>9, <2>2, <2>3 DEF RenameOne, Refused
<1>10. ASSUME NEW d \in Docs, RingAside(d) PROVE AsideFree'
  <2>1. /\ pc = "apply" /\ pc' \in {"apply", "ring"} /\ done \subseteq done'
        /\ UNCHANGED <<plan, newPath, mapping, stranded>>
        BY <1>10 DEF RingAside
  <2>2. ToldAside' = ToldAside
        BY <2>1 DEF ToldAside
  <2>3. \A e \in ToldAside : Free(Home[e]) => Free(Home[e])'
    <3>1. CASE at' = at
          BY <1>1, <1>7, <3>1
    <3>2. CASE \E a \in Temps : Put(Home[d], a)
      <4>1. PICK a \in Temps : GoesTo(d, a)
            BY <1>10, <3>2, RingAsideGoes
      <4>2. \A e \in ToldAside : a # Home[e]
            BY <1>1, <1>2
      <4> QED
          BY <1>6, <4>1, <4>2
    <3> QED
        BY <1>10, <3>1, <3>2 DEF RingAside
  <2> QED
      BY <1>3, <2>1, <2>2, <2>3, AsideStill DEF Moving
<1>11. ASSUME RingStep PROVE AsideFree'
  <2>1. PICK d, R : R = RingOf(first) /\ d = NextOf(R, InWent)
        OBVIOUS
  <2>2. /\ pc = "ring" /\ plan' = plan /\ stranded' = stranded
        /\ pc' \in {"ring", "apply", "return"} /\ done \subseteq done'
        BY <1>11 DEF RingStep
  <2>3. /\ d \in R \ done /\ R \subseteq Docs
        /\ Land(d, IF d = first THEN aside ELSE Home[d]) => LandsAt(d)
        BY <2>1, <2>2, RingStepLands, AtRing
  <2>4. NoFileCame' => Landings(d) = {plan[d]}
        BY <1>3, <2>1, <2>2, RingStepFree
  <2>5. LandsAt(d) => (NoFileCame' => newPath' = plan
                             /\ \A e \in ToldAside : Free(Home[e]) => Free(Home[e])')
        BY <1>5, <2>2, <2>3, <2>4 DEF Moving
  <2>6. RingOf(first) \subseteq Docs /\ \A e \in RingOf(first) : newPath[e] # Nowhere
        BY <2>2, AtRing
  <2>7. \A e \in R : e \notin ToldAside
    <3>1. R \cap done = {}
          BY <2>1, <2>2 DEF Core, RingUnderWay
    <3> QED
        BY <1>4, <2>2, <3>1 DEF Moving
  <2>8. CASE LandsAt(d) /\ mapping' = mapping
    <3>1. ToldAside' = ToldAside
          BY <2>2, <2>8 DEF ToldAside
    <3> QED
        BY <1>3, <2>2, <2>5, <2>8, <3>1, AsideStill DEF Moving
  <2>9. CASE /\ LandsAt(d)
             /\ mapping' = [e \in Docs |-> IF e \in R THEN newPath'[e] ELSE mapping[e]]
    <3>1. \A e \in R : stranded[e] = Nowhere \/ mapping[e] # Nowhere
          BY <2>3, <2>7 DEF ToldAside
    <3>2. \A e \in R : e \notin Moves
      <4>1. R \cap done = {} /\ Moves \subseteq done
            BY <2>1, <2>2, AtRing DEF Core, RingUnderWay
      <4> QED
          BY <4>1
    <3>3. ToldAside' \subseteq ToldAside
          BY <2>2, <2>3, <2>9, <3>2 DEF ToldAside, Moves
    <3> QED
        BY <1>3, <2>2, <2>5, <2>9, <3>3, AsideStill DEF Moving
  <2>10. CASE UNCHANGED <<at, newPath, mapping>>
    <3>1. ToldAside' = ToldAside
          BY <2>2, <2>10 DEF ToldAside
    <3> QED
        BY <1>1, <1>3, <1>7, <2>2, <2>10, <3>1, AsideStill DEF Moving
  <2> QED
      BY <1>11, <2>1, <2>3, <2>8, <2>9, <2>10 DEF RingStep, Refused
<1>12. ASSUME RingReturn PROVE AsideFree'
  <2>1. PICK d : d = went[Len(went)]
        OBVIOUS
  <2>2. /\ pc = "return" /\ pc' = "return" /\ UNCHANGED <<plan, newPath, stranded>>
        /\ d \in Docs \ done /\ newPath[d] # Nowhere /\ done \subseteq done'
        /\ Put(newPath[d], Home[d]) => GoesTo(d, Home[d])
        BY <1>12, <2>1, RingReturnGoes DEF RingReturn
  <2>3. mapping' \in {mapping, [mapping EXCEPT ![d] = newPath[d]]}
        BY <1>12, <2>1 DEF RingReturn
  <2>4. ToldAside' \subseteq ToldAside
        BY <1>1, <2>2, <2>3 DEF ToldAside
  <2>5. \A e \in ToldAside : Free(Home[e]) => Free(Home[e])'
    <3>1. CASE at' = at
          BY <1>1, <1>7, <3>1
    <3>2. CASE Put(newPath[d], Home[d])
      <4>1. \A e \in ToldAside : Home[d] # Home[e]
            BY <1>1, <1>2, <1>4, <2>2 DEF Moving
      <4> QED
          BY <1>6, <2>2, <3>2, <4>1
    <3> QED
        BY <1>12, <2>1, <3>1, <3>2 DEF RingReturn, NotPut
  <2> QED
      BY <1>3, <2>2, <2>4, <2>5, AsideStill DEF Moving
<1>13. ASSUME RingHome PROVE AsideFree'
  <2>1. PICK d, R : d = first /\ R = RingOf(first)
        OBVIOUS
  <2>2. /\ pc = "return" /\ pc' = "apply" /\ UNCHANGED <<plan, newPath, holds>>
        /\ done' = done \cup R /\ d \in Docs \ done
        /\ Put(aside, Home[d]) => GoesTo(d, Home[d])
        BY <1>13, <2>1, RingHomeGoes DEF RingHome
  <2>3. CASE Put(aside, Home[d]) /\ UNCHANGED <<stranded, mapping>>
    <3>1. ToldAside' = ToldAside
          BY <2>3 DEF ToldAside
    <3>2. \A e \in ToldAside : Home[d] # Home[e]
          BY <1>1, <1>2, <1>4, <2>2 DEF Moving
    <3> QED
        BY <1>3, <1>6, <2>2, <2>3, <3>1, <3>2, AsideStill DEF Moving
  <2>4. CASE /\ at' = at /\ stranded' = [stranded EXCEPT ![d] = aside]
             /\ mapping' = IF Free(Home[d]) THEN mapping ELSE [mapping EXCEPT ![d] = aside]
    <3>1. \A e \in ToldAside' : e \in ToldAside \/ (e = d /\ Free(Home[d]))
      <4>1. aside # Nowhere
            BY <1>2, <1>13, RingHomeGoes
      <4> QED
          BY <1>1, <2>4, <2>2, <4>1 DEF ToldAside
    <3>2. \A e \in Docs : plan[e] = Home[d] => e \in R
      <4>1. \A e \in Docs : plan[e] = Home[d] => holds[e] = d
            BY <2>2 DEF Core, HoldsPlan
      <4>2. d \in R /\ R \in SUBSET Docs /\ Closed(R) /\ HoldsTyped /\ HoldsOne
            BY <2>1, <2>2, AtRing, RingIsLeast
      <4>3. \A e \in Docs : holds[e] \in R => e \in R
            BY <4>2, ClosedIsOnto
      <4> QED
          BY <4>1, <4>2, <4>3
    <3>3. \A e \in ToldAside : /\ \A g \in Docs : plan[g] = Home[e] => g \in done
                               /\ NoFileCame => Free(Home[e])
          BY <2>2 DEF AsideFree, Forward
    <3>4. \A e \in Docs : Free(Home[e]) => Free(Home[e])'
          BY <1>7, <2>4
    <3>5. \A e \in ToldAside' : /\ \A g \in Docs : plan'[g] = Home[e] => g \in done'
                                /\ NoFileCame' => Free(Home[e])'
          BY <1>1, <1>3, <2>2, <3>1, <3>2, <3>3, <3>4
    <3> QED
        BY <1>3, <2>2, <3>5 DEF AsideFree
  <2> QED
      BY <1>13, <2>1, <2>3, <2>4 DEF RingHome, NotPut, LeftAside
<1>14. ASSUME Applied \/ WriteIndex \/ WriteRecords PROVE AsideFree'
  <2>1. /\ pc \in {"apply", "index", "save"} /\ pc' \in {"index", "save", "leave", "undo"}
        /\ UNCHANGED <<at, plan, newPath, done, mapping, stranded, stuck>>
        BY <1>14 DEF Applied, WriteIndex, WriteRecords
  <2>2. ToldAside' = ToldAside
        BY <2>1 DEF ToldAside
  <2> QED
      BY <1>1, <1>3, <1>7, <2>1, <2>2 DEF AsideFree, Forward
<1>15. ASSUME PutBack PROVE AsideFree'
  <2>1. /\ pc = "back" /\ pc' = "leave" /\ Moves \subseteq done
        /\ UNCHANGED <<at, plan, newPath, mapping, stranded, stuck>>
        BY <1>15 DEF PutBack
  <2>2. \A d \in Docs \ ToldStuck : at[d] = Home[d]
        BY <2>1, ToldWhenBack
  <2>3. ToldStuck' = ToldStuck /\ ToldAside' = ToldAside
        BY <2>1 DEF ToldStuck, ToldAside
  <2> QED
      BY <1>1, <1>3, <2>1, <2>2, <2>3 DEF AsideFree, Forward
<1>16. ASSUME Leave \/ Cut PROVE AsideFree'
  <2>1. /\ UNCHANGED <<at, plan, newPath, mapping, stranded, stuck>>
        /\ pc' # "cut" => pc = "leave" /\ pc' = "over"
        BY <1>16 DEF Leave, Cut
  <2>2. ToldStuck' = ToldStuck /\ ToldAside' = ToldAside
        BY <2>1 DEF ToldStuck, ToldAside
  <2> QED
      BY <1>1, <1>3, <1>7, <2>1, <2>2 DEF AsideFree, Forward
<1>17. ASSUME \/ Undo \/ BackStep \/ BackLast
              \/ \E d \in Docs : BackOne(d) \/ BackAside(d)
       PROVE  AsideFree'
       BY <1>3, <1>17 DEF Undo, BackStep, BackLast, BackOne, BackAside, AsideFree, Forward
<1>18. ASSUME NEW x \in Strangers, NEW p \in Names, StrangerComes(x, p) PROVE AsideFree'
  <2>1. ~NoFileCame'
        BY <1>2, <1>18 DEF StrangerComes, NoFileCame, Core, AtTyped, Files
  <2>2. UNCHANGED <<plan, pc, done, mapping, stranded>>
        BY <1>18 DEF StrangerComes
  <2> QED
      BY <2>1, <2>2 DEF AsideFree, ToldAside
<1>19. CASE Ended \/ UNCHANGED vars
       BY <1>19 DEF Ended, vars, AsideFree, ToldAside, ToldStuck, NoFileCame, Free
<1> QED
    BY <1>8, <1>9, <1>10, <1>11, <1>12, <1>13, <1>14, <1>15, <1>16, <1>17, <1>18, <1>19 DEF Next

FaultsTyped == faults \in 0 .. MaxFaults

\* Faults are only added up.
LEMMA FaultsAdd ==
    ASSUME FaultsTyped, [Next]_vars
    PROVE  /\ FaultsTyped'
           /\ faults' = 0 => faults = 0 /\ ~Fault
           /\ faults \in Nat /\ faults' \in {faults, faults + 1}
<1>1. MaxFaults \in Nat
      BY RenameAssumption DEF RenameAssumption
<1>2. ASSUME Fault PROVE FaultsTyped' /\ faults' # 0
      BY <1>1, <1>2 DEF Fault, FaultsTyped
<1>3. ASSUME NEW d \in Docs, Land(d, Home[d]) \/ Land(d, aside) PROVE faults' = faults
      BY <1>3 DEF Land
<1>4. ASSUME NEW d \in Docs PROVE Refused(d) => faults' = faults \/ Fault
      BY DEF Refused
<1>5. ASSUME NEW s, NEW p PROVE Put(s, p) => faults' = faults
      BY DEF Put
<1>6. ASSUME NEW p PROVE NotPut(p) => faults' = faults \/ Fault
      BY DEF NotPut
<1>7. faults' = faults \/ Fault
  <2>1. CASE \E d \in Docs : RenameOne(d)
        BY <1>3, <1>4, <2>1 DEF RenameOne
  <2>2. CASE \E d \in Docs : RingAside(d)
        BY <1>5, <2>2 DEF RingAside
  <2>3. CASE RingStep
    <3>1. PICK d : d = NextOf(RingOf(first), InWent)
          OBVIOUS
    <3>2. CASE Land(d, IF d = first THEN aside ELSE Home[d])
          BY <3>2 DEF Land
    <3>3. CASE Refused(d)
          BY <3>3 DEF Refused
    <3> QED
        BY <2>3, <3>1, <3>2, <3>3 DEF RingStep
  <2>4. CASE RingReturn
        BY <1>5, <1>6, <2>4 DEF RingReturn
  <2>5. CASE RingHome
        BY <1>5, <1>6, <2>5 DEF RingHome
  <2>6. CASE \E d \in Docs : BackOne(d)
        BY <1>5, <1>6, <2>6 DEF BackOne
  <2>7. CASE \E d \in Docs : BackAside(d)
        BY <1>5, <2>7 DEF BackAside
  <2>8. CASE BackStep
        BY <1>5, <1>6, <2>8 DEF BackStep
  <2>9. CASE BackLast
        BY <1>5, <1>6, <2>9 DEF BackLast
  <2>10. CASE \/ Check \/ Applied \/ WriteIndex \/ WriteRecords \/ Undo \/ PutBack
              \/ Leave \/ Cut \/ Ended \/ UNCHANGED vars
              \/ \E x \in Strangers, p \in Names : StrangerComes(x, p)
         BY <2>10 DEF Check, Applied, WriteIndex, WriteRecords, Undo, PutBack, Leave, Cut,
            Ended, StrangerComes, vars
  <2> QED
      BY <2>1, <2>2, <2>3, <2>4, <2>5, <2>6, <2>7, <2>8, <2>9, <2>10 DEF Next
<1>8. faults' = faults => FaultsTyped'
      BY DEF FaultsTyped
<1>9. faults \in Nat /\ (Fault => faults' = faults + 1)
      BY <1>1 DEF Fault, FaultsTyped
<1> QED
    BY <1>2, <1>7, <1>8, <1>9

LEMMA SmoothStep ==
    Core /\ Mapped /\ AsideFree /\ Smooth /\ FaultsTyped /\ [Next]_vars => Smooth'
<1> SUFFICES ASSUME Core, Mapped, AsideFree, Smooth, FaultsTyped, [Next]_vars,
                    faults' = 0, NoFileCame'
             PROVE  Smooth'
    BY DEF Smooth
<1>1. NoFileCame /\ newPath = plan /\ ~Fault
      BY FaultsAdd, NoFileComesBack DEF AsideFree
<1>2. /\ pc \notin {"return", "undo"} \cup Backing
      /\ pc \in Forward => done = moved
      /\ pc \in {"index", "save"} => Planned \subseteq done
      /\ pc \in {"leave", "over"} => \A d \in Planned : at[d] = plan[d]
      BY <1>1, FaultsAdd DEF Smooth
<1>3. ASSUME NEW d \in Planned, pc \in Forward, Planned \subseteq done
      PROVE  mapping[d] = plan[d] /\ plan[d] # Nowhere /\ d \in Docs
      BY <1>1, <1>2, <1>3 DEF Mapped, Planned
<1>4. ASSUME Check PROVE Smooth'
  <2>1. pc = "check" /\ pc' = "apply" /\ UNCHANGED <<done, moved>>
        BY <1>1, <1>4 DEF Check
  <2> QED
      BY <1>2, <2>1 DEF Smooth, Forward, Backing
<1>5. ASSUME NEW d \in Docs, RenameOne(d) PROVE Smooth'
  <2>1. /\ pc = "apply" /\ pc' = "apply" /\ d \in Planned \ done /\ done' = done \cup {d}
        /\ holds[d] \notin Planned \ done
        BY <1>5 DEF RenameOne, Ready
  <2>2. holds[d] \in moved \cup {Nobody}
        BY <1>2, <2>1 DEF Core, HoldsPlan, Forward
  <2>3. Landings(d) # {}
        BY <1>1, <1>5, <2>2, RenameOneFree
  <2>4. moved' = moved \cup {d}
        BY <1>1, <1>5, <2>2, <2>3 DEF RenameOne, Refused
  <2> QED
      BY <1>2, <2>1, <2>4 DEF Smooth, Forward, Backing
<1>6. ASSUME NEW d \in Docs, RingAside(d) PROVE Smooth'
  <2>1. pc = "apply" /\ pc' = "ring" /\ UNCHANGED <<done, moved>>
        BY <1>1, <1>6 DEF RingAside
  <2> QED
      BY <1>2, <2>1 DEF Smooth, Forward, Backing
<1>7. ASSUME RingStep PROVE Smooth'
  <2>1. PICK d, R : R = RingOf(first) /\ d = NextOf(R, InWent)
        OBVIOUS
  <2>2. pc = "ring"
        BY <1>7 DEF RingStep
  <2>3. ~Refused(d)
        BY <1>1, <2>1, <2>2, RingStepFree DEF Refused
  <2>4. \/ pc' = "ring" /\ UNCHANGED <<done, moved>>
        \/ pc' = "apply" /\ done' = done \cup R /\ moved' = moved \cup R
        BY <1>7, <2>1, <2>2, <2>3 DEF RingStep
  <2> QED
      BY <1>2, <2>2, <2>4 DEF Smooth, Forward, Backing
<1>8. ASSUME Applied PROVE Smooth'
  <2>1. /\ pc = "apply" /\ Planned \subseteq done /\ UNCHANGED <<plan, done, moved>>
        /\ pc' = IF \A d \in Docs : mapping[d] = Nowhere THEN "leave" ELSE "index"
        BY <1>8 DEF Applied
  <2>2. Planned' = Planned
        BY <2>1 DEF Planned
  <2>3. pc' = "leave" => Planned = {}
        BY <1>3, <2>1 DEF Forward
  <2> QED
      BY <1>2, <2>1, <2>2, <2>3 DEF Smooth, Forward, Backing
<1>9. ASSUME WriteIndex PROVE Smooth'
  <2>1. /\ pc = "index" /\ pc' = "save" /\ UNCHANGED <<plan, done, moved>>
        BY <1>1, <1>9 DEF WriteIndex
  <2>2. Planned' = Planned
        BY <2>1 DEF Planned
  <2> QED
      BY <1>2, <2>1, <2>2 DEF Smooth, Forward, Backing
<1>10. ASSUME WriteRecords PROVE Smooth'
  <2>1. pc = "save" /\ pc' = "leave" /\ UNCHANGED <<at, plan>>
        BY <1>1, <1>10 DEF WriteRecords
  <2>2. \A d \in Planned : at[d] = plan[d]
        BY <1>2, <1>3, <2>1, ToldWhenApplied DEF Forward, PlaceOf, Where, Moves
  <2>3. Planned' = Planned
        BY <2>1 DEF Planned
  <2> QED
      BY <2>1, <2>2, <2>3 DEF Smooth, Forward, Backing
<1>11. ASSUME Leave \/ Cut PROVE Smooth'
  <2>1. /\ UNCHANGED <<at, plan>> /\ pc' \in {"over", "cut"}
        /\ pc' # "cut" => pc = "leave"
        BY <1>11 DEF Leave, Cut
  <2>2. Planned' = Planned
        BY <2>1 DEF Planned
  <2> QED
      BY <1>2, <2>1, <2>2 DEF Smooth, Forward, Backing
<1>12. ASSUME \/ RingReturn \/ RingHome \/ Undo \/ BackStep \/ BackLast \/ PutBack
              \/ \E d \in Docs : BackOne(d) \/ BackAside(d)
       PROVE  FALSE
       BY <1>2, <1>12 DEF RingReturn, RingHome, Undo, BackStep, BackLast, PutBack, BackOne,
          BackAside, Backing
<1>13. ASSUME NEW x \in Strangers, NEW p \in Names, StrangerComes(x, p) PROVE FALSE
  <2>1. x \in Files /\ Nowhere \notin Names
        BY RenameAssumption DEF RenameAssumption, Files
  <2> QED
      BY <1>13, <2>1 DEF StrangerComes, NoFileCame, Core, AtTyped
<1>14. CASE Ended \/ UNCHANGED vars
       BY <1>1, <1>2, <1>14 DEF Ended, vars, Smooth, Planned
<1> QED
    BY <1>4, <1>5, <1>6, <1>7, <1>8, <1>9, <1>10, <1>11, <1>12, <1>13, <1>14 DEF Next

-----------------------------------------------------------------------------
(* Where a Rename that is cut may leave a file, on top of Core. *)

\* The names a Rename may give d's file.
NamesOf(d) == ({Home[d], newPath[d]} \ {Nowhere}) \cup Temps

NamesKnown ==
    /\ \A d \in Docs : {at[d], index[d], records[d], mem[d]} \subseteq NamesOf(d)
    /\ \A d \in Docs : mapping[d] \in {Nowhere, newPath[d]} \cup Temps
    /\ pc \in Forward \cup Backing => records = Home

\* The file that a step moves goes to one of its names.
LEMMA GoesToItsName ==
    ASSUME Core, NamesKnown, [Next]_vars
    PROVE  \/ \A d \in Docs : at'[d] = at[d] /\ newPath'[d] = newPath[d]
           \/ \E d \in Docs : \E p \in NamesOf(d)' :
                  /\ GoesTo(d, p)
                  /\ \A e \in Docs \ {d} : newPath'[e] = newPath[e]
<1>1. /\ Home \in [Docs -> Names] /\ Nowhere \notin Names /\ Docs \cap Strangers = {}
      BY RenameAssumption DEF RenameAssumption
<1>2. /\ \A d \in Docs : Home[d] \in NamesOf(d)' /\ Temps \subseteq NamesOf(d)'
      /\ \A d \in Docs : newPath'[d] # Nowhere => newPath'[d] \in NamesOf(d)'
      BY <1>1 DEF NamesOf
<1>3. /\ newPath \in [Docs -> Names \cup {Nowhere}]
      /\ at \in [Files -> Paths \cup {Nowhere}] /\ Docs \subseteq Files
      BY DEF Core, PlanTyped, AtTyped, Files
<1>4. ASSUME NEW d \in Docs, LandsAt(d)
      PROVE  \E p \in NamesOf(d)' :
                  /\ GoesTo(d, p)
                  /\ \A e \in Docs \ {d} : newPath'[e] = newPath[e]
  <2>1. PICK p \in Names : GoesTo(d, p) /\ newPath' = [newPath EXCEPT ![d] = p]
        BY <1>4 DEF LandsAt
  <2>2. newPath'[d] = p /\ \A e \in Docs \ {d} : newPath'[e] = newPath[e]
        BY <1>3, <2>1
  <2> QED
      BY <1>1, <1>2, <2>1, <2>2
<1>5. CASE \E d \in Docs : RenameOne(d)
      BY <1>4, <1>5, RenameOneLands DEF RenameOne, Refused
<1>6. CASE \E d \in Docs : RingAside(d)
  <2>1. PICK d \in Docs : RingAside(d)
        BY <1>6
  <2>2. newPath' = newPath /\ (at' = at \/ \E a \in Temps : Put(Home[d], a))
        BY <2>1 DEF RingAside
  <2> QED
      BY <1>2, <2>1, <2>2, RingAsideGoes
<1>7. CASE RingStep
  <2>1. PICK d : d = NextOf(RingOf(first), InWent)
        OBVIOUS
  <2>2. /\ pc = "ring"
        /\ Land(d, IF d = first THEN aside ELSE Home[d]) \/ UNCHANGED <<at, newPath>>
        BY <1>7, <2>1 DEF RingStep, Refused
  <2> QED
      BY <1>4, <2>1, <2>2, RingStepLands DEF Planned
<1>8. CASE RingReturn
  <2>1. PICK d : d = went[Len(went)]
        OBVIOUS
  <2>2. newPath' = newPath /\ (at' = at \/ Put(newPath[d], Home[d]))
        BY <1>8, <2>1 DEF RingReturn, NotPut
  <2>3. d \in Docs /\ (Put(newPath[d], Home[d]) => GoesTo(d, Home[d]))
        BY <1>8, <2>1, RingReturnGoes
  <2> QED
      BY <1>2, <2>2, <2>3
<1>9. CASE RingHome
  <2>1. newPath' = newPath /\ (at' = at \/ Put(aside, Home[first]))
        BY <1>9 DEF RingHome, NotPut
  <2> QED
      BY <1>2, <1>9, <2>1, RingHomeGoes
<1>10. CASE \/ \E d \in Docs : BackOne(d) \/ BackAside(d)
            \/ BackStep \/ BackLast
  <2>1. newPath' = newPath
        BY <1>10 DEF BackOne, BackAside, BackStep, BackLast
  <2>2. ASSUME NEW d \in Docs \cap Moves PROVE Where(d) \in NamesOf(d)'
    <3>1. /\ mapping[d] \in {Nowhere, newPath[d]} \cup Temps
          /\ stranded[d] \in Temps \cup {Nowhere}
          BY DEF NamesKnown, Core, PlacesTyped
    <3> QED
        BY <1>2, <2>1, <3>1 DEF Where, Moves
  <2>3. CASE BackLast /\ at' # at
    <3>1. PICK d \in Docs \cap Moves :
              \E p \in {Home[d], Where(d)} : p \in Paths /\ GoesTo(d, p)
          BY <2>3, BackGoes
    <3> QED
        BY <1>2, <2>1, <2>2, <3>1
  <2>4. CASE ~(BackLast /\ at' # at)
        BY <1>2, <1>10, <2>1, <2>4, BackGoes
  <2> QED
      BY <2>3, <2>4
<1>11. CASE \E x \in Strangers, p \in Names : StrangerComes(x, p)
       BY <1>1, <1>3, <1>11 DEF StrangerComes
<1>12. CASE \/ Check \/ Applied \/ WriteIndex \/ WriteRecords \/ Undo \/ PutBack \/ Leave
            \/ Cut \/ Ended \/ UNCHANGED vars
       BY <1>12 DEF Check, Applied, WriteIndex, WriteRecords, Undo, PutBack, Leave, Cut, Ended,
          vars
<1> QED
    BY <1>5, <1>6, <1>7, <1>8, <1>9, <1>10, <1>11, <1>12 DEF Next

LEMMA NamesStep ==
    Core /\ Mapped /\ LedgersSoFar /\ NamesKnown /\ [Next]_vars => NamesKnown'
<1> SUFFICES ASSUME Core, Mapped, LedgersSoFar, NamesKnown, [Next]_vars PROVE NamesKnown'
    OBVIOUS
<1>1. /\ Home \in [Docs -> Names] /\ Nowhere \notin Names /\ Docs \subseteq Files
      /\ at \in [Files -> Paths \cup {Nowhere}]
      BY RenameAssumption DEF RenameAssumption, Core, AtTyped, Files
<1>2. \A d \in Docs : mapping'[d] \in {Nowhere, newPath'[d]} \cup Temps
  <2>1. pc' \in Forward \/ UNCHANGED <<mapping, newPath>>
        BY DEF Next, vars, Check, RenameOne, RingAside, RingStep, RingReturn, RingHome, Applied,
           WriteIndex, WriteRecords, Undo, BackOne, BackAside, BackStep, BackLast, PutBack,
           Leave, Cut, StrangerComes, Ended, Forward
  <2>2. Mapped'
        BY MappedStep
  <2> QED
      BY <2>1, <2>2 DEF Mapped, NamesKnown
<1>3. \A d \in Docs : at'[d] \in NamesOf(d)'
  <2>1. CASE \A d \in Docs : at'[d] = at[d] /\ newPath'[d] = newPath[d]
        BY <2>1 DEF NamesKnown, NamesOf
  <2>2. ASSUME NEW d \in Docs, NEW p \in NamesOf(d)', GoesTo(d, p),
               \A e \in Docs \ {d} : newPath'[e] = newPath[e]
        PROVE  \A e \in Docs : at'[e] \in NamesOf(e)'
    <3>1. at'[d] = p /\ \A e \in Docs \ {d} : at'[e] = at[e]
          BY <1>1, <2>2 DEF GoesTo
    <3>2. \A e \in Docs \ {d} : NamesOf(e)' = NamesOf(e)
          BY <2>2 DEF NamesOf
    <3> QED
        BY <2>2, <3>1, <3>2 DEF NamesKnown
  <2> QED
      BY <2>1, <2>2, GoesToItsName
<1>4. \A d \in Docs : {index'[d], records'[d], mem'[d]} \subseteq NamesOf(d)'
  <2>1. \A d \in Docs : Home[d] \in NamesOf(d)'
        BY <1>1 DEF NamesOf
  <2>2. CASE pc \in Moving /\ UNCHANGED ledgers
    <3>1. index = Home /\ mem = Home /\ records = Home
          BY <2>2 DEF LedgersSoFar, NamesKnown, Moving, Forward
    <3> QED
        BY <2>1, <2>2, <3>1 DEF ledgers
  <2>3. CASE newPath' = newPath
    <3>1. \A d \in Docs : /\ NamesOf(d)' = NamesOf(d)
                          /\ {index[d], records[d], mem[d]} \subseteq NamesOf(d)
          BY <2>3 DEF NamesOf, NamesKnown
    <3>2. \A d \in Docs : {Followed(index)[d], Followed(mem)[d]} \subseteq NamesOf(d)
          BY <3>1 DEF Followed, NamesKnown, NamesOf
    <3>3. /\ index' \in {index, Home, Followed(index)}
          /\ mem' \in {mem, Home, Followed(mem)}
          /\ records' \in {records, mem, mem'}
          BY DEF Next, vars, ledgers, Check, RenameOne, RingAside, RingStep, RingReturn,
             RingHome, Applied, WriteIndex, WriteRecords, Undo, Restored, BackOne, BackAside,
             BackStep, BackLast, PutBack, Leave, Cut, StrangerComes, Ended
    <3>4. \A d \in Docs : /\ index'[d] \in {index[d], Home[d], Followed(index)[d]}
                          /\ mem'[d] \in {mem[d], Home[d], Followed(mem)[d]}
                          /\ records'[d] \in {records[d], mem[d], mem'[d]}
          BY <3>3
    <3> QED
        BY <2>1, <3>1, <3>2, <3>4
  <2>4. newPath' = newPath \/ (pc \in Moving /\ UNCHANGED ledgers)
        BY DEF Next, vars, Check, RenameOne, RingAside, RingStep, RingReturn, RingHome, Applied,
           WriteIndex, WriteRecords, Undo, BackOne, BackAside, BackStep, BackLast, PutBack,
           Leave, Cut, StrangerComes, Ended, Moving
  <2> QED
      BY <2>2, <2>3, <2>4
<1>5. pc' \in Forward \cup Backing => records' = Home
  <2>1. \/ pc' \in {"leave", "over", "cut"}
        \/ pc \in Forward \cup Backing /\ records' = records
        \/ pc' = pc /\ records' = records
        BY DEF Next, vars, ledgers, Check, RenameOne, RingAside, RingStep, RingReturn,
           RingHome, Applied, WriteIndex, WriteRecords, Undo, BackOne, BackAside,
           BackStep, BackLast, PutBack, Leave, Cut, StrangerComes, Ended, Forward, Backing
  <2> QED
      BY <2>1 DEF NamesKnown, Forward, Backing
<1>6. \A d \in Docs : {at[d], index[d], records[d], mem[d]}' \subseteq NamesOf(d)'
      BY <1>3, <1>4
<1> QED
    BY <1>2, <1>5, <1>6 DEF NamesKnown

-----------------------------------------------------------------------------
(* Undoing a Rename, on top of Core. *)

\* put_back knows which of its files has the name another is to have again.
HoldsHome ==
    pc \in Backing =>
        /\ \A d, e \in Moves : Where(e) = Home[d] => holds[d] = e
        /\ NoFileCame => \A d \in Docs : holds[d] \in Moves \cup {Nobody}

\* A Rename is undone when a ledger could not be written; while that is all that
\* was refused and no other program brings a file, whatever was tried is home.
BackSmooth ==
    /\ pc \notin {"return", "backring", "cut"} => going
    /\ pc \in {"undo"} \cup Backing => faults # 0
    /\ faults \in {0, 1} /\ NoFileCame =>
           /\ pc \in Backing => going /\ done = moved
           /\ stuck = <<>>

LEMMA HoldsHomeStep == Core /\ HoldsHome /\ [Next]_vars => HoldsHome'
<1> SUFFICES ASSUME Core, HoldsHome, [Next]_vars, pc' \in Backing PROVE HoldsHome'
    BY DEF HoldsHome
<1>1. CASE Undo
  <2>1. /\ pc = "undo" /\ UNCHANGED <<at, mapping, stranded>>
        /\ holds' = [d \in Docs |-> IF d \in Moves THEN Holder(d, Home[d], Moves) ELSE Nobody]
        BY <1>1 DEF Undo
  <2>2. Moves' = Moves /\ Moves \subseteq Docs /\ \A d \in Docs : Where(d)' = Where(d)
        BY <2>1 DEF Moves, Where
  <2>3. /\ first = Nobody /\ InWent = {} /\ Nobody \notin Docs
        BY <2>1, NoneWent, RenameAssumption DEF RenameAssumption, Core, RingUnderWay, InARing
  <2>4. \A e \in Docs : at[e] = IF e \in Moves THEN Where(e) ELSE Home[e]
        BY <2>1, <2>3 DEF Core, PlacedForward, Forward, PlaceOf
  <2>5. /\ \A d, e \in Docs : at[d] = at[e] /\ at[d] # Nowhere => d = e
        /\ \A d, e \in Docs : Home[d] = Home[e] => d = e
        /\ \A d \in Docs : Home[d] # Nowhere
        BY RenameAssumption DEF RenameAssumption, Core, Distinct, Files
  <2>6. ASSUME NEW d \in Moves, NEW e \in Moves, Where(e) = Home[d] PROVE holds'[d] = e
    <3>1. {g \in Moves : at[g] = Home[d]} = {e}
          BY <2>2, <2>4, <2>5, <2>6
    <3>2. Holder(d, Home[d], Moves) = e
          BY <3>1 DEF Holder
    <3> QED
        BY <2>1, <2>2, <3>2
  <2>7. ASSUME NEW d \in Docs, NoFileCame PROVE holds'[d] \in Moves \cup {Nobody}
    <3>1. CASE d \in Moves /\ {g \in Moves : at[g] = Home[d]} = {}
      <4>1. \A f \in Files : at[f] # Home[d]
            BY <2>4, <2>5, <2>7, <3>1 DEF Files, NoFileCame
      <4>2. Holder(d, Home[d], Moves) = Nobody
            BY <3>1, <4>1 DEF Holder, Free
      <4> QED
          BY <2>1, <4>2
    <3>2. CASE d \in Moves /\ {g \in Moves : at[g] = Home[d]} # {}
      <4>1. Holder(d, Home[d], Moves) \in Moves
            BY <3>2 DEF Holder
      <4> QED
          BY <2>1, <4>1
    <3>3. CASE d \notin Moves
          BY <2>1, <3>3
    <3> QED
        BY <3>1, <3>2, <3>3
  <2>8. NoFileCame' => NoFileCame
        BY NoFileComesBack
  <2> QED
      BY <2>2, <2>6, <2>7, <2>8 DEF HoldsHome
<1>2. CASE ~Undo
  <2>1. pc \in Backing /\ UNCHANGED <<holds, mapping, stranded>>
        BY <1>2 DEF Next, vars, Check, RenameOne, RingAside, RingStep, RingReturn, RingHome,
           Applied, WriteIndex, WriteRecords, BackOne, BackAside, BackStep, BackLast, PutBack,
           Leave, Cut, StrangerComes, Ended, Backing
  <2>2. Moves' = Moves /\ Moves \subseteq Docs /\ \A d \in Docs : Where(d)' = Where(d)
        BY <2>1 DEF Moves, Where
  <2>3. NoFileCame' => NoFileCame
        BY NoFileComesBack
  <2> QED
      BY <2>1, <2>2, <2>3 DEF HoldsHome
<1> QED
    BY <1>1, <1>2

\* A file's name is free when its turn to go back comes.
LEMMA OldNameFree ==
    ASSUME Core, HoldsHome, NoFileCame, pc \in Backing, done = moved,
           NEW d \in Moves \ done, holds[d] \notin Moves \ (done \cup {first})
    PROVE  Free(Home[d])
<1>1. /\ Names \cap Temps = {} /\ Nowhere \notin Names /\ Nobody \notin Docs
      /\ Home \in [Docs -> Names] /\ Moves \subseteq Docs
      /\ \A e, g \in Docs : Home[e] = Home[g] => e = g
      BY RenameAssumption DEF RenameAssumption, Moves
<1>2. /\ pc = "backring" => at[first] \in Temps
      /\ pc = "back" => first = Nobody
      BY DEF Core, RingUnderWay, InARing
<1>3. /\ \A e \in Docs \ {first} : e \notin done => at[e] = PlaceOf(e)
      /\ \A e \in done : at[e] = Home[e] /\ e \in Docs
      BY <1>1 DEF Core, PlacedBack
<1>4. SUFFICES ASSUME NEW e \in Docs, at[e] = Home[d] PROVE FALSE
      BY <1>1 DEF Free, Files, NoFileCame
<1>5. CASE e = first
      BY <1>1, <1>2, <1>4, <1>5 DEF Backing
<1>6. CASE e \in done
      BY <1>1, <1>3, <1>4, <1>6
<1>7. CASE e # first /\ e \notin done /\ e \notin Moves
      BY <1>1, <1>3, <1>4, <1>7 DEF PlaceOf
<1>8. CASE e # first /\ e \notin done /\ e \in Moves
  <2>1. Where(e) = Home[d]
        BY <1>3, <1>4, <1>8 DEF PlaceOf
  <2>2. holds[d] = e
        BY <2>1, <1>8 DEF HoldsHome
  <2> QED
      BY <1>8, <2>2
<1> QED
    BY <1>5, <1>6, <1>7, <1>8

LEMMA BackSmoothStep ==
    Core /\ HoldsHome /\ BackSmooth /\ FaultsTyped /\ [Next]_vars => BackSmooth'
<1> SUFFICES ASSUME Core, HoldsHome, BackSmooth, FaultsTyped, [Next]_vars PROVE BackSmooth'
    OBVIOUS
<1>1. faults \in Nat /\ faults' \in {faults, faults + 1} /\ (Fault => faults' = faults + 1)
      BY FaultsAdd DEF Fault
<1>2. pc' \notin {"return", "backring", "cut"} => going'
      BY DEF BackSmooth, Next, vars, ringvars, Check, RenameOne, RingAside, RingStep,
         RingReturn, RingHome, Applied, WriteIndex, WriteRecords, Undo, BackOne, BackAside,
         BackStep, BackLast, PutBack, Leave, Cut, StrangerComes, Ended
<1>3. pc' \in {"undo"} \cup Backing => faults' # 0
  <2>1. pc' \in {"undo"} \cup Backing => pc \in {"undo"} \cup Backing \/ Fault
        BY DEF Next, vars, Check, RenameOne, RingAside, RingStep, RingReturn, RingHome,
           Applied, WriteIndex, WriteRecords, Undo, BackOne, BackAside, BackStep, BackLast,
           PutBack, Leave, Cut, StrangerComes, Ended, Backing
  <2> QED
      BY <1>1, <2>1 DEF BackSmooth
<1>4. ASSUME faults' \in {0, 1}, NoFileCame'
      PROVE  /\ pc' \in Backing => going' /\ done' = moved'
             /\ stuck' = <<>>
  <2>1. faults \in {0, 1} /\ NoFileCame
        BY <1>1, <1>4, NoFileComesBack
  <2>2. stuck = <<>> /\ (pc \in Backing => going /\ done = moved)
        BY <2>1 DEF BackSmooth
  <2>3. pc \in Backing => ~Fault
        BY <1>1, <1>4, <2>1 DEF BackSmooth
  <2>4. pc = "back" => first = Nobody
        BY DEF Core, RingUnderWay, InARing
  <2>5. /\ \A d \in Docs : holds[d] \in Moves \cup {Nobody} \/ pc \notin Backing
        /\ Nobody \notin Docs /\ Moves \subseteq Docs
        BY <2>1, RenameAssumption DEF RenameAssumption, HoldsHome, Moves
  <2>6. ASSUME NEW d \in Docs, BackOne(d) PROVE done' = moved' /\ UNCHANGED <<going, stuck>>
    <3>1. /\ pc = "back" /\ d \in Moves \ done /\ holds[d] \notin Moves \ done
          /\ done' = done \cup {d} /\ going' = going
          BY <2>6 DEF BackOne, Ready, ringvars
    <3>2. holds[d] \in moved \cup {Nobody}
          BY <2>2, <2>5, <3>1 DEF Backing
    <3>3. Free(Home[d])
          BY <2>1, <2>2, <2>4, <3>1, OldNameFree DEF Backing
    <3>4. ~NotPut(Home[d])
          BY <2>3, <3>1, <3>3 DEF NotPut, Backing
    <3> QED
        BY <2>2, <2>6, <3>1, <3>2, <3>4 DEF BackOne, Backing
  <2>7. ASSUME NEW d \in Docs, BackAside(d) PROVE UNCHANGED <<done, moved, going, stuck>>
        BY <2>3, <2>7 DEF BackAside, Backing
  <2>8. ASSUME BackStep PROVE done' = moved' /\ UNCHANGED <<going, stuck>>
    <3>1. PICK R, d : R = RingOf(first) /\ d = NextOf(R, R \cap done)
          OBVIOUS
    <3>2. pc = "backring" /\ d # first /\ done' = done \cup {d}
          BY <2>8, <3>1 DEF BackStep
    <3>3. first \in Docs \ done /\ InRing(first) /\ R \subseteq Moves
          BY <3>1, <3>2, AtBackRing
    <3>4. HoldsTyped /\ HoldsOne
          BY <3>2, AtBack DEF Backing
    <3>5. R \cap done \in SUBSET (R \ {first})
          BY <3>3
    <3>6. d \in R \ done
          BY <3>1, <3>3, <3>4, <3>5, RingTurn
    <3>7. holds[d] \in done \cup {first}
          BY <3>1, <3>2, <3>3, <3>4, <3>5, RingTurn
    <3>8. Free(Home[d])
          BY <2>1, <2>2, <3>2, <3>3, <3>6, <3>7, OldNameFree DEF Backing
    <3>9. ~NotPut(Home[d]) /\ going
          BY <2>2, <2>3, <3>2, <3>8 DEF NotPut, Backing
    <3> QED
        BY <2>2, <2>8, <3>1, <3>2, <3>9 DEF BackStep, Backing
  <2>9. ASSUME BackLast PROVE done' = moved' /\ UNCHANGED <<going, stuck>>
    <3>1. PICK d, R : d = first /\ R = RingOf(first)
          OBVIOUS
    <3>2. pc = "backring" /\ R \ done = {d}
          BY <2>9, <3>1 DEF BackLast
    <3>3. d \in Moves \ done /\ d \in Docs /\ InRing(d) /\ R \subseteq Docs
          BY <2>5, <3>1, <3>2, AtBackRing
    <3>4. holds[d] \in R
          BY <3>1, <3>2, <3>3, AtBack, RingIsLeast DEF Backing, Closed
    <3>5. Free(Home[d])
          BY <2>1, <2>2, <3>1, <3>2, <3>3, <3>4, OldNameFree DEF Backing
    <3>6. ~NotPut(Home[d]) /\ going
          BY <2>2, <2>3, <3>2, <3>5 DEF NotPut, Backing
    <3> QED
        BY <2>2, <2>9, <3>1, <3>2, <3>6 DEF BackLast, Backing
  <2>10. CASE Undo
    <3>1. going' = going /\ going /\ done' = moved' /\ stuck' = stuck
          BY <2>10 DEF Undo, ringvars, BackSmooth
    <3> QED
        BY <2>2, <3>1
  <2>11. CASE /\ ~Undo /\ ~BackStep /\ ~BackLast
              /\ ~\E d \in Docs : BackOne(d) \/ BackAside(d)
    <3>1. stuck' = stuck /\ (pc' \in Backing => pc \in Backing /\ UNCHANGED <<done, moved, going>>)
          BY <2>11 DEF Next, vars, ringvars, Check, RenameOne, RingAside, RingStep, RingReturn,
             RingHome, Applied, WriteIndex, WriteRecords, PutBack, Leave, Cut, StrangerComes,
             Ended, Backing
    <3> QED
        BY <2>2, <3>1
  <2>12. BackStep \/ BackLast \/ (\E d \in Docs : BackOne(d) \/ BackAside(d)) => pc \in Backing
         BY DEF BackStep, BackLast, BackOne, BackAside, Backing
  <2> QED
      BY <2>2, <2>6, <2>7, <2>8, <2>9, <2>10, <2>11, <2>12
<1> QED
    BY <1>2, <1>3, <1>4 DEF BackSmooth

LEMMA LedgersTypeStep ==
    Core /\ LedgersTyped /\ [Next]_vars => LedgersTyped'
<1> SUFFICES ASSUME Core, LedgersTyped, [Next]_vars PROVE LedgersTyped'
    OBVIOUS
<1>1. /\ mapping \in [Docs -> Paths \cup {Nowhere}]
      /\ Home \in [Docs -> Paths]
      BY RenameAssumption DEF RenameAssumption, Core, PlacesTyped, Paths
<1>2. \A names \in [Docs -> Paths] : Followed(names) \in [Docs -> Paths]
      BY <1>1 DEF Followed
<1>3. CASE WriteIndex
      BY <1>2, <1>3 DEF WriteIndex, LedgersTyped
<1>4. CASE WriteRecords
      BY <1>2, <1>4 DEF WriteRecords, LedgersTyped
<1>5. CASE Undo
      BY <1>1, <1>5 DEF Undo, Restored, LedgersTyped
<1>6. CASE Leave
      BY <1>6 DEF Leave, LedgersTyped
<1>7. CASE UNCHANGED ledgers
      BY <1>7 DEF ledgers, LedgersTyped
<1>8. CASE \/ Check \/ RingStep \/ RingReturn \/ RingHome \/ Applied
           \/ \E d \in Docs : RenameOne(d) \/ RingAside(d)
           \/ \E d \in Docs : BackOne(d) \/ BackAside(d)
           \/ BackStep \/ BackLast \/ PutBack \/ Cut
           \/ \E x \in Strangers, p \in Names : StrangerComes(x, p)
           \/ Ended \/ UNCHANGED vars
      BY <1>7, <1>8 DEF Check, RingStep, RingReturn, RingHome, Applied, RenameOne, RingAside,
         BackOne, BackAside, BackStep, BackLast, PutBack, Cut, StrangerComes, Ended, vars,
         ledgers
<1> QED
    BY <1>3, <1>4, <1>5, <1>6, <1>8 DEF Next

-----------------------------------------------------------------------------
(* The invariant and what it gives. *)

IInv ==
    /\ Core /\ LedgersTyped /\ FaultsTyped
    /\ LedgersSoFar
    /\ Mapped /\ AsideFree /\ Smooth
    /\ NamesKnown /\ HoldsHome /\ BackSmooth

LEMMA InitIInv == Init => IInv
<1> SUFFICES ASSUME Init PROVE IInv
    OBVIOUS
<1>1. /\ Home \in [Docs -> Paths] /\ MaxFaults \in Nat
      BY RenameAssumption DEF RenameAssumption, Paths
<1>2. LedgersTyped
      BY <1>1 DEF Init, LedgersTyped
<1>3. FaultsTyped
      BY <1>1 DEF Init, FaultsTyped
<1>4. LedgersSoFar
      BY DEF Init, LedgersSoFar, Forward, Moving, Backing
<1>5. Mapped /\ Smooth
      BY DEF Init, Mapped, Smooth, Forward, Backing
<1>6. ToldAside = {}
      BY DEF Init, ToldAside
<1>7. AsideFree
      BY <1>6 DEF Init, AsideFree, Forward
<1>8. NamesKnown
      BY RenameAssumption DEF RenameAssumption, Files, Init, NamesKnown, NamesOf
<1>9. HoldsHome /\ BackSmooth
      BY DEF Init, HoldsHome, BackSmooth, Backing
<1> QED
    BY InitCore, <1>2, <1>3, <1>4, <1>5, <1>7, <1>8, <1>9 DEF IInv

LEMMA IInvStep == IInv /\ [Next]_vars => IInv'
BY CoreStep, LedgersTypeStep, FaultsAdd, LedgersStep, MappedStep, AsideStep, SmoothStep, NamesStep,
   HoldsHomeStep, BackSmoothStep DEF IInv

LEMMA Invariant == Spec => []IInv
BY InitIInv, IInvStep, PTL DEF Spec

\* Every variable of a Rename keeps its type, for any documents and any plan.
THEOREM TypeCorrect == Spec => []TypeOK
<1>1. IInv => TypeOK
      BY TypeParts DEF IInv, Core, LedgersTyped, FaultsTyped
<1> QED
    BY <1>1, Invariant, PTL

\* No rename of a Rename or of its undoing lands on a name that is in use, so no
\* file is written over, whatever files come and whatever is refused.
THEOREM NeverOverwritten == Spec => NothingOverwritten
<1>1. IInv /\ [Next]_vars => [\A f \in Files : at[f] # Nowhere => at'[f] # Nowhere]_vars
      BY NoneOverwritten DEF IInv
<1> QED
    BY <1>1, Invariant, PTL DEF Spec, NothingOverwritten

\* A Rename that comes to its end leaves the index and progress.json giving each
\* file where it is, or the name it had when the run said it could not be put
\* back; only an index that was said to be unwritten may not.
THEOREM LedgersFollow == Spec => []LedgersAgree
<1>1. IInv => LedgersAgree
      BY DEF IInv, LedgersSoFar, LedgersAgree, Told
<1> QED
    BY <1>1, Invariant, PTL

\* What the run says of a file it could not put back is where that file is.
THEOREM SaysWhereItIs == Spec => []SaidIsTrue
<1>1. IInv => SaidIsTrue
      BY DEF IInv, Core, StuckThere, SaidIsTrue
<1> QED
    BY <1>1, Invariant, PTL

\* When no other program brought a file, no ledger names one document's file for
\* another, whichever renames of a ring were refused and left.
THEOREM NoneForAnother == Spec => []NoOtherFile
<1>1. ASSUME IInv, pc = "over", ~unwritten, NoFileCame,
             NEW d \in Docs \ ToldStuck, NEW e \in Docs, d # e
      PROVE  at[e] \notin {index[d], records[d]}
  <2>1. index[d] = Told(d) /\ records[d] = Told(d)
        BY <1>1 DEF IInv, LedgersSoFar
  <2>2. d \in Files /\ e \in Files /\ Home[d] # Nowhere /\ Nowhere \notin Paths
        BY RenameAssumption DEF RenameAssumption, Files, Paths
  <2>3. CASE d \in ToldAside
    <3>1. at[d] = Home[d] \/ Free(Home[d])
          BY <1>1, <2>3 DEF IInv, AsideFree
    <3>2. at[e] # Home[d]
          BY <1>1, <2>2, <3>1 DEF IInv, Core, Distinct, Free
    <3> QED
        BY <2>1, <2>3, <3>2 DEF Told
  <2>4. CASE d \notin ToldAside
    <3>1. index[d] = at[d] /\ records[d] = at[d]
          BY <1>1, <2>1, <2>4 DEF Told
    <3>2. at[d] # Nowhere
          BY <1>1, <2>2, <3>1 DEF IInv, LedgersTyped
    <3> QED
        BY <1>1, <2>2, <3>1, <3>2 DEF IInv, Core, Distinct
  <2> QED
      BY <2>3, <2>4
<1>2. IInv => NoOtherFile
      BY <1>1 DEF NoOtherFile
<1> QED
    BY <1>2, Invariant, PTL

\* With nothing refused and no file coming, a Rename ends with every file under
\* the name its preview gave it, chains and rings too.
THEOREM PreviewKept == Spec => []AsPreviewed
<1>1. IInv => AsPreviewed
      BY DEF IInv, Smooth, AsPreviewed
<1> QED
    BY <1>1, Invariant, PTL

\* No two files have one name, and each document's file, and its ledgers, have the
\* name it had, its new one or a temporary one.
FoundAgain ==
    \A d \in Docs :
        /\ {at[d], index[d], records[d]} \subseteq {Home[d], newPath[d]} \cup Temps
        /\ at[d] # Nowhere
        /\ \A f \in Files : at[f] = at[d] => f = d

\* Wherever a Rename is cut, no file is lost: it is under a name of its own, which
\* is one that apply or put_back gave it, and so is what the ledgers say.
THEOREM CutLosesNone == Spec => []FoundAgain
<1>1. IInv => FoundAgain
  <2> SUFFICES ASSUME IInv, NEW d \in Docs
               PROVE  /\ {at[d], index[d], records[d]} \subseteq {Home[d], newPath[d]} \cup Temps
                      /\ at[d] # Nowhere
                      /\ \A f \in Files : at[f] = at[d] => f = d
      BY DEF FoundAgain
  <2>1. {at[d], index[d], records[d]} \subseteq NamesOf(d) /\ d \in Files
        BY DEF IInv, NamesKnown, Files
  <2>2. Nowhere \notin NamesOf(d)
        BY RenameAssumption DEF RenameAssumption, NamesOf
  <2> QED
      BY <2>1, <2>2 DEF NamesOf, IInv, Core, Distinct
<1> QED
    BY <1>1, Invariant, PTL

\* Something was refused beside the ledger that could not be written.
AllPutBack == stuck # <<>> /\ NoFileCame => faults > 1

\* When a ledger cannot be written, every file goes back to the name it had: one
\* stays only when something else was refused too, or another program's file came
\* (put_back).
THEOREM UndoneWhole == Spec => []AllPutBack
<1>1. IInv => AllPutBack
  <2> SUFFICES ASSUME IInv, NoFileCame, stuck # <<>> PROVE faults > 1
      BY DEF AllPutBack
  <2>1. faults \in Nat
        BY RenameAssumption DEF RenameAssumption, IInv, FaultsTyped
  <2>2. faults \notin {0, 1}
        BY DEF IInv, BackSmooth
  <2> QED
      BY <2>1, <2>2
<1> QED
    BY <1>1, Invariant, PTL
=============================================================================
