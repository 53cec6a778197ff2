--------------------------- MODULE RunTableProofs ---------------------------
(***************************************************************************)
(* Proofs about RunTable, for any finite set of runs and any bounds.  The  *)
(* inductive invariant comes in four layers, each inductive once the first *)
(* is known:                                                               *)
(*   RowInv   rows, items and maps describe the same table;                *)
(*   NewsInv  versions: nothing on its way is newer than the database, and *)
(*            the newest version of every run of the event has been shown  *)
(*            or is still on its way;                                      *)
(*   LoadInv  what a row still lacks is asked for by a query on its way;   *)
(*   KnownInv what is registered for the event is in memory, or asked for. *)
(***************************************************************************)
EXTENDS RunTable, FiniteSetTheorems, SequenceTheorems, WellFoundedInduction,
        TLAPS

-----------------------------------------------------------------------------
(* Facts about numbers, sets and sequences.                                *)

(* A set of numbers that is not empty has a least one.  This takes the     *)
(* place of induction: a property of numbers that fails somewhere has a    *)
(* least number where it fails.                                            *)
LEMMA LeastNumber ==
  ASSUME NEW S \in SUBSET Nat, S # {}
  PROVE  \E x \in S : \A y \in S : x <= y
<1> DEFINE Less == {ss \in Nat \X Nat : ss[1] < ss[2]}
<1>1. IsWellFoundedOn(Less, Nat)
  BY NatLessThanWellFounded DEF OpToRel
<1>2. \A x, y \in Nat : y < x => <<y, x>> \in Less
  OBVIOUS
<1> HIDE DEF Less
<1>3. PICK x \in S : \A y \in S : ~ (<<y, x>> \in Less)
  BY <1>1, WFMin
<1>4. \A y \in S : ~ (y < x)
  BY <1>2, <1>3
<1> QED
  BY <1>4

(* Max(I) is in I, and no number of I is greater: Max of FiniteSetsExt is  *)
(* a CHOOSE.                                                               *)
LEMMA MaxOfPositions ==
  ASSUME NEW n \in Nat, NEW I \in SUBSET (1..n), I # {}
  PROVE  Max(I) \in I /\ \A i \in I : i <= Max(I)
<1> DEFINE D == {d \in Nat : n - d \in I}
<1>1. \A i \in I : i \in Nat /\ n - i \in Nat /\ n - (n - i) = i
  OBVIOUS
<1>2. D \in SUBSET Nat /\ D # {} /\ \A i \in I : n - i \in D
  BY <1>1
<1>3. \A d \in D : n - d \in I
  OBVIOUS
<1> HIDE DEF D
<1>4. PICK d \in D : \A y \in D : d <= y
  BY <1>2, LeastNumber
<1>5. \A j \in I : n - d >= j
  BY <1>1, <1>2, <1>4
<1> QED
  BY <1>3, <1>4, <1>5 DEF Max

(* The sequences in SetToSeqs(S) list the elements of S, each once.        *)
LEMMA SetToSeqsElements ==
  ASSUME NEW S, IsFiniteSet(S), NEW list \in SetToSeqs(S)
  PROVE  /\ list \in Seq(S) /\ ToSet(list) = S
         /\ \A i, j \in DOMAIN list : list[i] = list[j] => i = j
<1> DEFINE n == Cardinality(S)
<1>1. n \in Nat
  BY FS_CardinalityType
<1>2. list \in Injection(1..n, S)
  BY DEF SetToSeqs, Injection, IsInjective
<1>3. Cardinality(1..n) = n
  BY <1>1, FS_Interval
<1>4. list \in Surjection(1..n, S)
  BY <1>2, <1>3, FS_Injection
<1>5. list \in [1..n -> S] /\ DOMAIN list = 1..n
  BY DEF SetToSeqs
<1>6. list \in Seq(S) /\ ToSet(list) = S
  BY <1>1, <1>4, <1>5, SeqDef DEF Surjection, ToSet
<1>7. \A i, j \in DOMAIN list : list[i] = list[j] => i = j
  BY <1>2, <1>5 DEF Injection, IsInjective
<1> QED
  BY <1>6, <1>7

(* What a queue holds after something is appended, or its head taken.      *)
LEMMA AppendElements ==
  ASSUME NEW S, NEW q \in Seq(S), NEW x \in S
  PROVE  ToSet(Append(q, x)) = ToSet(q) \cup {x}
<1>1. /\ DOMAIN Append(q, x) = 1..(Len(q) + 1) /\ DOMAIN q = 1..Len(q) /\ Len(q) \in Nat
      /\ \A i \in 1..Len(q) : Append(q, x)[i] = q[i]
      /\ Append(q, x)[Len(q) + 1] = x
  BY AppendProperties
<1>2. \A i \in 1..(Len(q) + 1) : i \in 1..Len(q) \/ i = Len(q) + 1
  BY <1>1
<1>3. \A i \in 1..Len(q) : i \in 1..(Len(q) + 1)
  BY <1>1
<1>4. Len(q) + 1 \in 1..(Len(q) + 1)
  BY <1>1
<1> QED
  BY <1>1, <1>2, <1>3, <1>4 DEF ToSet

LEMMA TailElements ==
  ASSUME NEW S, NEW q \in Seq(S), q # <<>>
  PROVE  /\ Head(q) \in ToSet(q) /\ ToSet(q) = {Head(q)} \cup ToSet(Tail(q))
         /\ ToSet(q) \subseteq S
<1>1. /\ Len(q) \in Nat \ {0} /\ DOMAIN q = 1..Len(q) /\ Head(q) = q[1]
      /\ DOMAIN Tail(q) = 1..(Len(q) - 1)
      /\ \A i \in 1..(Len(q) - 1) : Tail(q)[i] = q[i + 1]
  BY HeadTailProperties, EmptySeq
<1>2. \A i \in 1..Len(q) : i = 1 \/ (i - 1 \in 1..(Len(q) - 1) /\ i = (i - 1) + 1)
  BY <1>1
<1>3. \A i \in 1..(Len(q) - 1) : i + 1 \in 1..Len(q)
  BY <1>1
<1>4. 1 \in 1..Len(q)
  BY <1>1
<1>5. ToSet(Tail(q)) \subseteq ToSet(q) /\ Head(q) \in ToSet(q)
  BY <1>1, <1>3, <1>4 DEF ToSet
<1>6. ASSUME NEW x \in ToSet(q) PROVE x = Head(q) \/ x \in ToSet(Tail(q))
  <2>1. PICK i \in 1..Len(q) : x = q[i]
    BY <1>1 DEF ToSet
  <2>2. CASE i = 1
    BY <1>1, <2>1, <2>2
  <2>3. CASE i # 1
    <3>1. i - 1 \in 1..(Len(q) - 1) /\ Tail(q)[i - 1] = q[i]
      BY <1>1, <1>2, <2>1, <2>3
    <3> QED
      BY <1>1, <2>1, <3>1 DEF ToSet
  <2> QED
    BY <2>2, <2>3
<1>7. ToSet(q) \subseteq S
  BY <1>1 DEF ToSet
<1> QED
  BY <1>5, <1>6, <1>7

(* What comes before and what comes after, one behind the other: nothing   *)
(* that is in both, and nothing twice in either, is nothing twice.         *)
LEMMA ConcatElements ==
  ASSUME NEW S, NEW p \in Seq(S), NEW q \in Seq(S),
         ToSet(p) \cap ToSet(q) = {},
         \A i, j \in DOMAIN p : p[i] = p[j] => i = j,
         \A i, j \in DOMAIN q : q[i] = q[j] => i = j
  PROVE  /\ p \o q \in Seq(S) /\ ToSet(p \o q) = ToSet(p) \cup ToSet(q)
         /\ \A i \in DOMAIN p : i \in DOMAIN (p \o q) /\ (p \o q)[i] = p[i]
         /\ \A i \in DOMAIN (p \o q) : i \in DOMAIN p \/ (p \o q)[i] \in ToSet(q)
         /\ \A i, j \in DOMAIN (p \o q) : (p \o q)[i] = (p \o q)[j] => i = j
<1> DEFINE r == p \o q
<1>1. /\ Len(p) \in Nat /\ Len(q) \in Nat /\ DOMAIN p = 1..Len(p) /\ DOMAIN q = 1..Len(q)
      /\ r \in Seq(S) /\ Len(r) = Len(p) + Len(q) /\ DOMAIN r = 1..(Len(p) + Len(q))
      /\ \A i \in 1..(Len(p) + Len(q)) : r[i] = IF i <= Len(p) THEN p[i] ELSE q[i - Len(p)]
  BY ConcatProperties
<1> HIDE DEF r
<1>2. \A i \in 1..(Len(p) + Len(q)) :
        \/ i \in 1..Len(p) /\ i <= Len(p)
        \/ i - Len(p) \in 1..Len(q) /\ ~(i <= Len(p)) /\ i = (i - Len(p)) + Len(p)
  BY <1>1
<1>3. \A i \in 1..Len(p) : i \in 1..(Len(p) + Len(q)) /\ i <= Len(p)
  BY <1>1
<1>4. \A i \in 1..Len(q) : /\ i + Len(p) \in 1..(Len(p) + Len(q)) /\ ~(i + Len(p) <= Len(p))
                           /\ (i + Len(p)) - Len(p) = i
  BY <1>1
<1>5. \A i \in DOMAIN p : i \in DOMAIN r /\ r[i] = p[i]
  BY <1>1, <1>3
<1>6. \A i \in DOMAIN q : i + Len(p) \in DOMAIN r /\ r[i + Len(p)] = q[i]
  BY <1>1, <1>4
<1>7. \A i \in DOMAIN r : \/ i \in DOMAIN p /\ r[i] = p[i]
                          \/ /\ i - Len(p) \in DOMAIN q /\ r[i] = q[i - Len(p)]
                             /\ i = (i - Len(p)) + Len(p)
  BY <1>1, <1>2
<1>8. \A i \in DOMAIN p : p[i] \in ToSet(p)
  BY DEF ToSet
<1>9. \A i \in DOMAIN q : q[i] \in ToSet(q)
  BY DEF ToSet
<1>10. \A i \in DOMAIN r : i \in DOMAIN p \/ r[i] \in ToSet(q)
  BY <1>7, <1>9
<1>11. ToSet(r) = ToSet(p) \cup ToSet(q)
  <2>1. ASSUME NEW x \in ToSet(p) PROVE x \in ToSet(r)
    BY <1>5, <2>1 DEF ToSet
  <2>2. ASSUME NEW x \in ToSet(q) PROVE x \in ToSet(r)
    BY <1>6, <2>2 DEF ToSet
  <2>3. ASSUME NEW x \in ToSet(r) PROVE x \in ToSet(p) \cup ToSet(q)
    BY <1>7, <1>8, <1>9, <2>3 DEF ToSet
  <2> QED
    BY <2>1, <2>2, <2>3
<1>12. ASSUME NEW i \in DOMAIN r, NEW j \in DOMAIN r, r[i] = r[j] PROVE i = j
  <2>1. CASE i \in DOMAIN p /\ r[i] = p[i]
    BY <1>7, <1>8, <1>9, <1>12, <2>1
  <2>2. CASE /\ i - Len(p) \in DOMAIN q /\ r[i] = q[i - Len(p)]
             /\ i = (i - Len(p)) + Len(p)
    <3>1. /\ j - Len(p) \in DOMAIN q /\ r[j] = q[j - Len(p)]
          /\ j = (j - Len(p)) + Len(p)
      BY <1>7, <1>8, <1>9, <1>12, <2>2
    <3>2. i - Len(p) = j - Len(p)
      BY <1>12, <2>2, <3>1
    <3> QED
      BY <2>2, <3>1, <3>2
  <2> QED
    BY <1>7, <2>1, <2>2
<1> QED
  BY <1>1, <1>5, <1>10, <1>11, <1>12 DEF r

(* A sequence with nothing twice is no longer than the set it lists.       *)
LEMMA LengthOfOnce ==
  ASSUME NEW S, IsFiniteSet(S), NEW q \in Seq(S),
         \A i, j \in DOMAIN q : q[i] = q[j] => i = j
  PROVE  Len(q) \in Nat /\ Cardinality(S) \in Nat /\ Len(q) <= Cardinality(S)
<1>1. Len(q) \in Nat /\ DOMAIN q = 1..Len(q) /\ q \in [1..Len(q) -> S]
  OBVIOUS
<1>2. q \in Injection(1..Len(q), S)
  BY <1>1 DEF Injection, IsInjective
<1>3. Cardinality(1..Len(q)) <= Cardinality(S)
  BY <1>2, FS_Injection
<1>4. Cardinality(1..Len(q)) = Len(q)
  BY <1>1, FS_Interval
<1> QED
  BY <1>1, <1>3, <1>4, FS_CardinalityType

-----------------------------------------------------------------------------
(* Layer 1.                                                                *)
EachRunOnce ==
  \A i, j \in DOMAIN mDataItems : mDataItems[i] = mDataItems[j] => i = j

(* Once a run has a row, the maps lead from its driver and car to rows.    *)
RowsInMaps ==
  \A r \in mRuns : /\ mDrivers[RunDriver[r]] \notin {None, Known}
                   /\ mCars[RunCar[r]] \notin {None, Known}

RowsOfEvent == \A r \in mRuns : RunEvent[r] = mEventId

RowInv ==
  /\ TypeOK
  /\ \A r \in Runs : dbRun[r] <= changes + 1
  /\ mEventId = None => jobs = {}
  /\ EachRunOnce
  /\ \A r \in Runs \ mRuns : item[r] = NoItem
  /\ MapsAgreeWithRows
  /\ RowsShowTheirOwn
  /\ RowsInMaps
  /\ RowsOfEvent

(* Layer 2.  Versions of a run that was deleted (-1) do not matter.        *)
News == {n \in ToSet(notifs) : n.table = "run"}

NothingNewer ==
  /\ \A r \in Runs : item[r].ver <= newest[r] /\ (newest[r] > 0 => r \in mRuns)
  /\ \A r \in Runs : dbRun[r] >= 0 =>
       /\ newest[r] <= dbRun[r]
       /\ \A j \in jobs : j.data[r] <= dbRun[r]
       /\ \A n \in News : n.id = r => n.ver <= dbRun[r]

(* Notifications arrive in commit order: behind one of a run comes, or it  *)
(* is itself, the one of its current version.                              *)
CurrentLast ==
  \A i \in DOMAIN notifs : notifs[i].table = "run" /\ dbRun[notifs[i].id] > 0 =>
    \E k \in DOMAIN notifs : /\ i <= k /\ notifs[k].table = "run"
                             /\ notifs[k].id = notifs[i].id
                             /\ notifs[k].ver = dbRun[notifs[i].id]

(* The current version of r has been shown, or is on its way.              *)
Heard(r) ==
  \/ newest[r] = dbRun[r]
  \/ \E n \in News : n.id = r /\ n.ver = dbRun[r]
  \/ \E j \in jobs : j.kind = "runs" /\ j.read /\ j.data[r] = dbRun[r]

Asked == \E j \in jobs : j.kind = "runs" /\ ~j.read

Found(r) == \E j \in jobs : j.kind = "runs" /\ j.read /\ j.data[r] > 0

Live(r) == dbRun[r] > 0 /\ RunEvent[r] = mEventId

(* While no query failed, every run of the event is heard of, or will be;  *)
(* during the first selection, every run that has or will have a row.      *)
NewsInv ==
  /\ NothingNewer
  /\ CurrentLast
  /\ selections = 0 => mEventId = None
  /\ failures = 0 => \A r \in Runs : Live(r) => Heard(r) \/ Asked
  /\ selections = 1 => \A r \in Runs : Live(r) /\ (r \in mRuns \/ Found(r)) => Heard(r)

(* Layer 3.  A query of one of the kinds for the event, or one that will   *)
(* ask it.                                                                 *)
Coming(kinds) ==
  \E j \in jobs : j.kind = "runs" \/ (j.kind \in kinds /\ j.event = mEventId)

Alone(r) ==
  \A s \in mRuns \ {r} : RunDriver[s] # RunDriver[r] /\ RunCar[s] # RunCar[r]

RowComplete(r) ==
  /\ RunCar[r] \in RegCars[mEventId] =>
       ClassOf[RunCar[r]] \in mCarClasses \/ Coming({"classes"})
  /\ Alone(r) =>
       /\ RunDriver[r] \in RegDrivers[mEventId] =>
            item[r].driver = RunDriver[r] \/ Coming({"drivers"})
       /\ RunCar[r] \in RegCars[mEventId] =>
            /\ item[r].car = RunCar[r] \/ Coming({"cars"})
            /\ item[r].class = ClassOf[RunCar[r]] \/ Coming({"cars", "classes"})

LoadInv ==
  /\ changes = 0 => notifs = <<>>
  /\ failures = 0 /\ changes = 0 => \A r \in mRuns : RowComplete(r)

(* Layer 4.  Unlike a row, the maps do not lose what they know: it stands  *)
(* whatever was changed meanwhile, and whoever shares a driver or a car.   *)
KnownInv ==
  failures = 0 /\ mEventId # None =>
    /\ \A d \in RegDrivers[mEventId] : DriverOf(d) = d \/ Coming({"drivers"})
    /\ \A c \in RegCars[mEventId] :
         /\ CarOf(c) = c \/ Coming({"cars"})
         /\ ClassOf[c] \in mCarClasses \/ Coming({"classes"})

-----------------------------------------------------------------------------
(* What the handlers do to the items and the maps.                         *)

(* What a row takes from the maps is its own driver and its own car.       *)
LEMMA TakenFromMaps ==
  ASSUME RowInv, NEW r \in Runs
  PROVE  /\ DriverForRow(r) \in {None, RunDriver[r]} /\ CarForRow(r) \in {None, RunCar[r]}
         /\ r \notin mRuns => /\ DriverForRow(r) = DriverOf(RunDriver[r])
                              /\ CarForRow(r) = CarOf(RunCar[r])
<1> DEFINE d == RunDriver[r]
           c == RunCar[r]
<1>1. d \in Drivers /\ c \in Cars /\ None # Known
  BY TableAssumption
<1>2. item[r].driver \in {None, d} /\ item[r].car \in {None, c}
  BY DEF RowInv, RowsShowTheirOwn, NoItem
<1>3. r \notin mRuns => item[r].driver = None /\ item[r].car = None
  BY DEF RowInv, NoItem
<1>4. ASSUME mDrivers[d] \notin {None, Known} PROVE item[mDrivers[d]].driver \in {None, d}
  <2>1. mDrivers[d] \in mRuns /\ RunDriver[mDrivers[d]] = d
    BY <1>1, <1>4 DEF RowInv, MapsAgreeWithRows
  <2> QED
    BY <2>1 DEF RowInv, RowsShowTheirOwn
<1>5. ASSUME mCars[c] \notin {None, Known} PROVE item[mCars[c]].car \in {None, c}
  <2>1. mCars[c] \in mRuns /\ RunCar[mCars[c]] = c
    BY <1>1, <1>5 DEF RowInv, MapsAgreeWithRows
  <2> QED
    BY <2>1 DEF RowInv, RowsShowTheirOwn
<1>6. /\ mDrivers[d] = None => DriverOf(d) = None
      /\ mDrivers[d] = Known => DriverOf(d) = d
      /\ mDrivers[d] \notin {None, Known} => DriverOf(d) = item[mDrivers[d]].driver
  BY <1>1 DEF DriverOf
<1>7. /\ mCars[c] = None => CarOf(c) = None
      /\ mCars[c] = Known => CarOf(c) = c
      /\ mCars[c] \notin {None, Known} => CarOf(c) = item[mCars[c]].car
  BY <1>1 DEF CarOf
<1>8. /\ DriverForRow(r) = IF mDrivers[d] = None THEN item[r].driver ELSE DriverOf(d)
      /\ CarForRow(r) = IF mCars[c] = None THEN item[r].car ELSE CarOf(c)
  BY DEF DriverForRow, CarForRow
<1> HIDE DEF d, c
<1>9. DriverForRow(r) \in {None, d} /\ (r \notin mRuns => DriverForRow(r) = DriverOf(d))
  BY <1>2, <1>3, <1>4, <1>6, <1>8
<1>10. CarForRow(r) \in {None, c} /\ (r \notin mRuns => CarForRow(r) = CarOf(c))
  BY <1>2, <1>3, <1>5, <1>7, <1>8
<1> QED
  BY <1>9, <1>10 DEF d, c

(* LastWith gives an element of the list with the value asked for.         *)
LEMMA LastWithEffect ==
  ASSUME NEW S, NEW list \in Seq(S), NEW column, NEW x,
         \E r \in ToSet(list) : column[r] = x
  PROVE  /\ LastWith(list, column, x) \in ToSet(list)
         /\ column[LastWith(list, column, x)] = x
<1> DEFINE I == {i \in DOMAIN list : column[list[i]] = x}
<1>1. Len(list) \in Nat /\ DOMAIN list = 1..Len(list)
  OBVIOUS
<1>2. I \in SUBSET (1..Len(list)) /\ I # {}
  BY <1>1 DEF ToSet
<1>3. \A i \in I : list[i] \in ToSet(list) /\ column[list[i]] = x
  BY DEF ToSet
<1>4. LastWith(list, column, x) = list[Max(I)]
  BY DEF LastWith
<1> HIDE DEF I
<1>5. Max(I) \in I
  BY <1>1, <1>2, MaxOfPositions
<1> QED
  BY <1>3, <1>4, <1>5

(* updateRun: the touched runs have a row, new ones at the end; they take  *)
(* the new message, and the maps lead from their driver and car to one of  *)
(* them.                                                                   *)
LEMMA UpdateEffect ==
  ASSUME RowInv, NEW runs \in SUBSET Runs, NEW ver \in [Runs -> Versions],
         updateRuns(runs, ver), NEW touched, touched = OfThisEvent(runs)
  PROVE  /\ touched \in SUBSET Runs /\ mRuns' = mRuns \cup touched
         /\ mDataItems' \in Seq(Runs) /\ ToSet(mDataItems') = mRuns' /\ EachRunOnce'
         /\ \A i \in DOMAIN mDataItems' : item'[mDataItems'[i]].row = i - 1
         /\ item' \in [Runs -> DataItem]
         /\ \A r \in Runs :
              /\ r \notin touched => item'[r] = item[r]
              /\ r \in touched =>
                   /\ item'[r].ver = ver[r] /\ item'[r].class = item[r].class
                   /\ item'[r].driver = DriverForRow(r) /\ item'[r].car = CarForRow(r)
         /\ mDrivers' \in [Drivers -> Runs \cup {None, Known}]
         /\ \A d \in Drivers : IF \E r \in touched : RunDriver[r] = d
              THEN mDrivers'[d] \in touched /\ RunDriver[mDrivers'[d]] = d
              ELSE mDrivers'[d] = mDrivers[d]
         /\ mCars' \in [Cars -> Runs \cup {None, Known}]
         /\ \A c \in Cars : IF \E r \in touched : RunCar[r] = c
              THEN mCars'[c] \in touched /\ RunCar[mCars'[c]] = c
              ELSE mCars'[c] = mCars[c]
         /\ newest' \in [Runs -> Versions]
         /\ \A r \in Runs : newest'[r] = IF r \in touched /\ ver[r] > newest[r]
                                         THEN ver[r] ELSE newest[r]
<1> DEFINE own == OfThisEvent(runs)
<1>0. TypeOK /\ EachRunOnce /\ MapsAgreeWithRows /\ mRuns \subseteq Runs
  BY DEF RowInv, TypeOK
<1>1. own \in SUBSET Runs /\ IsFiniteSet(own) /\ IsFiniteSet(own \ mRuns)
  BY TableAssumption, FS_Subset DEF OfThisEvent
<1>2. PICK list \in SetToSeqs(own), new \in SetToSeqs(own \ mRuns) :
        /\ mDataItems' = mDataItems \o new
        /\ mRuns' = mRuns \cup own
        /\ item' = [r \in Runs |->
             IF r \in own
             THEN [row    |-> IF r \notin mRuns
                              THEN (CHOOSE i \in DOMAIN (mDataItems \o new) : (mDataItems \o new)[i] = r) - 1
                              ELSE item[r].row,
                   ver    |-> ver[r],
                   driver |-> DriverForRow(r),
                   car    |-> CarForRow(r),
                   class  |-> item[r].class]
             ELSE item[r]]
        /\ mDrivers' = [d \in Drivers |->
             IF \E r \in own : RunDriver[r] = d THEN LastWith(list, RunDriver, d)
             ELSE mDrivers[d]]
        /\ mCars' = [c \in Cars |->
             IF \E r \in own : RunCar[r] = c THEN LastWith(list, RunCar, c)
             ELSE mCars[c]]
        /\ newest' = [r \in Runs |-> IF r \in own /\ ver[r] > newest[r] THEN ver[r]
                                     ELSE newest[r]]
  BY ZenonT(30) DEF updateRuns
<1> HIDE DEF own
<1>3. list \in Seq(own) /\ ToSet(list) = own
  BY <1>1, SetToSeqsElements
<1>4. /\ new \in Seq(own \ mRuns) /\ ToSet(new) = own \ mRuns
      /\ \A i, j \in DOMAIN new : new[i] = new[j] => i = j
  BY <1>1, SetToSeqsElements
<1>5. new \in Seq(Runs) /\ mDataItems \in Seq(Runs) /\ ToSet(mDataItems) \cap ToSet(new) = {}
  BY <1>0, <1>1, <1>4 DEF TypeOK, MapsAgreeWithRows
<1>6. /\ mDataItems' \in Seq(Runs) /\ ToSet(mDataItems') = ToSet(mDataItems) \cup ToSet(new)
      /\ \A i \in DOMAIN mDataItems : i \in DOMAIN mDataItems' /\ mDataItems'[i] = mDataItems[i]
      /\ \A i \in DOMAIN mDataItems' : i \in DOMAIN mDataItems \/ mDataItems'[i] \in ToSet(new)
      /\ \A i, j \in DOMAIN mDataItems' : mDataItems'[i] = mDataItems'[j] => i = j
  <2>1. \A i, j \in DOMAIN mDataItems : mDataItems[i] = mDataItems[j] => i = j
    BY <1>0 DEF EachRunOnce
  <2> DEFINE all == mDataItems \o new
  <2>2. /\ all \in Seq(Runs) /\ ToSet(all) = ToSet(mDataItems) \cup ToSet(new)
        /\ \A i \in DOMAIN mDataItems : i \in DOMAIN all /\ all[i] = mDataItems[i]
        /\ \A i \in DOMAIN all : i \in DOMAIN mDataItems \/ all[i] \in ToSet(new)
        /\ \A i, j \in DOMAIN all : all[i] = all[j] => i = j
    BY <1>4, <1>5, <2>1, ConcatElements
  <2>3. mDataItems' = all
    BY <1>2
  <2> HIDE DEF all
  <2> QED
    BY <2>2, <2>3
<1>7. ToSet(mDataItems') = mRuns' /\ EachRunOnce'
  BY <1>0, <1>2, <1>4, <1>6 DEF MapsAgreeWithRows, EachRunOnce
<1>8. /\ Len(mDataItems') \in Nat /\ DOMAIN mDataItems' = 1..Len(mDataItems')
      /\ Len(mDataItems') <= Cardinality(Runs) /\ Cardinality(Runs) \in Nat
  BY <1>6, LengthOfOnce, TableAssumption
<1> DEFINE at(r) == CHOOSE i \in DOMAIN (mDataItems \o new) : (mDataItems \o new)[i] = r
<1>9. \A i \in DOMAIN mDataItems' : at(mDataItems'[i]) = i
  <2>1. ASSUME NEW i \in DOMAIN mDataItems' PROVE at(mDataItems'[i]) = i
    <3>0. mDataItems' = mDataItems \o new
      BY <1>2
    <3>1. /\ at(mDataItems'[i]) \in DOMAIN mDataItems'
          /\ mDataItems'[at(mDataItems'[i])] = mDataItems'[i]
      BY <3>0
    <3> HIDE DEF at
    <3> QED
      BY <1>6, <3>1
  <2> QED
    BY <2>1
<1>10. \A r \in Runs : item[r] \in DataItem /\ ver[r] \in Versions
  BY <1>0 DEF TypeOK
<1>11. \A r \in Runs : DriverForRow(r) \in Drivers \cup {None} /\ CarForRow(r) \in Cars \cup {None}
  BY TakenFromMaps, TableAssumption
<1>12. \A r \in mRuns' : at(r) \in 1..Len(mDataItems') /\ at(r) - 1 \in -1..Cardinality(Runs)
  <2>1. ASSUME NEW r \in mRuns' PROVE at(r) \in 1..Len(mDataItems')
    <3>1. PICK i \in DOMAIN mDataItems' : mDataItems'[i] = r
      BY <1>7 DEF ToSet
    <3>2. at(r) = i
      BY <1>9, <3>1
    <3> HIDE DEF at
    <3> QED
      BY <1>8, <3>1, <3>2
  <2> HIDE DEF at
  <2> QED
    BY <1>8, <2>1
<1>13. \A r \in Runs : item'[r] =
             IF r \in own
             THEN [row    |-> IF r \notin mRuns THEN at(r) - 1 ELSE item[r].row,
                   ver    |-> ver[r],
                   driver |-> DriverForRow(r),
                   car    |-> CarForRow(r),
                   class  |-> item[r].class]
             ELSE item[r]
  BY <1>2
<1>14. item' = [r \in Runs |-> item'[r]]
  BY <1>2
<1> HIDE DEF at
<1>15. ASSUME NEW r \in Runs
       PROVE  /\ item'[r] \in DataItem
              /\ r \notin own => item'[r] = item[r]
              /\ r \in own =>
                   /\ item'[r].ver = ver[r] /\ item'[r].class = item[r].class
                   /\ item'[r].driver = DriverForRow(r) /\ item'[r].car = CarForRow(r)
                   /\ item'[r].row = IF r \notin mRuns THEN at(r) - 1 ELSE item[r].row
  <2>1. CASE r \in own
    <3>1. at(r) - 1 \in -1..Cardinality(Runs)
      BY <1>2, <1>12, <2>1
    <3>2. /\ item[r].row \in -1..Cardinality(Runs) /\ item[r].class \in Classes \cup {None}
          /\ ver[r] \in Versions
      BY <1>10 DEF DataItem
    <3>3. DriverForRow(r) \in Drivers \cup {None} /\ CarForRow(r) \in Cars \cup {None}
      BY <1>11
    <3>4. item'[r] = [row    |-> IF r \notin mRuns THEN at(r) - 1 ELSE item[r].row,
                      ver    |-> ver[r],
                      driver |-> DriverForRow(r),
                      car    |-> CarForRow(r),
                      class  |-> item[r].class]
      BY <1>13, <2>1
    <3> QED
      BY <2>1, <3>1, <3>2, <3>3, <3>4 DEF DataItem
  <2>2. CASE r \notin own
    BY <1>10, <1>13, <2>2
  <2> QED
    BY <2>1, <2>2
<1>16. item' \in [Runs -> DataItem]
  BY <1>14, <1>15
<1>17. ASSUME NEW i \in DOMAIN mDataItems' PROVE item'[mDataItems'[i]].row = i - 1
  <2>1. mDataItems'[i] \in Runs /\ mDataItems'[i] \in mRuns'
    BY <1>2, <1>6, <1>7 DEF ToSet
  <2>2. CASE i \in DOMAIN mDataItems
    <3>1. mDataItems'[i] = mDataItems[i] /\ mDataItems[i] \in mRuns
      BY <1>0, <1>6, <2>2 DEF MapsAgreeWithRows, ToSet
    <3>2. item[mDataItems[i]].row = i - 1
      BY <1>0, <2>2 DEF MapsAgreeWithRows
    <3> QED
      BY <1>15, <2>1, <3>1, <3>2
  <2>3. CASE i \notin DOMAIN mDataItems
    <3>1. mDataItems'[i] \in own \ mRuns
      BY <1>4, <1>6, <2>3
    <3> QED
      BY <1>9, <1>15, <2>1, <3>1
  <2> QED
    BY <2>2, <2>3
<1>18. \A d \in Drivers : (\E r \in own : RunDriver[r] = d) =>
         LastWith(list, RunDriver, d) \in own /\ RunDriver[LastWith(list, RunDriver, d)] = d
  BY <1>3, LastWithEffect
<1>19. \A c \in Cars : (\E r \in own : RunCar[r] = c) =>
         LastWith(list, RunCar, c) \in own /\ RunCar[LastWith(list, RunCar, c)] = c
  BY <1>3, LastWithEffect
<1>20. /\ mDrivers' \in [Drivers -> Runs \cup {None, Known}]
       /\ \A d \in Drivers : IF \E r \in own : RunDriver[r] = d
            THEN mDrivers'[d] \in own /\ RunDriver[mDrivers'[d]] = d
            ELSE mDrivers'[d] = mDrivers[d]
  BY <1>0, <1>1, <1>2, <1>18 DEF TypeOK
<1>21. /\ mCars' \in [Cars -> Runs \cup {None, Known}]
       /\ \A c \in Cars : IF \E r \in own : RunCar[r] = c
            THEN mCars'[c] \in own /\ RunCar[mCars'[c]] = c
            ELSE mCars'[c] = mCars[c]
  BY <1>0, <1>1, <1>2, <1>19 DEF TypeOK
<1>22. /\ newest' \in [Runs -> Versions]
       /\ \A r \in Runs : newest'[r] = IF r \in own /\ ver[r] > newest[r]
                                       THEN ver[r] ELSE newest[r]
  BY <1>0, <1>2 DEF TypeOK
<1>23. own = touched
  BY DEF own
<1> QED
  BY <1>1, <1>2, <1>6, <1>7, <1>15, <1>16, <1>17, <1>20, <1>21, <1>22, <1>23

(* updateDriver, updateCar and updateCarClasses each set one pointer, only *)
(* in rows their map leads to, and only to what it should be.              *)
LEMMA MapsLeadToRows ==
  ASSUME RowInv
  PROVE  /\ \A d \in Drivers, r \in Runs : mDrivers[d] = r => r \in mRuns /\ RunDriver[r] = d
         /\ \A c \in Cars, r \in Runs : mCars[c] = r => r \in mRuns /\ RunCar[r] = c
  BY TableAssumption DEF RowInv, MapsAgreeWithRows

LEMMA DriversEffect ==
  ASSUME RowInv, NEW ds \in SUBSET Drivers, updateDrivers(ds)
  PROVE  /\ item' \in [Runs -> DataItem] /\ mDrivers' \in [Drivers -> Runs \cup {None, Known}]
         /\ \A r \in Runs : /\ item'[r].row = item[r].row /\ item'[r].ver = item[r].ver
                            /\ item'[r].car = item[r].car /\ item'[r].class = item[r].class
                            /\ item'[r].driver \in {item[r].driver, RunDriver[r]}
                            /\ r \notin mRuns => item'[r] = item[r]
                            /\ RunDriver[r] \in ds /\ mDrivers[RunDriver[r]] = r =>
                                 item'[r].driver = RunDriver[r]
         /\ \A d \in Drivers : mDrivers'[d] = IF d \in ds /\ mDrivers[d] = None THEN Known
                                              ELSE mDrivers[d]
<1>1. /\ \A r \in Runs : item[r] \in DataItem
      /\ mDrivers \in [Drivers -> Runs \cup {None, Known}]
  BY DEF RowInv, TypeOK
<1>2. ASSUME NEW r \in Runs
      PROVE  /\ item'[r] \in DataItem
             /\ item'[r].row = item[r].row /\ item'[r].ver = item[r].ver
             /\ item'[r].car = item[r].car /\ item'[r].class = item[r].class
             /\ item'[r].driver \in {item[r].driver, RunDriver[r]}
             /\ r \notin mRuns => item'[r] = item[r]
             /\ RunDriver[r] \in ds /\ mDrivers[RunDriver[r]] = r =>
                  item'[r].driver = RunDriver[r]
  <2>1. CASE \E d \in ds : mDrivers[d] = r
    <3> DEFINE x == CHOOSE d \in ds : mDrivers[d] = r
    <3>1. x \in ds /\ mDrivers[x] = r /\ x \in Drivers
      BY <2>1
    <3> HIDE DEF x
    <3>2. item'[r] = [item[r] EXCEPT !.driver = x]
      BY <2>1 DEF updateDrivers, x
    <3>3. x = RunDriver[r] /\ r \in mRuns
      BY <3>1, MapsLeadToRows
    <3> QED
      BY <1>1, <3>1, <3>2, <3>3 DEF DataItem
  <2>2. CASE ~ \E d \in ds : mDrivers[d] = r
    <3>1. item'[r] = item[r]
      BY <2>2 DEF updateDrivers
    <3> QED
      BY <1>1, <2>2, <3>1
  <2> QED
    BY <2>1, <2>2
<1>3. item' \in [Runs -> DataItem]
  BY <1>2 DEF updateDrivers
<1>4. /\ mDrivers' \in [Drivers -> Runs \cup {None, Known}]
      /\ \A d \in Drivers : mDrivers'[d] = IF d \in ds /\ mDrivers[d] = None THEN Known
                                           ELSE mDrivers[d]
  BY <1>1 DEF updateDrivers
<1> QED
  BY <1>2, <1>3, <1>4

LEMMA CarsEffect ==
  ASSUME RowInv, NEW cs \in SUBSET Cars
  PROVE  /\ WithCars(cs) \in [Runs -> DataItem]
         /\ KnowCars(cs) \in [Cars -> Runs \cup {None, Known}]
         /\ \A r \in Runs : /\ WithCars(cs)[r].row = item[r].row
                            /\ WithCars(cs)[r].ver = item[r].ver
                            /\ WithCars(cs)[r].driver = item[r].driver
                            /\ WithCars(cs)[r].class = item[r].class
                            /\ WithCars(cs)[r].car \in {item[r].car, RunCar[r]}
                            /\ r \notin mRuns => WithCars(cs)[r] = item[r]
                            /\ RunCar[r] \in cs /\ mCars[RunCar[r]] = r =>
                                 WithCars(cs)[r].car = RunCar[r]
         /\ \A c \in Cars : KnowCars(cs)[c] = IF c \in cs /\ mCars[c] = None THEN Known
                                              ELSE mCars[c]
<1>1. /\ \A r \in Runs : item[r] \in DataItem
      /\ mCars \in [Cars -> Runs \cup {None, Known}]
  BY DEF RowInv, TypeOK
<1>2. ASSUME NEW r \in Runs
      PROVE  /\ WithCars(cs)[r] \in DataItem
             /\ WithCars(cs)[r].row = item[r].row /\ WithCars(cs)[r].ver = item[r].ver
             /\ WithCars(cs)[r].driver = item[r].driver
             /\ WithCars(cs)[r].class = item[r].class
             /\ WithCars(cs)[r].car \in {item[r].car, RunCar[r]}
             /\ r \notin mRuns => WithCars(cs)[r] = item[r]
             /\ RunCar[r] \in cs /\ mCars[RunCar[r]] = r => WithCars(cs)[r].car = RunCar[r]
  <2>1. CASE \E c \in cs : mCars[c] = r
    <3> DEFINE x == CHOOSE c \in cs : mCars[c] = r
    <3>1. x \in cs /\ mCars[x] = r /\ x \in Cars
      BY <2>1
    <3> HIDE DEF x
    <3>2. WithCars(cs)[r] = [item[r] EXCEPT !.car = x]
      BY <2>1 DEF WithCars, x
    <3>3. x = RunCar[r] /\ r \in mRuns
      BY <3>1, MapsLeadToRows
    <3> QED
      BY <1>1, <3>1, <3>2, <3>3 DEF DataItem
  <2>2. CASE ~ \E c \in cs : mCars[c] = r
    <3>1. WithCars(cs)[r] = item[r]
      BY <2>2 DEF WithCars
    <3> QED
      BY <1>1, <2>2, <3>1
  <2> QED
    BY <2>1, <2>2
<1>3. WithCars(cs) \in [Runs -> DataItem]
  BY <1>2 DEF WithCars
<1>4. /\ KnowCars(cs) \in [Cars -> Runs \cup {None, Known}]
      /\ \A c \in Cars : KnowCars(cs)[c] = IF c \in cs /\ mCars[c] = None THEN Known
                                           ELSE mCars[c]
  BY <1>1 DEF KnowCars
<1> QED
  BY <1>2, <1>3, <1>4

LEMMA ClassesEffect ==
  ASSUME RowInv, NEW items \in [Runs -> DataItem], NEW cars, NEW classes \in SUBSET Classes,
         updateCarClasses(items, cars, classes),
         \A r \in Runs : items[r].car \in {None, RunCar[r]},
         \A c \in Cars, r \in Runs : cars[c] = r => r \in mRuns
  PROVE  /\ item' \in [Runs -> DataItem] /\ offClass' \in [Cars -> Classes \cup {None}]
         /\ \A r \in Runs : /\ item'[r].row = items[r].row /\ item'[r].ver = items[r].ver
                            /\ item'[r].driver = items[r].driver /\ item'[r].car = items[r].car
                            /\ item'[r].class \in {items[r].class, ClassOf[RunCar[r]]}
                            /\ r \notin mRuns => item'[r] = items[r]
                            /\ /\ cars[RunCar[r]] = r /\ items[r].car = RunCar[r]
                               /\ ClassOf[RunCar[r]] \in classes
                               => item'[r].class = ClassOf[RunCar[r]]
<1>1. ASSUME NEW r \in Runs
      PROVE  /\ item'[r] \in DataItem
             /\ item'[r].row = items[r].row /\ item'[r].ver = items[r].ver
             /\ item'[r].driver = items[r].driver /\ item'[r].car = items[r].car
             /\ item'[r].class \in {items[r].class, ClassOf[RunCar[r]]}
             /\ r \notin mRuns => item'[r] = items[r]
             /\ /\ cars[RunCar[r]] = r /\ items[r].car = RunCar[r]
                /\ ClassOf[RunCar[r]] \in classes
                => item'[r].class = ClassOf[RunCar[r]]
  <2>1. /\ items[r] \in DataItem /\ RunCar[r] \in Cars /\ RunCar[r] # None
        /\ ClassOf[RunCar[r]] \in Classes
    BY TableAssumption
  <2>2. CASE (\E c \in Cars : cars[c] = r) /\ items[r].car # None
               /\ ClassOf[items[r].car] \in classes
    <3>1. item'[r] = [items[r] EXCEPT !.class = ClassOf[items[r].car]] /\ r \in mRuns
      BY <2>2 DEF updateCarClasses
    <3>2. ClassOf[items[r].car] = ClassOf[RunCar[r]]
      BY <2>2
    <3> QED
      BY <2>1, <3>1, <3>2 DEF DataItem
  <2>3. CASE ~ ((\E c \in Cars : cars[c] = r) /\ items[r].car # None
                  /\ ClassOf[items[r].car] \in classes)
    <3>1. item'[r] = items[r]
      BY <2>3 DEF updateCarClasses
    <3> QED
      BY <2>1, <2>3, <3>1
  <2> QED
    BY <2>2, <2>3
<1>2. item' \in [Runs -> DataItem]
  BY <1>1 DEF updateCarClasses
<1>3. offClass' \in [Cars -> Classes \cup {None}]
  BY TableAssumption DEF updateCarClasses, RowInv, TypeOK
<1> QED
  BY <1>1, <1>2, <1>3

(* The results and the notifications about drivers, cars and classes.      *)
SetRelatedResult(j) ==
  \/ \E drivers \in SUBSET Drivers : setDrivers(j, drivers)
  \/ \E cars \in SUBSET Cars : setCars(j, cars)
  \/ \E carClasses \in SUBSET Classes : setCarClasses(j, carClasses)

RelatedNotification(n) ==
  driverNotification(n) \/ carNotification(n) \/ carClassNotification(n)

(* What they do: pointers are only ever set to what they should be, a map  *)
(* that knows nothing may come to know a driver or a car without a row.    *)
Mends ==
  /\ item' \in [Runs -> DataItem]
  /\ \A r \in Runs : /\ item'[r].row = item[r].row /\ item'[r].ver = item[r].ver
                     /\ item'[r].driver \in {item[r].driver, RunDriver[r]}
                     /\ item'[r].car \in {item[r].car, RunCar[r]}
                     /\ item'[r].class \in {item[r].class, ClassOf[RunCar[r]]}
                     /\ r \notin mRuns => item'[r] = item[r]
  /\ mDrivers' \in [Drivers -> Runs \cup {None, Known}]
  /\ mCars' \in [Cars -> Runs \cup {None, Known}]
  /\ \A d \in Drivers : mDrivers'[d] = mDrivers[d] \/ (mDrivers[d] = None /\ mDrivers'[d] = Known)
  /\ \A c \in Cars : mCars'[c] = mCars[c] \/ (mCars[c] = None /\ mCars'[c] = Known)
  /\ offClass' \in [Cars -> Classes \cup {None}]
  /\ mCarClasses' \subseteq Classes /\ mCarClasses \subseteq mCarClasses'
  /\ UNCHANGED <<mDataItems, mRuns, newest>>

LEMMA RowTypes ==
  ASSUME RowInv
  PROVE  /\ item \in [Runs -> DataItem] /\ mRuns \subseteq Runs
         /\ mDrivers \in [Drivers -> Runs \cup {None, Known}]
         /\ mCars \in [Cars -> Runs \cup {None, Known}]
         /\ offClass \in [Cars -> Classes \cup {None}] /\ mCarClasses \in SUBSET Classes
         /\ \A r \in Runs : /\ item[r].driver \in {None, RunDriver[r]}
                            /\ item[r].car \in {None, RunCar[r]}
                            /\ item[r].class \in {None, ClassOf[RunCar[r]]}
  BY DEF RowInv, TypeOK, RowsShowTheirOwn, NoItem

LEMMA DriversMend ==
  ASSUME RowInv, NEW ds \in SUBSET Drivers, updateDrivers(ds),
         UNCHANGED <<mDataItems, mRuns, newest, mCars, offClass, mCarClasses>>
  PROVE  Mends
<1>1. /\ item' \in [Runs -> DataItem] /\ mDrivers' \in [Drivers -> Runs \cup {None, Known}]
      /\ \A r \in Runs : /\ item'[r].row = item[r].row /\ item'[r].ver = item[r].ver
                         /\ item'[r].car = item[r].car /\ item'[r].class = item[r].class
                         /\ item'[r].driver \in {item[r].driver, RunDriver[r]}
                         /\ r \notin mRuns => item'[r] = item[r]
      /\ \A d \in Drivers : mDrivers'[d] = IF d \in ds /\ mDrivers[d] = None THEN Known
                                           ELSE mDrivers[d]
  BY DriversEffect
<1> QED
  BY <1>1, RowTypes DEF Mends

LEMMA CarsMend ==
  ASSUME RowInv, NEW cs \in SUBSET Cars, item' = WithCars(cs), mCars' = KnowCars(cs),
         UNCHANGED <<mDataItems, mRuns, newest, mDrivers, offClass, mCarClasses>>
  PROVE  Mends
<1>1. /\ item' \in [Runs -> DataItem] /\ mCars' \in [Cars -> Runs \cup {None, Known}]
      /\ \A r \in Runs : /\ item'[r].row = item[r].row /\ item'[r].ver = item[r].ver
                         /\ item'[r].driver = item[r].driver /\ item'[r].class = item[r].class
                         /\ item'[r].car \in {item[r].car, RunCar[r]}
                         /\ r \notin mRuns => item'[r] = item[r]
      /\ \A c \in Cars : mCars'[c] = IF c \in cs /\ mCars[c] = None THEN Known ELSE mCars[c]
  BY CarsEffect
<1> QED
  BY <1>1, RowTypes DEF Mends

(* setCars: the cars, and the classes that came before them.               *)
LEMMA CarsAndClassesMend ==
  ASSUME RowInv, NEW cs \in SUBSET Cars, mCars' = KnowCars(cs),
         updateCarClasses(WithCars(cs), mCars', mCarClasses),
         UNCHANGED <<mDataItems, mRuns, newest, mDrivers, mCarClasses>>
  PROVE  /\ Mends
         /\ \A r \in Runs : /\ item'[r].driver = item[r].driver
                            /\ RunCar[r] \in cs /\ mCars[RunCar[r]] = r =>
                                 /\ item'[r].car = RunCar[r]
                                 /\ ClassOf[RunCar[r]] \in mCarClasses =>
                                      item'[r].class = ClassOf[RunCar[r]]
<1> DEFINE items == WithCars(cs)
           cars == KnowCars(cs)
<1>1. /\ items \in [Runs -> DataItem] /\ cars \in [Cars -> Runs \cup {None, Known}]
      /\ \A r \in Runs : /\ items[r].row = item[r].row /\ items[r].ver = item[r].ver
                         /\ items[r].driver = item[r].driver /\ items[r].class = item[r].class
                         /\ items[r].car \in {item[r].car, RunCar[r]}
                         /\ r \notin mRuns => items[r] = item[r]
                         /\ RunCar[r] \in cs /\ mCars[RunCar[r]] = r =>
                              items[r].car = RunCar[r]
      /\ \A c \in Cars : cars[c] = IF c \in cs /\ mCars[c] = None THEN Known ELSE mCars[c]
  BY CarsEffect
<1>2. mCars' = cars /\ updateCarClasses(items, cars, mCarClasses)
  OBVIOUS
<1> HIDE DEF items, cars
<1>3. /\ \A r \in Runs : items[r].car \in {None, RunCar[r]}
      /\ \A c \in Cars, r \in Runs : cars[c] = r => r \in mRuns
      /\ \A r \in Runs : RunCar[r] \in Cars /\ r # None /\ r # Known
  BY <1>1, RowTypes, MapsLeadToRows, TableAssumption
<1>4. mCarClasses \in SUBSET Classes
  BY RowTypes
<1>5. /\ item' \in [Runs -> DataItem] /\ offClass' \in [Cars -> Classes \cup {None}]
      /\ \A r \in Runs : /\ item'[r].row = items[r].row /\ item'[r].ver = items[r].ver
                         /\ item'[r].driver = items[r].driver /\ item'[r].car = items[r].car
                         /\ item'[r].class \in {items[r].class, ClassOf[RunCar[r]]}
                         /\ r \notin mRuns => item'[r] = items[r]
                         /\ /\ cars[RunCar[r]] = r /\ items[r].car = RunCar[r]
                            /\ ClassOf[RunCar[r]] \in mCarClasses
                            => item'[r].class = ClassOf[RunCar[r]]
  BY <1>1, <1>2, <1>3, <1>4, ClassesEffect
<1>6. Mends
  BY <1>1, <1>2, <1>5, RowTypes DEF Mends
<1>7. \A r \in Runs : /\ item'[r].driver = item[r].driver
                      /\ RunCar[r] \in cs /\ mCars[RunCar[r]] = r =>
                           /\ item'[r].car = RunCar[r]
                           /\ ClassOf[RunCar[r]] \in mCarClasses =>
                                item'[r].class = ClassOf[RunCar[r]]
  BY <1>1, <1>3, <1>5
<1> QED
  BY <1>6, <1>7

LEMMA ClassesMend ==
  ASSUME RowInv, NEW classes \in SUBSET Classes, updateCarClasses(item, mCars, classes),
         mCarClasses' \subseteq Classes, mCarClasses \subseteq mCarClasses',
         UNCHANGED <<mDataItems, mRuns, newest, mDrivers, mCars>>
  PROVE  /\ Mends
         /\ \A r \in Runs : /\ item'[r].driver = item[r].driver /\ item'[r].car = item[r].car
                            /\ /\ mCars[RunCar[r]] = r /\ item[r].car = RunCar[r]
                               /\ ClassOf[RunCar[r]] \in classes
                               => item'[r].class = ClassOf[RunCar[r]]
<1>1. /\ \A r \in Runs : item[r].car \in {None, RunCar[r]}
      /\ \A c \in Cars, r \in Runs : mCars[c] = r => r \in mRuns
      /\ item \in [Runs -> DataItem]
  BY RowTypes, MapsLeadToRows
<1>2. /\ item' \in [Runs -> DataItem] /\ offClass' \in [Cars -> Classes \cup {None}]
      /\ \A r \in Runs : /\ item'[r].row = item[r].row /\ item'[r].ver = item[r].ver
                         /\ item'[r].driver = item[r].driver /\ item'[r].car = item[r].car
                         /\ item'[r].class \in {item[r].class, ClassOf[RunCar[r]]}
                         /\ r \notin mRuns => item'[r] = item[r]
                         /\ /\ mCars[RunCar[r]] = r /\ item[r].car = RunCar[r]
                            /\ ClassOf[RunCar[r]] \in classes
                            => item'[r].class = ClassOf[RunCar[r]]
  BY <1>1, ClassesEffect
<1>3. Mends
  BY <1>2, RowTypes DEF Mends
<1> QED
  BY <1>2, <1>3

LEMMA RelatedResultEffect ==
  ASSUME RowInv, NEW j \in jobs, SetRelatedResult(j)
  PROVE  /\ Mends /\ jobs' = jobs \ {j} /\ j.kind # "runs"
         /\ failures' \in 0..MaxFailures /\ (failures' = 0 => failures = 0)
<1>0. mCarClasses \in SUBSET Classes
  BY RowTypes
<1>1. ASSUME NEW drivers \in SUBSET Drivers, setDrivers(j, drivers) PROVE Mends
  BY <1>1, DriversMend DEF setDrivers
<1>2. ASSUME NEW cars \in SUBSET Cars, setCars(j, cars) PROVE Mends
  BY <1>2, CarsAndClassesMend DEF setCars
<1>3. ASSUME NEW carClasses \in SUBSET Classes, setCarClasses(j, carClasses) PROVE Mends
  <2>1. /\ mCarClasses' = mCarClasses \cup carClasses
        /\ mCarClasses' \in SUBSET Classes
        /\ updateCarClasses(item, mCars, mCarClasses')
        /\ UNCHANGED <<mDataItems, mRuns, newest, mDrivers, mCars>>
    BY <1>0, <1>3 DEF setCarClasses
  <2> QED
    BY <2>1, ClassesMend
<1>4. Mends
  BY <1>1, <1>2, <1>3 DEF SetRelatedResult
<1>5. failures' \in 0..MaxFailures /\ (failures' = 0 => failures = 0)
  BY TableAssumption
     DEF RowInv, TypeOK, SetRelatedResult, setDrivers, setCars, setCarClasses, Outcome
<1>6. jobs' = jobs \ {j} /\ j.kind # "runs"
  BY DEF SetRelatedResult, setDrivers, setCars, setCarClasses
<1> QED
  BY <1>4, <1>5, <1>6

LEMMA HeadType ==
  ASSUME RowInv, notifs # <<>>
  PROVE  /\ Head(notifs) \in Notification /\ Tail(notifs) \in Seq(Notification)
         /\ Head(notifs).table = "run" => Head(notifs).id \in Runs /\ Head(notifs).ver \in Versions
         /\ Head(notifs).table = "driver" => Head(notifs).id \in Drivers
         /\ Head(notifs).table = "car" => Head(notifs).id \in Cars
         /\ Head(notifs).table = "car_class" => Head(notifs).id \in Classes
<1>1. Head(notifs) \in Notification /\ Tail(notifs) \in Seq(Notification)
  BY DEF RowInv, TypeOK
<1> QED
  BY <1>1 DEF Notification

LEMMA RelatedNotificationEffect ==
  ASSUME RowInv, notifs # <<>>, RelatedNotification(Head(notifs))
  PROVE  Mends /\ Head(notifs).table # "run"
<1> DEFINE n == Head(notifs)
<1>0. /\ n.table = "driver" => n.id \in Drivers
      /\ n.table = "car" => n.id \in Cars
      /\ n.table = "car_class" => n.id \in Classes
      /\ mCarClasses \in SUBSET Classes /\ item \in [Runs -> DataItem]
      /\ offClass \in [Cars -> Classes \cup {None}]
      /\ mDrivers \in [Drivers -> Runs \cup {None, Known}]
      /\ mCars \in [Cars -> Runs \cup {None, Known}]
  BY HeadType, RowTypes
<1> HIDE DEF n
<1>1. CASE driverNotification(n)
  <2>1. /\ {n.id} \in SUBSET Drivers /\ updateDrivers({n.id})
        /\ UNCHANGED <<mDataItems, mRuns, newest, mCars, offClass, mCarClasses>>
    BY <1>0, <1>1 DEF driverNotification
  <2> QED
    BY <1>1, <2>1, DriversMend DEF driverNotification, n
<1>2. CASE carNotification(n)
  <2>1. /\ {n.id} \in SUBSET Cars /\ item' = WithCars({n.id}) /\ mCars' = KnowCars({n.id})
        /\ UNCHANGED <<mDataItems, mRuns, newest, mDrivers, offClass, mCarClasses>>
    BY <1>0, <1>2 DEF carNotification
  <2> QED
    BY <1>2, <2>1, CarsMend DEF carNotification, n
<1>3. CASE carClassNotification(n)
  <2>1. /\ mCarClasses' \subseteq Classes /\ mCarClasses \subseteq mCarClasses'
        /\ UNCHANGED <<mDataItems, mRuns, newest, mDrivers, mCars>>
        /\ updateCarClasses(item, mCars, mCarClasses) \/ UNCHANGED <<item, offClass>>
    BY <1>0, <1>3 DEF carClassNotification
  <2>2. CASE updateCarClasses(item, mCars, mCarClasses)
    BY <1>0, <1>3, <2>1, <2>2, ClassesMend DEF carClassNotification, n
  <2>3. CASE UNCHANGED <<item, offClass>>
    BY <1>0, <1>3, <2>1, <2>3 DEF Mends, carClassNotification, n
  <2> QED
    BY <2>1, <2>2, <2>3
<1> QED
  BY <1>1, <1>2, <1>3 DEF RelatedNotification, n

-----------------------------------------------------------------------------
(* Layer 1.                                                                *)

(* The part of RowInv that is about the table.                             *)
TableInv ==
  /\ EachRunOnce
  /\ \A r \in Runs \ mRuns : item[r] = NoItem
  /\ MapsAgreeWithRows
  /\ RowsShowTheirOwn
  /\ RowsInMaps
  /\ RowsOfEvent

(* A new row is one of the event's, and shows what the maps know of its    *)
(* driver and of its car, but no class.                                    *)
NewRowsKnow ==
  \A r \in mRuns' \ mRuns :
    /\ RunEvent[r] = mEventId /\ item'[r].class = None
    /\ item'[r].driver = DriverOf(RunDriver[r]) /\ item'[r].car = CarOf(RunCar[r])

LEMMA MendsRows ==
  ASSUME RowInv, Mends, UNCHANGED mEventId PROVE TableInv' /\ NewRowsKnow
<1>0. /\ mRuns \subseteq Runs /\ mRuns' = mRuns /\ mDataItems' = mDataItems
      /\ \A r \in Runs : RunDriver[r] \in Drivers /\ RunCar[r] \in Cars
      /\ None # Known
  BY TableAssumption DEF RowInv, TypeOK, Mends
<1>1. \A i \in DOMAIN mDataItems : mDataItems[i] \in Runs
  BY <1>0 DEF RowInv, MapsAgreeWithRows, ToSet
<1>2. \A i \in DOMAIN mDataItems' : item'[mDataItems'[i]].row = i - 1
  BY <1>0, <1>1 DEF RowInv, MapsAgreeWithRows, Mends
<1>3. /\ \A d \in Drivers : mDrivers'[d] \notin {None, Known} =>
           mDrivers'[d] \in mRuns' /\ RunDriver[mDrivers'[d]] = d
      /\ \A c \in Cars : mCars'[c] \notin {None, Known} =>
           mCars'[c] \in mRuns' /\ RunCar[mCars'[c]] = c
  <2>1. \A d \in Drivers : mDrivers'[d] \notin {None, Known} => mDrivers'[d] = mDrivers[d]
    BY DEF Mends
  <2>2. \A c \in Cars : mCars'[c] \notin {None, Known} => mCars'[c] = mCars[c]
    BY DEF Mends
  <2> QED
    BY <1>0, <2>1, <2>2 DEF RowInv, MapsAgreeWithRows
<1>4. MapsAgreeWithRows'
  BY <1>0, <1>2, <1>3 DEF RowInv, MapsAgreeWithRows
<1>5. RowsShowTheirOwn'
  <2>1. \A r \in mRuns : /\ item'[r].driver \in {item[r].driver, RunDriver[r]}
                         /\ item'[r].car \in {item[r].car, RunCar[r]}
                         /\ item'[r].class \in {item[r].class, ClassOf[RunCar[r]]}
    BY <1>0 DEF Mends
  <2> QED
    BY <1>0, <2>1 DEF RowInv, RowsShowTheirOwn
<1>6. RowsInMaps'
  <2>1. ASSUME NEW r \in mRuns
        PROVE  mDrivers'[RunDriver[r]] \notin {None, Known} /\ mCars'[RunCar[r]] \notin {None, Known}
    <3>1. mDrivers[RunDriver[r]] \notin {None, Known} /\ mCars[RunCar[r]] \notin {None, Known}
      BY DEF RowInv, RowsInMaps
    <3>2. RunDriver[r] \in Drivers /\ RunCar[r] \in Cars
      BY <1>0
    <3> QED
      BY <3>1, <3>2 DEF Mends
  <2> QED
    BY <1>0, <2>1 DEF RowsInMaps
<1>7. RowsOfEvent' /\ EachRunOnce' /\ \A r \in Runs \ mRuns' : item'[r] = NoItem
  BY <1>0 DEF RowInv, RowsOfEvent, EachRunOnce, Mends
<1> QED
  BY <1>0, <1>4, <1>5, <1>6, <1>7 DEF TableInv, NewRowsKnow

LEMMA UpdateRows ==
  ASSUME RowInv, NEW runs \in SUBSET Runs, NEW ver \in [Runs -> Versions],
         updateRuns(runs, ver), UNCHANGED mEventId
  PROVE  TableInv' /\ NewRowsKnow
<1> DEFINE touched == OfThisEvent(runs)
<1>1. touched = OfThisEvent(runs)
  OBVIOUS
<1>2. \A r \in touched : RunEvent[r] = mEventId
  BY DEF OfThisEvent
<1> HIDE DEF touched
<1>3. /\ touched \in SUBSET Runs /\ mRuns' = mRuns \cup touched
      /\ ToSet(mDataItems') = mRuns' /\ EachRunOnce'
      /\ \A i \in DOMAIN mDataItems' : item'[mDataItems'[i]].row = i - 1
      /\ \A r \in Runs :
           /\ r \notin touched => item'[r] = item[r]
           /\ r \in touched =>
                /\ item'[r].ver = ver[r] /\ item'[r].class = item[r].class
                /\ item'[r].driver = DriverForRow(r) /\ item'[r].car = CarForRow(r)
      /\ \A d \in Drivers : IF \E r \in touched : RunDriver[r] = d
           THEN mDrivers'[d] \in touched /\ RunDriver[mDrivers'[d]] = d
           ELSE mDrivers'[d] = mDrivers[d]
      /\ \A c \in Cars : IF \E r \in touched : RunCar[r] = c
           THEN mCars'[c] \in touched /\ RunCar[mCars'[c]] = c
           ELSE mCars'[c] = mCars[c]
  BY <1>1, UpdateEffect
<1>4. /\ mRuns \subseteq Runs
      /\ \A r \in Runs : RunDriver[r] \in Drivers /\ RunCar[r] \in Cars
      /\ \A r \in Runs : r # None /\ r # Known
  BY RowTypes, TableAssumption
<1>5. MapsAgreeWithRows'
  <2>1. \A d \in Drivers : mDrivers'[d] \notin {None, Known} =>
          mDrivers'[d] \in mRuns' /\ RunDriver[mDrivers'[d]] = d
    BY <1>3 DEF RowInv, MapsAgreeWithRows
  <2>2. \A c \in Cars : mCars'[c] \notin {None, Known} =>
          mCars'[c] \in mRuns' /\ RunCar[mCars'[c]] = c
    BY <1>3 DEF RowInv, MapsAgreeWithRows
  <2> QED
    BY <1>3, <2>1, <2>2 DEF MapsAgreeWithRows
<1>6. RowsShowTheirOwn'
  <2>1. \A r \in Runs : /\ item[r].driver \in {None, RunDriver[r]}
                        /\ item[r].car \in {None, RunCar[r]}
                        /\ item[r].class \in {None, ClassOf[RunCar[r]]}
    BY RowTypes
  <2>2. \A r \in Runs : /\ DriverForRow(r) \in {None, RunDriver[r]}
                        /\ CarForRow(r) \in {None, RunCar[r]}
    BY TakenFromMaps
  <2>3. \A r \in Runs : /\ item'[r].driver \in {None, RunDriver[r]}
                        /\ item'[r].car \in {None, RunCar[r]}
                        /\ item'[r].class \in {None, ClassOf[RunCar[r]]}
    BY <1>3, <2>1, <2>2
  <2> QED
    BY <1>3, <1>4, <2>3 DEF RowsShowTheirOwn
<1>7. RowsInMaps'
  <2>1. ASSUME NEW r \in mRuns'
        PROVE  mDrivers'[RunDriver[r]] \notin {None, Known} /\ mCars'[RunCar[r]] \notin {None, Known}
    <3>1. r \in Runs /\ RunDriver[r] \in Drivers /\ RunCar[r] \in Cars
      BY <1>3, <1>4
    <3>2. r \notin touched =>
            mDrivers[RunDriver[r]] \notin {None, Known} /\ mCars[RunCar[r]] \notin {None, Known}
      BY <1>3 DEF RowInv, RowsInMaps
    <3>3. mDrivers'[RunDriver[r]] \notin {None, Known}
      BY <1>3, <1>4, <3>1, <3>2
    <3>4. mCars'[RunCar[r]] \notin {None, Known}
      BY <1>3, <1>4, <3>1, <3>2
    <3> QED
      BY <3>3, <3>4
  <2> QED
    BY <2>1 DEF RowsInMaps
<1>8. RowsOfEvent' /\ \A r \in Runs \ mRuns' : item'[r] = NoItem
  BY <1>2, <1>3 DEF RowInv, RowsOfEvent
<1>9. NewRowsKnow
  <2>1. ASSUME NEW r \in mRuns' \ mRuns
        PROVE  /\ RunEvent[r] = mEventId /\ item'[r].class = None
               /\ item'[r].driver = DriverOf(RunDriver[r]) /\ item'[r].car = CarOf(RunCar[r])
    <3>1. r \in touched /\ r \in Runs /\ r \notin mRuns
      BY <1>3, <2>1
    <3>2. item[r].class = None
      BY <3>1 DEF RowInv, NoItem
    <3>3. DriverForRow(r) = DriverOf(RunDriver[r]) /\ CarForRow(r) = CarOf(RunCar[r])
      BY <3>1, TakenFromMaps
    <3> QED
      BY <1>2, <1>3, <3>1, <3>2, <3>3
  <2> QED
    BY <2>1 DEF NewRowsKnow
<1> QED
  BY <1>3, <1>5, <1>6, <1>7, <1>8, <1>9 DEF TableInv

LEMMA AskType ==
  ASSUME NEW kind \in {"runs", "drivers", "cars", "classes"},
         NEW sel \in 1..MaxSelections, NEW event \in Events
  PROVE  Ask(kind, sel, event) \in Job
<1>1. 0 \in Versions
  BY TableAssumption DEF Versions
<1> QED
  BY <1>1 DEF Ask, Job

LEMMA InitRowInv == Init => RowInv
<1> SUFFICES ASSUME Init PROVE RowInv
  OBVIOUS
<1> USE TableAssumption DEF Init
<1>1. 0 \in Versions /\ 1 \in Versions
  BY DEF Versions
<1>2. Cardinality(Runs) \in Nat
  BY FS_CardinalityType
<1>3. NoItem \in DataItem
  BY <1>1, <1>2 DEF NoItem, DataItem
<1>4. TypeOK
  BY <1>1, <1>3 DEF TypeOK
<1>5. \A r \in Runs : dbRun[r] <= changes + 1
  OBVIOUS
<1>6. MapsAgreeWithRows /\ RowsShowTheirOwn
  BY DEF MapsAgreeWithRows, RowsShowTheirOwn, ToSet
<1>7. EachRunOnce /\ RowsInMaps /\ RowsOfEvent
  BY DEF EachRunOnce, RowsInMaps, RowsOfEvent
<1> QED
  BY <1>4, <1>5, <1>6, <1>7 DEF RowInv

(* A step that leaves the table alone.                                     *)
LEMMA TableKept ==
  ASSUME RowInv, UNCHANGED <<mEventId, rowVars, mapVars>>
  PROVE  TableInv' /\ NewRowsKnow
BY DEF RowInv, TableInv, EachRunOnce, MapsAgreeWithRows, RowsShowTheirOwn, RowsInMaps,
       RowsOfEvent, NewRowsKnow, rowVars, mapVars

(* What another client writes keeps the types, and no version outgrows the *)
(* number of changes.                                                      *)
LEMMA ClientWrites ==
  ASSUME RowInv, Commit,
         TouchRelated \/ \E r \in Runs : InsertRun(r) \/ UpdateRunInDb(r) \/ DeleteRun(r)
  PROVE  /\ dbRun' \in [Runs -> Versions] /\ notifs' \in Seq(Notification)
         /\ \A r \in Runs : dbRun'[r] <= changes + 2
<1>0. /\ dbRun \in [Runs -> Versions] /\ notifs \in Seq(Notification) /\ changes \in Nat
      /\ changes + 1 <= MaxChanges /\ MaxChanges \in Nat
      /\ \A r \in Runs : dbRun[r] \in Int /\ dbRun[r] >= -1 /\ dbRun[r] <= changes + 1
  BY TableAssumption DEF RowInv, TypeOK, Commit, Versions
<1>1. CASE TouchRelated
  <2>1. /\ \A d \in Drivers : [table |-> "driver", id |-> d, ver |-> 0] \in Notification
        /\ \A c \in Cars : [table |-> "car", id |-> c, ver |-> 0] \in Notification
        /\ \A k \in Classes : [table |-> "car_class", id |-> k, ver |-> 0] \in Notification
    BY DEF Notification
  <2>2. PICK n \in Notification : notifs' = Append(notifs, n)
    BY <1>1, <2>1 DEF TouchRelated, Notify
  <2>3. notifs' \in Seq(Notification)
    BY <1>0, <2>2
  <2>4. dbRun' = dbRun
    BY <1>1 DEF TouchRelated
  <2> QED
    BY <1>0, <2>3, <2>4
<1>2. ASSUME NEW r \in Runs, InsertRun(r) \/ UpdateRunInDb(r) \/ DeleteRun(r)
      PROVE  /\ dbRun' \in [Runs -> Versions] /\ notifs' \in Seq(Notification)
             /\ \A s \in Runs : dbRun'[s] <= changes + 2
  <2>1. PICK to \in Versions, ver \in Versions :
          /\ dbRun' = [dbRun EXCEPT ![r] = to] /\ to <= changes + 2
          /\ notifs' = Append(notifs, [table |-> "run", id |-> r, ver |-> ver])
    <3>1. /\ 1 \in Versions /\ -1 \in Versions
          /\ dbRun[r] \in Versions /\ dbRun[r] + 1 \in Versions /\ dbRun[r] + 1 <= changes + 2
          /\ 1 <= changes + 2 /\ -1 <= changes + 2
      BY <1>0 DEF Versions
    <3>2. CASE InsertRun(r)
      BY <3>1, <3>2 DEF InsertRun, Notify
    <3>3. CASE UpdateRunInDb(r)
      BY <1>0, <3>1, <3>3 DEF UpdateRunInDb, Notify
    <3>4. CASE DeleteRun(r)
      BY <3>1, <3>4 DEF DeleteRun, Notify
    <3> QED
      BY <1>2, <3>2, <3>3, <3>4
  <2>2. [table |-> "run", id |-> r, ver |-> ver] \in Notification
    BY DEF Notification
  <2>3. notifs' \in Seq(Notification)
    BY <1>0, <2>1, <2>2
  <2>4. \A s \in Runs : dbRun'[s] <= changes + 2
    BY <1>0, <2>1
  <2> QED
    BY <1>0, <2>1, <2>3, <2>4
<1> QED
  BY <1>1, <1>2

LEMMA ClientRows ==
  ASSUME RowInv, Commit,
         TouchRelated \/ \E r \in Runs : InsertRun(r) \/ UpdateRunInDb(r) \/ DeleteRun(r)
  PROVE  RowInv' /\ NewRowsKnow
<1> USE DEF Commit
<1>0. TypeOK /\ (mEventId = None => jobs = {})
  BY DEF RowInv
<1>1. /\ dbRun' \in [Runs -> Versions] /\ notifs' \in Seq(Notification)
      /\ \A r \in Runs : dbRun'[r] <= changes + 2
  BY ClientWrites
<1>2. changes' = changes + 1 /\ changes' \in 0..MaxChanges
  BY <1>0, TableAssumption DEF TypeOK
<1>3. TypeOK'
  BY <1>0, <1>1, <1>2 DEF TypeOK, rowVars, mapVars
<1>4. \A r \in Runs : dbRun'[r] <= changes' + 1
  BY <1>0, <1>1, <1>2 DEF TypeOK, Versions
<1>5. TableInv' /\ NewRowsKnow
  BY TableKept
<1> QED
  BY <1>0, <1>3, <1>4, <1>5 DEF RowInv, TableInv

LEMMA ReadRows ==
  ASSUME RowInv, ReadRuns PROVE RowInv' /\ NewRowsKnow
<1>0. TypeOK
  BY DEF RowInv
<1>j. PICK j \in jobs : \E snapshot \in {dbRun, [r \in Runs |-> 0]} :
        /\ Outcome(snapshot, dbRun, [r \in Runs |-> 0])
        /\ jobs' = (jobs \ {j}) \cup {[j EXCEPT !.read = TRUE, !.data = snapshot]}
  BY DEF ReadRuns
<1>1. PICK snapshot \in {dbRun, [r \in Runs |-> 0]} :
        /\ jobs' = (jobs \ {j}) \cup {[j EXCEPT !.read = TRUE, !.data = snapshot]}
        /\ Outcome(snapshot, dbRun, [r \in Runs |-> 0])
  BY <1>j
<1>2. snapshot \in [Runs -> Versions]
  <2>1. 0 \in Versions
    BY TableAssumption DEF Versions
  <2>2. dbRun \in [Runs -> Versions] /\ [r \in Runs |-> 0] \in [Runs -> Versions]
    BY <1>0, <2>1 DEF TypeOK
  <2> QED
    BY <1>1, <2>2
<1>3. j \in Job
  BY <1>0 DEF TypeOK
<1>4. [j EXCEPT !.read = TRUE, !.data = snapshot] \in Job
  BY <1>2, <1>3 DEF Job
<1>5. failures' \in 0..MaxFailures
  BY <1>0, <1>1, TableAssumption DEF Outcome, TypeOK
<1>6. UNCHANGED <<dbRun, changes, notifs, selections, mEventId, rowVars, mapVars>>
  BY DEF ReadRuns, dbVars
<1>7. TypeOK'
  BY <1>0, <1>1, <1>4, <1>5, <1>6 DEF TypeOK, rowVars, mapVars
<1>8. TableInv' /\ NewRowsKnow
  BY <1>6, TableKept
<1>9. /\ \A r \in Runs : dbRun'[r] <= changes' + 1
      /\ mEventId' = None => jobs' = {}
  BY <1>6 DEF RowInv
<1> QED
  BY <1>7, <1>8, <1>9 DEF RowInv, TableInv

LEMMA SelectRows ==
  ASSUME RowInv, NEW e \in Events, setEventId(e) PROVE RowInv' /\ NewRowsKnow
<1> USE DEF setEventId, reset
<1>0. TypeOK
  BY DEF RowInv
<1>1. selections' \in 1..MaxSelections /\ selections' # selections
  BY <1>0, TableAssumption DEF TypeOK
<1>2. Ask("runs", selections', e) \in Job
  BY <1>1, AskType
<1>3. NoItem \in DataItem /\ 0 \in Versions
  <2>1. Cardinality(Runs) \in Nat
    BY TableAssumption, FS_CardinalityType
  <2> QED
    BY <2>1, TableAssumption DEF NoItem, DataItem, Versions
<1>4. TypeOK'
  BY <1>0, <1>1, <1>2, <1>3, TableAssumption DEF TypeOK, dbVars
<1>5. MapsAgreeWithRows' /\ RowsShowTheirOwn' /\ EachRunOnce' /\ RowsInMaps' /\ RowsOfEvent'
  BY DEF MapsAgreeWithRows, RowsShowTheirOwn, ToSet, EachRunOnce, RowsInMaps, RowsOfEvent
<1>6. \A r \in Runs \ mRuns' : item'[r] = NoItem
  OBVIOUS
<1>7. \A r \in Runs : dbRun'[r] <= changes' + 1
  BY DEF RowInv, dbVars
<1>8. mEventId' # None
  BY TableAssumption
<1>9. NewRowsKnow
  BY <1>1 DEF NewRowsKnow
<1> QED
  BY <1>4, <1>5, <1>6, <1>7, <1>8, <1>9 DEF RowInv

(* The runs a result holds, and the data of any result.                    *)
LEMMA ResultType ==
  ASSUME RowInv, NEW j \in jobs
  PROVE  /\ {r \in Runs : j.data[r] > 0} \in SUBSET Runs /\ j.data \in [Runs -> Versions]
         /\ mEventId \in Events /\ j.sel \in 1..MaxSelections
<1>1. j \in Job
  BY DEF RowInv, TypeOK
<1> QED
  BY <1>1 DEF RowInv, TypeOK, Job

LEMMA SetRunsRows ==
  ASSUME RowInv, NEW j \in jobs, setRuns(j),
         UNCHANGED <<dbVars, notifs, selections, mEventId>>
  PROVE  RowInv' /\ NewRowsKnow
<1>0. TypeOK
  BY DEF RowInv
<1> DEFINE runs == {r \in Runs : j.data[r] > 0}
<1>1. runs \in SUBSET Runs /\ updateRuns(runs, j.data)
  BY DEF setRuns
<1> HIDE DEF runs
<1>2. j.data \in [Runs -> Versions] /\ mEventId \in Events /\ j.sel \in 1..MaxSelections
  BY ResultType
<1>3. TableInv' /\ NewRowsKnow
  BY <1>1, <1>2, UpdateRows
<1>4. /\ mDataItems' \in Seq(Runs) /\ mRuns' \subseteq Runs /\ item' \in [Runs -> DataItem]
      /\ mDrivers' \in [Drivers -> Runs \cup {None, Known}]
      /\ mCars' \in [Cars -> Runs \cup {None, Known}]
      /\ newest' \in [Runs -> Versions]
  <2> DEFINE touched == OfThisEvent(runs)
  <2>1. touched = OfThisEvent(runs)
    OBVIOUS
  <2> HIDE DEF touched
  <2>2. /\ touched \in SUBSET Runs /\ mRuns' = mRuns \cup touched
        /\ mDataItems' \in Seq(Runs) /\ item' \in [Runs -> DataItem]
        /\ mDrivers' \in [Drivers -> Runs \cup {None, Known}]
        /\ mCars' \in [Cars -> Runs \cup {None, Known}]
        /\ newest' \in [Runs -> Versions]
    BY <1>1, <1>2, <2>1, UpdateEffect
  <2> QED
    BY <1>0, <2>2 DEF TypeOK
<1>5. jobs' \subseteq Job
  <2>1. \A k \in {"drivers", "cars", "classes"} : Ask(k, j.sel, mEventId) \in Job
    BY <1>2, AskType
  <2> QED
    BY <1>0, <2>1 DEF setRuns, TypeOK
<1>6. /\ UNCHANGED <<dbRun, changes, notifs, failures, selections, mEventId>>
      /\ UNCHANGED <<offClass, mCarClasses>>
  BY DEF setRuns, dbVars
<1>7. TypeOK'
  BY <1>0, <1>4, <1>5, <1>6 DEF TypeOK
<1>8. /\ \A r \in Runs : dbRun'[r] <= changes' + 1
      /\ mEventId' = None => jobs' = {}
  BY <1>2, <1>6, TableAssumption DEF RowInv
<1> QED
  BY <1>3, <1>7, <1>8 DEF RowInv, TableInv

(* What Mends leaves of the types.                                         *)
LEMMA MendsType ==
  ASSUME RowInv, Mends, UNCHANGED <<dbRun, changes, selections, mEventId>>,
         notifs' \in Seq(Notification), jobs' \subseteq jobs, failures' \in 0..MaxFailures
  PROVE  RowInv' /\ NewRowsKnow
<1>1. TypeOK'
  BY DEF RowInv, TypeOK, Mends
<1>2. TableInv' /\ NewRowsKnow
  BY MendsRows
<1> QED
  BY <1>1, <1>2 DEF RowInv, TableInv

LEMMA ResultRows ==
  ASSUME RowInv, DeliverResult PROVE RowInv' /\ NewRowsKnow
<1>1. PICK j \in jobs : setRuns(j) \/ SetRelatedResult(j)
  BY DEF DeliverResult, SetRelatedResult
<1>2. UNCHANGED <<dbRun, changes, notifs, selections, mEventId>>
  BY DEF DeliverResult, dbVars
<1>3. CASE setRuns(j)
  BY <1>2, <1>3, SetRunsRows DEF dbVars
<1>4. CASE SetRelatedResult(j)
  <2>1. Mends /\ jobs' = jobs \ {j} /\ failures' \in 0..MaxFailures
    BY <1>4, RelatedResultEffect
  <2>2. notifs' \in Seq(Notification)
    BY <1>2 DEF RowInv, TypeOK
  <2> QED
    BY <1>2, <2>1, <2>2, MendsType
<1> QED
  BY <1>1, <1>3, <1>4

LEMMA NotificationRows ==
  ASSUME RowInv, DeliverNotification PROVE RowInv' /\ NewRowsKnow
<1>0. TypeOK
  BY DEF RowInv
<1> DEFINE n == Head(notifs)
<1>1. /\ notifs # <<>> /\ notifs' = Tail(notifs)
      /\ runNotification(n) \/ RelatedNotification(n)
      /\ UNCHANGED <<dbRun, changes, jobs, failures, selections, mEventId>>
  BY DEF DeliverNotification, RelatedNotification, dbVars
<1>2. /\ notifs' \in Seq(Notification)
      /\ n.table = "run" => n.id \in Runs /\ n.ver \in Versions
  BY <1>1, HeadType
<1>3. failures' \in 0..MaxFailures
  BY <1>0, <1>1 DEF TypeOK
<1>4. CASE RelatedNotification(n)
  <2>1. Mends
    BY <1>1, <1>4, RelatedNotificationEffect
  <2> QED
    BY <1>1, <1>2, <1>3, <2>1, MendsType
<1> HIDE DEF n
<1>5. CASE runNotification(n)
  <2> DEFINE ver == [r \in Runs |-> n.ver]
             runs == {n.id}
  <2>1. /\ updateRuns(runs, ver) /\ UNCHANGED <<offClass, mCarClasses>>
        /\ ver \in [Runs -> Versions] /\ runs \in SUBSET Runs
    BY <1>2, <1>5 DEF runNotification
  <2> HIDE DEF ver, runs
  <2>2. TableInv' /\ NewRowsKnow
    BY <1>1, <2>1, UpdateRows
  <2> DEFINE touched == OfThisEvent(runs)
  <2>3. touched = OfThisEvent(runs)
    OBVIOUS
  <2> HIDE DEF touched
  <2>4. /\ touched \in SUBSET Runs /\ mRuns' = mRuns \cup touched
        /\ mDataItems' \in Seq(Runs) /\ item' \in [Runs -> DataItem]
        /\ mDrivers' \in [Drivers -> Runs \cup {None, Known}]
        /\ mCars' \in [Cars -> Runs \cup {None, Known}]
        /\ newest' \in [Runs -> Versions]
    BY <2>1, <2>3, UpdateEffect
  <2>5. TypeOK'
    BY <1>0, <1>1, <1>2, <1>3, <2>1, <2>4 DEF TypeOK
  <2> QED
    BY <1>1, <2>2, <2>5 DEF RowInv, TableInv
<1> QED
  BY <1>1, <1>4, <1>5

LEMMA NextRows ==
  ASSUME RowInv, [Next]_vars PROVE RowInv' /\ NewRowsKnow
<1>1. ASSUME NEW r \in Runs, InsertRun(r) \/ UpdateRunInDb(r) \/ DeleteRun(r)
      PROVE  RowInv' /\ NewRowsKnow
  BY <1>1, ClientRows DEF InsertRun, UpdateRunInDb, DeleteRun
<1>2. CASE TouchRelated
  BY <1>2, ClientRows DEF TouchRelated
<1>3. CASE ReadRuns
  BY <1>3, ReadRows
<1>4. ASSUME NEW e \in Events, setEventId(e) PROVE RowInv' /\ NewRowsKnow
  BY <1>4, SelectRows
<1>5. CASE DeliverResult
  BY <1>5, ResultRows
<1>6. CASE DeliverNotification
  BY <1>6, NotificationRows
<1>7. CASE UNCHANGED vars
  <2>1. /\ UNCHANGED <<dbRun, changes, notifs, jobs, failures, selections, mEventId>>
        /\ UNCHANGED <<mEventId, rowVars, mapVars>>
    BY <1>7 DEF vars, rowVars, mapVars
  <2>2. TypeOK'
    BY <1>7 DEF RowInv, TypeOK, vars
  <2>3. TableInv' /\ NewRowsKnow
    BY <2>1, TableKept
  <2> QED
    BY <2>1, <2>2, <2>3 DEF RowInv, TableInv
<1> QED
  BY <1>1, <1>2, <1>3, <1>4, <1>5, <1>6, <1>7 DEF Next

(* Rows, items and maps describe the same table in every reachable state,  *)
(* however selections, results and notifications interleave.               *)
THEOREM RowInvariant == Spec => []RowInv
<1>1. RowInv /\ [Next]_vars => RowInv'
  BY NextRows
<1> QED
  BY InitRowInv, <1>1, PTL DEF Spec

(* Every variable of the run table keeps its type.                         *)
THEOREM TypeCorrect == Spec => []TypeOK
<1>1. RowInv => TypeOK
  BY DEF RowInv
<1> QED
  BY RowInvariant, <1>1, PTL

(* Each run has one row whose DataItem knows its row number, and the maps  *)
(* of drivers and cars never lead to a row of another driver or car or to  *)
(* one that a reset has removed.                                           *)
THEOREM MapsLeadToLiveRows == Spec => []MapsAgreeWithRows
<1>1. RowInv => MapsAgreeWithRows
  BY DEF RowInv
<1> QED
  BY RowInvariant, <1>1, PTL

(* No row ever shows the driver, the car or the class of another run,      *)
(* although rows copy the pointers from the DataItems of other rows.       *)
THEOREM RowsNeverMixUp == Spec => []RowsShowTheirOwn
<1>1. RowInv => RowsShowTheirOwn
  BY DEF RowInv
<1> QED
  BY RowInvariant, <1>1, PTL

-----------------------------------------------------------------------------
(* Layer 2.                                                                *)

LEMMA NewsTypes ==
  ASSUME RowInv
  PROVE  /\ News \subseteq Notification
         /\ \A n \in News : n.table = "run" /\ n.id \in Runs /\ n.ver \in Int
         /\ \A r \in Runs : dbRun[r] \in Int /\ newest[r] \in Int /\ item[r].ver \in Int
         /\ \A j \in jobs : \A r \in Runs : j.data[r] \in Int
         /\ DOMAIN notifs = 1..Len(notifs) /\ Len(notifs) \in Nat
         /\ \A i \in DOMAIN notifs : notifs[i] \in ToSet(notifs)
         /\ \A i \in DOMAIN notifs : notifs[i].table = "run" => notifs[i].id \in Runs
<1>0. TypeOK /\ Versions \subseteq Int
  BY DEF RowInv, Versions
<1>1. ToSet(notifs) \subseteq Notification /\ \A i \in DOMAIN notifs : notifs[i] \in ToSet(notifs)
  BY <1>0 DEF TypeOK, ToSet
<1>2. \A n \in ToSet(notifs) : n.table = "run" => n.id \in Runs /\ n.ver \in Int
  BY <1>0, <1>1 DEF Notification
<1>3. \A j \in jobs : \A r \in Runs : j.data[r] \in Int
  BY <1>0 DEF TypeOK, Job
<1>4. \A r \in Runs : dbRun[r] \in Int /\ newest[r] \in Int /\ item[r].ver \in Int
  BY <1>0 DEF TypeOK, DataItem
<1>5. DOMAIN notifs = 1..Len(notifs) /\ Len(notifs) \in Nat
  BY <1>0 DEF TypeOK
<1> QED
  BY <1>1, <1>2, <1>3, <1>4, <1>5 DEF News

(* Taking a notification from the front keeps the commit order; if it was  *)
(* of a run, that run's current version has come with it or comes later.   *)
LEMMA TakeNews ==
  ASSUME RowInv, CurrentLast, notifs # <<>>, notifs' = Tail(notifs), UNCHANGED dbRun
  PROVE  /\ CurrentLast' /\ News' \subseteq News
         /\ \A n \in News : n = Head(notifs) \/ n \in News'
         /\ Head(notifs).table = "run" => Head(notifs) \in News
         /\ Head(notifs).table = "run" /\ dbRun[Head(notifs).id] > 0 =>
              \/ Head(notifs).ver = dbRun[Head(notifs).id]
              \/ \E n \in News' : n.id = Head(notifs).id /\ n.ver = dbRun[Head(notifs).id]
<1> DEFINE tail == Tail(notifs)
<1>1. notifs \in Seq(Notification)
  BY DEF RowInv, TypeOK
<1>2. /\ Len(notifs) \in Nat /\ DOMAIN notifs = 1..Len(notifs) /\ 1 \in DOMAIN notifs
      /\ Head(notifs) = notifs[1]
      /\ DOMAIN tail = 1..(Len(notifs) - 1)
      /\ \A i \in 1..(Len(notifs) - 1) : tail[i] = notifs[i + 1]
  BY <1>1, HeadTailProperties, EmptySeq
<1>3. Head(notifs) \in ToSet(notifs) /\ ToSet(notifs) = {Head(notifs)} \cup ToSet(tail)
  BY <1>1, TailElements
<1>4. notifs' = tail
  OBVIOUS
<1> HIDE DEF tail
<1>5. News' = {n \in ToSet(tail) : n.table = "run"}
  BY <1>4 DEF News
<1>6. \A k \in DOMAIN notifs : k # 1 =>
        k - 1 \in DOMAIN tail /\ tail[k - 1] = notifs[k] /\ tail[k - 1] \in ToSet(tail)
  <2>1. \A k \in DOMAIN notifs : k # 1 => k - 1 \in 1..(Len(notifs) - 1) /\ (k - 1) + 1 = k
    BY <1>2
  <2>2. \A i \in DOMAIN tail : tail[i] \in ToSet(tail)
    BY DEF ToSet
  <2> QED
    BY <1>2, <2>1, <2>2
<1>7. \A i \in DOMAIN notifs : notifs[i].table = "run" /\ dbRun[notifs[i].id] > 0 =>
        \E k \in DOMAIN notifs : /\ i <= k /\ notifs[k].table = "run"
                                 /\ notifs[k].id = notifs[i].id
                                 /\ notifs[k].ver = dbRun[notifs[i].id]
  BY DEF CurrentLast
<1>8. ASSUME NEW i \in DOMAIN tail, tail[i].table = "run", dbRun[tail[i].id] > 0
      PROVE  \E k \in DOMAIN tail : /\ i <= k /\ tail[k].table = "run"
                                    /\ tail[k].id = tail[i].id
                                    /\ tail[k].ver = dbRun[tail[i].id]
  <2>1. i \in Nat /\ i + 1 \in DOMAIN notifs /\ tail[i] = notifs[i + 1] /\ i >= 1
    BY <1>2
  <2>2. PICK k \in DOMAIN notifs : /\ i + 1 <= k /\ notifs[k].table = "run"
                                   /\ notifs[k].id = tail[i].id
                                   /\ notifs[k].ver = dbRun[tail[i].id]
    BY <1>7, <1>8, <2>1
  <2>3. k \in Nat /\ k # 1 /\ i <= k - 1
    BY <1>2, <2>1, <2>2
  <2> QED
    BY <1>6, <2>2, <2>3
<1>9. CurrentLast'
  <2>1. dbRun' = dbRun
    OBVIOUS
  <2>2. \A i \in DOMAIN notifs' : notifs'[i].table = "run" /\ dbRun'[notifs'[i].id] > 0 =>
          \E k \in DOMAIN notifs' : /\ i <= k /\ notifs'[k].table = "run"
                                    /\ notifs'[k].id = notifs'[i].id
                                    /\ notifs'[k].ver = dbRun'[notifs'[i].id]
    <3>1. \A i \in DOMAIN tail : tail[i].table = "run" /\ dbRun[tail[i].id] > 0 =>
            \E k \in DOMAIN tail : /\ i <= k /\ tail[k].table = "run"
                                  /\ tail[k].id = tail[i].id
                                  /\ tail[k].ver = dbRun[tail[i].id]
      BY <1>8
    <3> QED
      BY ONLY <1>4, <2>1, <3>1
  <2> QED
    BY <2>2 DEF CurrentLast
<1>10. ASSUME Head(notifs).table = "run", dbRun[Head(notifs).id] > 0
       PROVE  \/ Head(notifs).ver = dbRun[Head(notifs).id]
              \/ \E n \in News' : n.id = Head(notifs).id /\ n.ver = dbRun[Head(notifs).id]
  <2>1. PICK k \in DOMAIN notifs : /\ notifs[k].table = "run"
                                   /\ notifs[k].id = Head(notifs).id
                                   /\ notifs[k].ver = dbRun[Head(notifs).id]
    BY <1>2, <1>7, <1>10
  <2>2. CASE k = 1
    BY <1>2, <2>1, <2>2
  <2>3. CASE k # 1
    BY <1>5, <1>6, <2>1, <2>3
  <2> QED
    BY <2>2, <2>3
<1>11. /\ News' \subseteq News /\ \A n \in News : n = Head(notifs) \/ n \in News'
       /\ Head(notifs).table = "run" => Head(notifs) \in News
  BY <1>3, <1>5 DEF News
<1> QED
  BY <1>9, <1>10, <1>11

(* A commit adds its notification at the end, where it is of the current   *)
(* version of its run, unless it deletes the run.                          *)
LEMMA AddNews ==
  ASSUME RowInv, CurrentLast, NEW n \in Notification, notifs' = Append(notifs, n),
         dbRun' \in [Runs -> Versions],
         \A s \in Runs : (n.table # "run" \/ s # n.id) => dbRun'[s] = dbRun[s],
         n.table = "run" /\ dbRun'[n.id] > 0 => n.ver = dbRun'[n.id]
  PROVE  /\ CurrentLast' /\ News \subseteq News'
         /\ \A m \in News' : m \in News \/ (m = n /\ n.table = "run")
         /\ n.table = "run" => n \in News'
<1> DEFINE all == Append(notifs, n)
<1>1. notifs \in Seq(Notification)
  BY DEF RowInv, TypeOK
<1>2. /\ Len(notifs) \in Nat /\ DOMAIN notifs = 1..Len(notifs)
      /\ DOMAIN all = 1..(Len(notifs) + 1)
      /\ \A i \in 1..Len(notifs) : all[i] = notifs[i]
      /\ all[Len(notifs) + 1] = n
  BY <1>1, AppendProperties
<1>3. ToSet(all) = ToSet(notifs) \cup {n}
  BY <1>1, AppendElements
<1>4. notifs' = all
  OBVIOUS
<1> HIDE DEF all
<1>5. \A i \in DOMAIN notifs : i \in DOMAIN all /\ i <= Len(notifs) + 1
  BY <1>2
<1>6. Len(notifs) + 1 \in DOMAIN all /\ \A i \in DOMAIN all : i \in DOMAIN notifs \/ i = Len(notifs) + 1
  BY <1>2
<1>7. \A i \in DOMAIN notifs : notifs[i].table = "run" => notifs[i].id \in Runs
  BY NewsTypes
<1>8. ASSUME NEW i \in DOMAIN all, all[i].table = "run", dbRun'[all[i].id] > 0
      PROVE  \E k \in DOMAIN all : /\ i <= k /\ all[k].table = "run"
                                   /\ all[k].id = all[i].id
                                   /\ all[k].ver = dbRun'[all[i].id]
  <2>1. i <= Len(notifs) + 1 /\ Len(notifs) + 1 \in DOMAIN all
    BY <1>2, <1>6
  <2>2. CASE n.table = "run" /\ all[i].id = n.id
    BY <1>2, <1>8, <2>1, <2>2
  <2>3. CASE ~ (n.table = "run" /\ all[i].id = n.id)
    <3>1. i \in DOMAIN notifs /\ all[i] = notifs[i]
      BY <1>2, <1>6, <1>8, <2>3
    <3>2. dbRun'[notifs[i].id] = dbRun[notifs[i].id]
      BY <1>7, <1>8, <2>3, <3>1
    <3>3. PICK k \in DOMAIN notifs : /\ i <= k /\ notifs[k].table = "run"
                                     /\ notifs[k].id = notifs[i].id
                                     /\ notifs[k].ver = dbRun[notifs[i].id]
      BY <1>8, <3>1, <3>2 DEF CurrentLast
    <3> QED
      BY <1>2, <1>5, <3>1, <3>2, <3>3
  <2> QED
    BY <2>2, <2>3
<1>9. CurrentLast'
  <2>1. \A i \in DOMAIN notifs' : notifs'[i].table = "run" /\ dbRun'[notifs'[i].id] > 0 =>
          \E k \in DOMAIN notifs' : /\ i <= k /\ notifs'[k].table = "run"
                                    /\ notifs'[k].id = notifs'[i].id
                                    /\ notifs'[k].ver = dbRun'[notifs'[i].id]
    BY <1>4, <1>8
  <2> QED
    BY <2>1 DEF CurrentLast
<1>10. /\ News \subseteq News' /\ \A m \in News' : m \in News \/ (m = n /\ n.table = "run")
       /\ n.table = "run" => n \in News'
  BY <1>3, <1>4 DEF News
<1> QED
  BY <1>9, <1>10

LEMMA InitNewsInv == Init => NewsInv
<1> SUFFICES ASSUME Init PROVE NewsInv
  OBVIOUS
<1> USE DEF Init
<1>1. News = {} /\ CurrentLast
  BY DEF News, CurrentLast, ToSet
<1>2. \A r \in Runs : item[r].ver = 0 /\ newest[r] = 0
  BY DEF NoItem
<1>3. NothingNewer
  BY <1>1, <1>2 DEF NothingNewer
<1>4. \A r \in Runs : ~ Live(r)
  BY TableAssumption DEF Live
<1> QED
  BY <1>1, <1>3, <1>4 DEF NewsInv

(* Only the version of one run changes, and its notification is added.     *)
LEMMA ClientNews ==
  ASSUME RowInv, NewsInv, Commit,
         TouchRelated \/ \E r \in Runs : InsertRun(r) \/ UpdateRunInDb(r) \/ DeleteRun(r)
  PROVE  NewsInv'
<1>0. /\ UNCHANGED <<jobs, failures, selections, mEventId>>
      /\ UNCHANGED <<mDataItems, mRuns, item, newest>>
  BY DEF Commit, rowVars
<1>1. dbRun' \in [Runs -> Versions] /\ dbRun \in [Runs -> Versions]
  BY ClientWrites DEF RowInv, TypeOK
<1>2. PICK n \in Notification :
        /\ notifs' = Append(notifs, n)
        /\ \A s \in Runs : (n.table # "run" \/ s # n.id) => dbRun'[s] = dbRun[s]
        /\ n.table = "run" =>
             /\ n.id \in Runs /\ dbRun[n.id] >= 0
             /\ dbRun'[n.id] # -1 => dbRun'[n.id] = dbRun[n.id] + 1 /\ n.ver = dbRun'[n.id]
  <2>1. CASE TouchRelated
    <3>1. /\ \A d \in Drivers : [table |-> "driver", id |-> d, ver |-> 0] \in Notification
          /\ \A c \in Cars : [table |-> "car", id |-> c, ver |-> 0] \in Notification
          /\ \A k \in Classes : [table |-> "car_class", id |-> k, ver |-> 0] \in Notification
      BY DEF Notification
    <3>2. PICK n \in Notification : notifs' = Append(notifs, n) /\ n.table # "run"
      BY <2>1, <3>1 DEF TouchRelated, Notify
    <3> QED
      BY <2>1, <3>2 DEF TouchRelated
  <2>2. ASSUME NEW r \in Runs, InsertRun(r) \/ UpdateRunInDb(r) \/ DeleteRun(r)
        PROVE  \E n \in Notification :
                 /\ notifs' = Append(notifs, n)
                 /\ \A s \in Runs : (n.table # "run" \/ s # n.id) => dbRun'[s] = dbRun[s]
                 /\ n.table = "run" =>
                      /\ n.id \in Runs /\ dbRun[n.id] >= 0
                      /\ dbRun'[n.id] # -1 =>
                           dbRun'[n.id] = dbRun[n.id] + 1 /\ n.ver = dbRun'[n.id]
    <3>1. dbRun[r] \in Versions /\ dbRun[r] \in Int /\ 1 \in Versions
      BY <1>1, TableAssumption DEF Versions
    <3>2. PICK to \in Versions, ver \in Versions :
            /\ dbRun' = [dbRun EXCEPT ![r] = to] /\ dbRun[r] >= 0
            /\ to # -1 => to = dbRun[r] + 1 /\ ver = to
            /\ notifs' = Append(notifs, [table |-> "run", id |-> r, ver |-> ver])
      <4>1. CASE InsertRun(r)
        <5>1. dbRun[r] = 0 /\ 1 = dbRun[r] + 1
          BY <4>1 DEF InsertRun
        <5>2. /\ dbRun' = [dbRun EXCEPT ![r] = 1]
              /\ notifs' = Append(notifs, [table |-> "run", id |-> r, ver |-> 1])
          BY <4>1 DEF InsertRun, Notify
        <5> USE <3>1
        <5> WITNESS 1 \in Versions, 1 \in Versions
        <5> QED
          BY <5>1, <5>2
      <4>2. CASE UpdateRunInDb(r)
        <5>1. dbRun' = [dbRun EXCEPT ![r] = dbRun[r] + 1] /\ dbRun[r] > 0
          BY <1>1, <4>2 DEF UpdateRunInDb
        <5>2. dbRun[r] + 1 \in Versions
          BY <1>1, <5>1
        <5>3. notifs' = Append(notifs, [table |-> "run", id |-> r, ver |-> dbRun[r] + 1])
          BY <4>2 DEF UpdateRunInDb, Notify
        <5>4. dbRun[r] >= 0
          BY <3>1, <5>1
        <5> USE <5>2
        <5> WITNESS dbRun[r] + 1 \in Versions, dbRun[r] + 1 \in Versions
        <5> QED
          BY <5>1, <5>3, <5>4
      <4>3. CASE DeleteRun(r)
        <5>1. -1 \in Versions
          BY TableAssumption DEF Versions
        <5>2. /\ dbRun' = [dbRun EXCEPT ![r] = -1] /\ dbRun[r] > 0
              /\ notifs' = Append(notifs, [table |-> "run", id |-> r, ver |-> dbRun[r]])
          BY <4>3 DEF DeleteRun, Notify
        <5>3. dbRun[r] >= 0
          BY <3>1, <5>2
        <5> USE <3>1, <5>1
        <5> WITNESS -1 \in Versions, dbRun[r] \in Versions
        <5> QED
          BY <5>2, <5>3
      <4> QED
        BY <2>2, <4>1, <4>2, <4>3
    <3> DEFINE n == [table |-> "run", id |-> r, ver |-> ver]
    <3>3. n \in Notification /\ n.table = "run" /\ n.id = r /\ n.ver = ver
      BY DEF Notification
    <3>4. notifs' = Append(notifs, n)
      BY <3>2
    <3> HIDE DEF n
    <3>5. dbRun'[r] = to /\ \A s \in Runs : s # r => dbRun'[s] = dbRun[s]
      BY <1>1, <3>2
    <3> QED
      BY <3>2, <3>3, <3>4, <3>5
  <2> QED
    BY <2>1, <2>2
<1>3. \A r \in Runs : dbRun[r] \in Int /\ dbRun'[r] \in Int /\ dbRun'[r] >= -1
  BY <1>1 DEF Versions
<1>4. n.table = "run" /\ dbRun'[n.id] > 0 => n.ver = dbRun'[n.id]
  BY <1>2, <1>3
<1>5. /\ CurrentLast' /\ News \subseteq News'
      /\ \A m \in News' : m \in News \/ (m = n /\ n.table = "run")
      /\ n.table = "run" => n \in News'
  <2>1. CurrentLast
    BY DEF NewsInv
  <2> QED
    BY <1>1, <1>2, <1>4, <2>1, AddNews
<1>6. NothingNewer'
  <2>1. ASSUME NEW r \in Runs, dbRun'[r] >= 0
        PROVE  /\ newest[r] <= dbRun'[r]
               /\ \A j \in jobs : j.data[r] <= dbRun'[r]
               /\ \A m \in News' : m.id = r => m.ver <= dbRun'[r]
    <3>1. dbRun[r] >= 0 /\ dbRun[r] <= dbRun'[r]
      BY <1>2, <1>3, <2>1
    <3>2. /\ newest[r] <= dbRun[r]
          /\ \A j \in jobs : j.data[r] <= dbRun[r]
          /\ \A m \in News : m.id = r => m.ver <= dbRun[r]
      BY <3>1 DEF NewsInv, NothingNewer
    <3>3. newest[r] <= dbRun'[r] /\ \A j \in jobs : j.data[r] <= dbRun'[r]
      BY <1>3, <3>1, <3>2, NewsTypes
    <3>4. \A m \in News : m.id = r => m.ver <= dbRun'[r]
      BY <1>3, <3>1, <3>2, NewsTypes
    <3>5. n.table = "run" /\ n.id = r => n.ver <= dbRun'[r]
      BY <1>2, <1>3, <2>1
    <3> QED
      BY <1>5, <3>3, <3>4, <3>5
  <2> QED
    BY <1>0, <2>1 DEF NewsInv, NothingNewer
<1>7. ASSUME NEW r \in Runs, Live(r)', Live(r) => Heard(r) PROVE Heard(r)'
  <2>1. CASE n.table = "run" /\ n.id = r
    BY <1>4, <1>5, <1>7, <2>1 DEF Live, Heard
  <2>2. CASE ~ (n.table = "run" /\ n.id = r)
    <3>1. dbRun'[r] = dbRun[r]
      BY <1>2, <2>2
    <3>2. Heard(r)
      BY <1>0, <1>7, <3>1 DEF Live
    <3> QED
      BY <1>0, <1>5, <3>1, <3>2 DEF Heard
  <2> QED
    BY <2>1, <2>2
<1>8. Asked' = Asked /\ \A r \in Runs : Found(r)' = Found(r)
  BY <1>0 DEF Asked, Found
<1>9. failures' = 0 => \A r \in Runs : Live(r)' => Heard(r)' \/ Asked'
  BY <1>0, <1>7, <1>8 DEF NewsInv
<1>10. selections' = 1 => \A r \in Runs : Live(r)' /\ (r \in mRuns' \/ Found(r)') => Heard(r)'
  BY <1>0, <1>7, <1>8 DEF NewsInv
<1>11. selections' = 0 => mEventId' = None
  BY <1>0 DEF NewsInv
<1> QED
  BY <1>5, <1>6, <1>9, <1>10, <1>11 DEF NewsInv

(* A query that does not fail has read the current versions.               *)
LEMMA ReadNews ==
  ASSUME RowInv, NewsInv, ReadRuns PROVE NewsInv'
<1>0. /\ UNCHANGED <<dbRun, changes, notifs, selections, mEventId>>
      /\ UNCHANGED <<mDataItems, mRuns, item, newest>>
  BY DEF ReadRuns, dbVars, rowVars
<1>j. PICK j \in jobs : \E snapshot \in {dbRun, [r \in Runs |-> 0]} :
        /\ j.kind = "runs" /\ ~j.read
        /\ Outcome(snapshot, dbRun, [r \in Runs |-> 0])
        /\ jobs' = (jobs \ {j}) \cup {[j EXCEPT !.read = TRUE, !.data = snapshot]}
  BY DEF ReadRuns
<1>1. PICK snapshot \in {dbRun, [r \in Runs |-> 0]} :
        /\ j.kind = "runs" /\ ~j.read
        /\ jobs' = (jobs \ {j}) \cup {[j EXCEPT !.read = TRUE, !.data = snapshot]}
        /\ Outcome(snapshot, dbRun, [r \in Runs |-> 0])
  BY <1>j
<1> DEFINE done == [j EXCEPT !.read = TRUE, !.data = snapshot]
<1>2. done.kind = "runs" /\ done.read /\ done.data = snapshot /\ jobs' = (jobs \ {j}) \cup {done}
  <2>1. j \in Job
    BY DEF RowInv, TypeOK
  <2> QED
    BY <1>1, <2>1 DEF Job
<1> HIDE DEF done
<1>3. failures \in Nat /\ dbRun \in [Runs -> Versions]
  BY TableAssumption DEF RowInv, TypeOK
<1>4. failures' = 0 => failures = 0 /\ snapshot = dbRun
  BY <1>1, <1>3 DEF Outcome
<1>5. \A r \in Runs : snapshot[r] = dbRun[r] \/ snapshot[r] = 0
  BY <1>1
<1>6. News' = News /\ CurrentLast' /\ \A r \in Runs : Live(r)' = Live(r)
  BY <1>0 DEF News, CurrentLast, Live, NewsInv
<1>7. \A r \in Runs : dbRun[r] \in Int
  BY <1>3 DEF Versions
<1>8. NothingNewer'
  <2>1. \A r \in Runs : dbRun[r] >= 0 => done.data[r] <= dbRun[r]
    BY <1>2, <1>5, <1>7
  <2> QED
    BY <1>0, <1>2, <1>6, <2>1 DEF NewsInv, NothingNewer
<1>9. \A r \in Runs : Heard(r) => Heard(r)'
  BY <1>0, <1>1, <1>2, <1>6 DEF Heard
<1>10. \A r \in Runs : snapshot[r] = dbRun[r] => Heard(r)'
  BY <1>0, <1>2 DEF Heard
<1>11. failures' = 0 => \A r \in Runs : Live(r)' => Heard(r)' \/ Asked'
  BY <1>4, <1>10
<1>12. ASSUME selections' = 1, NEW r \in Runs, Live(r)', r \in mRuns' \/ Found(r)'
       PROVE  Heard(r)'
  <2>1. Live(r) /\ selections = 1 /\ dbRun[r] > 0
    BY <1>0, <1>6, <1>12 DEF Live
  <2>2. CASE r \in mRuns \/ Found(r)
    BY <1>9, <2>1, <2>2 DEF NewsInv
  <2>3. CASE ~ (r \in mRuns \/ Found(r))
    <3>1. done.data[r] > 0
      BY <1>0, <1>2, <1>12, <2>3 DEF Found
    <3>2. snapshot[r] = dbRun[r]
      BY <1>2, <1>5, <3>1
    <3> QED
      BY <1>10, <3>2
  <2> QED
    BY <2>2, <2>3
<1>13. selections' = 0 => mEventId' = None
  BY <1>0 DEF NewsInv
<1> QED
  BY <1>6, <1>8, <1>11, <1>12, <1>13 DEF NewsInv

(* A selection forgets what was shown and asks again; the first one finds  *)
(* no earlier query under way.                                             *)
LEMMA SelectNews ==
  ASSUME RowInv, NewsInv, NEW e \in Events, setEventId(e) PROVE NewsInv'
<1> DEFINE asked == Ask("runs", selections', e)
<1>0. /\ UNCHANGED <<dbRun, changes, notifs, failures>> /\ mEventId' = e
      /\ mRuns' = {} /\ item' = [r \in Runs |-> NoItem] /\ newest' = [r \in Runs |-> 0]
      /\ selections' = selections + 1 /\ selections \in Nat
      /\ jobs' = jobs \cup {asked}
  BY TableAssumption DEF setEventId, reset, dbVars, RowInv, TypeOK
<1>1. asked.kind = "runs" /\ ~asked.read /\ \A r \in Runs : asked.data[r] = 0
  BY DEF Ask
<1> HIDE DEF asked
<1>2. News' = News /\ CurrentLast'
  BY <1>0 DEF News, CurrentLast, NewsInv
<1>3. \A r \in Runs : item'[r].ver = 0 /\ newest'[r] = 0
  BY <1>0 DEF NoItem
<1>4. NothingNewer'
  BY <1>0, <1>1, <1>2, <1>3 DEF NewsInv, NothingNewer
<1>5. Asked'
  BY <1>0, <1>1 DEF Asked
<1>6. selections' = 1 => jobs = {}
  BY <1>0 DEF RowInv, NewsInv
<1>7. \A r \in Runs : selections' = 1 => ~ Found(r)'
  BY <1>0, <1>1, <1>6 DEF Found
<1>8. selections' # 0
  BY <1>0
<1> QED
  BY <1>0, <1>2, <1>4, <1>5, <1>7, <1>8 DEF NewsInv

(* What updateRun shows of the runs it touches, and what was shown before. *)
LEMMA UpdateNews ==
  ASSUME RowInv, NewsInv, NEW runs \in SUBSET Runs, NEW ver \in [Runs -> Versions],
         updateRuns(runs, ver), UNCHANGED <<dbRun, mEventId>>,
         \A r \in runs : dbRun[r] >= 0 => ver[r] <= dbRun[r]
  PROVE  /\ \A r \in Runs : item'[r].ver <= newest'[r] /\ (newest'[r] > 0 => r \in mRuns')
         /\ \A r \in Runs : dbRun[r] >= 0 => newest'[r] <= dbRun[r]
         /\ \A r \in Runs : Live(r) /\ newest[r] = dbRun[r] => newest'[r] = dbRun[r]
         /\ \A r \in runs : Live(r) /\ ver[r] = dbRun[r] => newest'[r] = dbRun[r]
         /\ mRuns' \subseteq mRuns \cup runs
<1> DEFINE touched == OfThisEvent(runs)
<1>1. touched = OfThisEvent(runs)
  OBVIOUS
<1>2. touched \subseteq runs /\ \A r \in runs : Live(r) => r \in touched
  BY DEF OfThisEvent, Live
<1> HIDE DEF touched
<1>3. /\ mRuns' = mRuns \cup touched
      /\ \A r \in Runs : /\ r \notin touched => item'[r] = item[r]
                         /\ r \in touched => item'[r].ver = ver[r]
      /\ \A r \in Runs : newest'[r] = IF r \in touched /\ ver[r] > newest[r]
                                      THEN ver[r] ELSE newest[r]
  BY <1>1, UpdateEffect
<1>4. \A r \in Runs : /\ dbRun[r] \in Int /\ newest[r] \in Int /\ item[r].ver \in Int
                      /\ ver[r] \in Int
  BY NewsTypes DEF Versions
<1>5. \A r \in Runs : /\ item[r].ver <= newest[r] /\ (newest[r] > 0 => r \in mRuns)
                      /\ dbRun[r] >= 0 => newest[r] <= dbRun[r]
  BY DEF NewsInv, NothingNewer
<1>6. ASSUME NEW r \in Runs
      PROVE  /\ item'[r].ver <= newest'[r] /\ (newest'[r] > 0 => r \in mRuns')
             /\ dbRun[r] >= 0 => newest'[r] <= dbRun[r]
             /\ Live(r) /\ newest[r] = dbRun[r] => newest'[r] = dbRun[r]
             /\ r \in runs /\ Live(r) /\ ver[r] = dbRun[r] => newest'[r] = dbRun[r]
  <2>1. /\ item[r].ver <= newest[r] /\ (newest[r] > 0 => r \in mRuns)
        /\ dbRun[r] >= 0 => newest[r] <= dbRun[r]
        /\ dbRun[r] \in Int /\ newest[r] \in Int /\ item[r].ver \in Int /\ ver[r] \in Int
        /\ Live(r) => dbRun[r] > 0
    BY <1>4, <1>5 DEF Live
  <2>2. CASE r \in touched
    <3>1. item'[r].ver = ver[r] /\ r \in mRuns' /\ r \in runs
      BY <1>2, <1>3, <2>2
    <3>2. newest'[r] = IF ver[r] > newest[r] THEN ver[r] ELSE newest[r]
      BY <1>3, <2>2
    <3>3. dbRun[r] >= 0 => ver[r] <= dbRun[r]
      BY <3>1
    <3> QED
      BY <2>1, <3>1, <3>2, <3>3
  <2>3. CASE r \notin touched
    <3>1. item'[r] = item[r] /\ newest'[r] = newest[r] /\ (r \in mRuns => r \in mRuns')
          /\ ~ (r \in runs /\ Live(r))
      BY <1>2, <1>3, <2>3
    <3> QED
      BY <2>1, <3>1
  <2> QED
    BY <2>2, <2>3
<1> QED
  BY <1>2, <1>3, <1>6

LEMMA SetRunsNews ==
  ASSUME RowInv, NewsInv, NEW j \in jobs, setRuns(j),
         UNCHANGED <<dbVars, notifs, selections, mEventId>>
  PROVE  NewsInv'
<1> DEFINE runs == {r \in Runs : j.data[r] > 0}
<1>0. /\ UNCHANGED <<dbRun, changes, notifs, failures, selections, mEventId>>
      /\ j.kind = "runs" /\ j.read
  BY DEF setRuns, dbVars
<1>1. runs \in SUBSET Runs /\ updateRuns(runs, j.data) /\ j.data \in [Runs -> Versions]
  BY ResultType DEF setRuns
<1>2. \A r \in runs : dbRun[r] >= 0 => j.data[r] <= dbRun[r]
  BY DEF NewsInv, NothingNewer
<1>3. \A r \in Runs : j.data[r] > 0 => r \in runs
  OBVIOUS
<1>r. \A r \in runs : j.data[r] > 0
  OBVIOUS
<1> HIDE DEF runs
<1>4. /\ \A r \in Runs : item'[r].ver <= newest'[r] /\ (newest'[r] > 0 => r \in mRuns')
      /\ \A r \in Runs : dbRun[r] >= 0 => newest'[r] <= dbRun[r]
      /\ \A r \in Runs : Live(r) /\ newest[r] = dbRun[r] => newest'[r] = dbRun[r]
      /\ \A r \in runs : Live(r) /\ j.data[r] = dbRun[r] => newest'[r] = dbRun[r]
      /\ mRuns' \subseteq mRuns \cup runs
  BY <1>0, <1>1, <1>2, UpdateNews
<1>5. \A i \in jobs' : i \in jobs \ {j} \/ (i.kind # "runs" /\ \A r \in Runs : i.data[r] = 0)
  BY DEF setRuns, Ask
<1>6. jobs \ {j} \subseteq jobs'
  BY DEF setRuns
<1>7. News' = News /\ CurrentLast' /\ \A r \in Runs : Live(r)' = Live(r)
  BY <1>0 DEF News, CurrentLast, Live, NewsInv
<1>8. NothingNewer'
  <2>1. \A r \in Runs : dbRun[r] >= 0 => \A i \in jobs' : i.data[r] <= dbRun[r]
    BY <1>5 DEF NewsInv, NothingNewer
  <2>2. \A r \in Runs : dbRun[r] >= 0 => \A n \in News : n.id = r => n.ver <= dbRun[r]
    BY DEF NewsInv, NothingNewer
  <2> QED
    BY <1>0, <1>4, <1>7, <2>1, <2>2 DEF NothingNewer
<1>9. ASSUME NEW r \in Runs, Live(r), Heard(r) PROVE Heard(r)'
  <2>1. CASE newest[r] = dbRun[r]
    BY <1>0, <1>4, <1>9, <2>1 DEF Heard
  <2>2. CASE \E n \in News : n.id = r /\ n.ver = dbRun[r]
    BY <1>0, <1>7, <2>2 DEF Heard
  <2>3. CASE \E i \in jobs : i.kind = "runs" /\ i.read /\ i.data[r] = dbRun[r]
    <3>1. PICK i \in jobs : i.kind = "runs" /\ i.read /\ i.data[r] = dbRun[r]
      BY <2>3
    <3>2. CASE i = j
      <4>1. r \in runs
        BY <1>3, <1>9, <3>1, <3>2 DEF Live
      <4> QED
        BY <1>0, <1>4, <1>9, <3>1, <3>2, <4>1 DEF Heard
    <3>3. CASE i # j
      BY <1>0, <1>6, <3>1, <3>3 DEF Heard
    <3> QED
      BY <3>2, <3>3
  <2> QED
    BY <1>9, <2>1, <2>2, <2>3 DEF Heard
<1>10. Asked => Asked'
  BY <1>0, <1>6 DEF Asked
<1>11. failures' = 0 => \A r \in Runs : Live(r)' => Heard(r)' \/ Asked'
  BY <1>0, <1>7, <1>9, <1>10 DEF NewsInv
<1>12. ASSUME selections' = 1, NEW r \in Runs, Live(r)', r \in mRuns' \/ Found(r)'
       PROVE  Heard(r)'
  <2>1. Live(r) /\ selections = 1
    BY <1>0, <1>7, <1>12
  <2>2. r \in mRuns \/ Found(r)
    <3>1. r \in runs => Found(r)
      BY <1>0, <1>r DEF Found
    <3>2. Found(r)' => Found(r)
      BY <1>5 DEF Found
    <3> QED
      BY <1>4, <1>12, <3>1, <3>2
  <2> QED
    BY <1>9, <2>1, <2>2 DEF NewsInv
<1>13. selections' = 0 => mEventId' = None
  BY <1>0 DEF NewsInv
<1> QED
  BY <1>7, <1>8, <1>11, <1>12, <1>13 DEF NewsInv

(* The results and notifications about drivers, cars and classes are no    *)
(* news.                                                                   *)
LEMMA MendsNews ==
  ASSUME RowInv, NewsInv, Mends, UNCHANGED <<dbRun, selections, mEventId>>,
         failures' = 0 => failures = 0, jobs' \subseteq jobs,
         \A j \in jobs : j.kind = "runs" => j \in jobs',
         News' = News, CurrentLast'
  PROVE  NewsInv'
<1>0. /\ mRuns' = mRuns /\ newest' = newest /\ \A r \in Runs : item'[r].ver = item[r].ver
      /\ \A r \in Runs : Live(r)' = Live(r)
  BY DEF Mends, Live
<1>1. NothingNewer'
  BY <1>0 DEF NewsInv, NothingNewer
<1>2. \A r \in Runs : Heard(r) => Heard(r)'
  BY <1>0 DEF Heard
<1>3. \A r \in Runs : Found(r)' => Found(r)
  BY DEF Found
<1>4. Asked => Asked'
  BY DEF Asked
<1>5. failures' = 0 => \A r \in Runs : Live(r)' => Heard(r)' \/ Asked'
  BY <1>0, <1>2, <1>4 DEF NewsInv
<1>6. selections' = 1 => \A r \in Runs : Live(r)' /\ (r \in mRuns' \/ Found(r)') => Heard(r)'
  BY <1>0, <1>2, <1>3 DEF NewsInv
<1>7. selections' = 0 => mEventId' = None
  BY DEF NewsInv
<1> QED
  BY <1>1, <1>5, <1>6, <1>7 DEF NewsInv

LEMMA RunNotificationNews ==
  ASSUME RowInv, NewsInv, notifs # <<>>, notifs' = Tail(notifs),
         runNotification(Head(notifs)),
         UNCHANGED <<dbVars, jobs, failures, selections, mEventId>>
  PROVE  NewsInv'
<1> DEFINE n == Head(notifs)
<1>0. /\ UNCHANGED <<dbRun, jobs, failures, selections, mEventId>>
      /\ runNotification(n) /\ n.table = "run"
  BY DEF dbVars, runNotification
<1>1. n.id \in Runs /\ n.ver \in Versions
  BY <1>0, HeadType
<1>2. /\ CurrentLast' /\ News' \subseteq News /\ n \in News
      /\ \A m \in News : m = n \/ m \in News'
      /\ dbRun[n.id] > 0 =>
           n.ver = dbRun[n.id] \/ \E m \in News' : m.id = n.id /\ m.ver = dbRun[n.id]
  <2>1. CurrentLast
    BY DEF NewsInv
  <2> QED
    BY <1>0, <2>1, TakeNews
<1> HIDE DEF n
<1> DEFINE runs == {n.id}
           ver == [r \in Runs |-> n.ver]
<1>3. /\ updateRuns(runs, ver) /\ ver \in [Runs -> Versions] /\ runs \in SUBSET Runs
      /\ \A r \in runs : r = n.id
      /\ n.id \in runs /\ ver[n.id] = n.ver
  BY <1>0, <1>1 DEF runNotification
<1> HIDE DEF runs, ver
<1>4. \A r \in runs : dbRun[r] >= 0 => ver[r] <= dbRun[r]
  BY <1>2, <1>3 DEF NewsInv, NothingNewer
<1>5. /\ \A r \in Runs : item'[r].ver <= newest'[r] /\ (newest'[r] > 0 => r \in mRuns')
      /\ \A r \in Runs : dbRun[r] >= 0 => newest'[r] <= dbRun[r]
      /\ \A r \in Runs : Live(r) /\ newest[r] = dbRun[r] => newest'[r] = dbRun[r]
      /\ \A r \in runs : Live(r) /\ ver[r] = dbRun[r] => newest'[r] = dbRun[r]
      /\ mRuns' \subseteq mRuns \cup runs
  BY <1>0, <1>3, <1>4, UpdateNews
<1>6. \A r \in Runs : Live(r)' = Live(r) /\ Found(r)' = Found(r)
  BY <1>0 DEF Live, Found
<1>7. NothingNewer'
  BY <1>0, <1>2, <1>5 DEF NewsInv, NothingNewer
<1>8. ASSUME NEW r \in Runs, Live(r), Heard(r) PROVE Heard(r)'
  <2>1. CASE newest[r] = dbRun[r]
    BY <1>0, <1>5, <1>8, <2>1 DEF Heard
  <2>2. CASE \E m \in News : m.id = r /\ m.ver = dbRun[r]
    <3>1. PICK m \in News : m.id = r /\ m.ver = dbRun[r]
      BY <2>2
    <3>2. CASE m = n
      BY <1>0, <1>3, <1>5, <1>8, <3>1, <3>2 DEF Heard
    <3>3. CASE m # n
      BY <1>0, <1>2, <3>1, <3>3 DEF Heard
    <3> QED
      BY <3>2, <3>3
  <2>3. CASE \E i \in jobs : i.kind = "runs" /\ i.read /\ i.data[r] = dbRun[r]
    BY <1>0, <2>3 DEF Heard
  <2> QED
    BY <1>8, <2>1, <2>2, <2>3 DEF Heard
<1>9. ASSUME NEW r \in Runs, r = n.id, Live(r) PROVE Heard(r)'
  <2>1. dbRun[r] > 0
    BY <1>9 DEF Live
  <2>2. CASE n.ver = dbRun[r]
    BY <1>0, <1>3, <1>5, <1>9, <2>2 DEF Heard
  <2>3. CASE n.ver # dbRun[r]
    BY <1>0, <1>2, <1>9, <2>1, <2>3 DEF Heard
  <2> QED
    BY <2>2, <2>3
<1>10. Asked' = Asked
  BY <1>0 DEF Asked
<1>11. failures' = 0 => \A r \in Runs : Live(r)' => Heard(r)' \/ Asked'
  BY <1>0, <1>6, <1>8, <1>10 DEF NewsInv
<1>12. ASSUME selections' = 1, NEW r \in Runs, Live(r)', r \in mRuns' \/ Found(r)'
       PROVE  Heard(r)'
  <2>1. Live(r) /\ selections = 1 /\ (r = n.id \/ r \in mRuns \/ Found(r))
    BY <1>0, <1>3, <1>5, <1>6, <1>12
  <2> QED
    BY <1>8, <1>9, <2>1 DEF NewsInv
<1>13. selections' = 0 => mEventId' = None
  BY <1>0 DEF NewsInv
<1> QED
  BY <1>2, <1>7, <1>11, <1>12, <1>13 DEF NewsInv

LEMMA ResultNews ==
  ASSUME RowInv, NewsInv, DeliverResult PROVE NewsInv'
<1>1. PICK j \in jobs : setRuns(j) \/ SetRelatedResult(j)
  BY DEF DeliverResult, SetRelatedResult
<1>2. UNCHANGED <<dbRun, changes, notifs, selections, mEventId>>
  BY DEF DeliverResult, dbVars
<1>3. CASE setRuns(j)
  BY <1>2, <1>3, SetRunsNews DEF dbVars
<1>4. CASE SetRelatedResult(j)
  <2>1. Mends /\ jobs' = jobs \ {j} /\ j.kind # "runs" /\ (failures' = 0 => failures = 0)
    BY <1>4, RelatedResultEffect
  <2>2. News' = News /\ CurrentLast'
    BY <1>2 DEF News, CurrentLast, NewsInv
  <2>3. jobs' \subseteq jobs /\ \A i \in jobs : i.kind = "runs" => i \in jobs'
    BY <2>1
  <2> QED
    BY <1>2, <2>1, <2>2, <2>3, MendsNews
<1> QED
  BY <1>1, <1>3, <1>4

LEMMA NotificationNews ==
  ASSUME RowInv, NewsInv, DeliverNotification PROVE NewsInv'
<1>1. /\ notifs # <<>> /\ notifs' = Tail(notifs)
      /\ runNotification(Head(notifs)) \/ RelatedNotification(Head(notifs))
      /\ UNCHANGED <<dbVars, jobs, failures, selections, mEventId>>
  BY DEF DeliverNotification, RelatedNotification
<1>2. CASE runNotification(Head(notifs))
  BY <1>1, <1>2, RunNotificationNews
<1>3. CASE RelatedNotification(Head(notifs))
  <2>1. Mends /\ Head(notifs).table # "run"
    BY <1>1, <1>3, RelatedNotificationEffect
  <2>2. UNCHANGED <<dbRun, changes, jobs, failures, selections, mEventId>>
    BY <1>1 DEF dbVars
  <2>3. CurrentLast
    BY DEF NewsInv
  <2>4. /\ CurrentLast' /\ News' \subseteq News
        /\ \A n \in News : n = Head(notifs) \/ n \in News'
    BY <1>1, <2>2, <2>3, TakeNews
  <2>5. Head(notifs) \notin News
    BY <2>1 DEF News
  <2>6. News' = News
    BY <2>4, <2>5
  <2> QED
    BY <2>1, <2>2, <2>4, <2>6, MendsNews
<1> QED
  BY <1>1, <1>2, <1>3

LEMMA NextNews ==
  ASSUME RowInv, NewsInv, [Next]_vars PROVE NewsInv'
<1>1. ASSUME NEW r \in Runs, InsertRun(r) \/ UpdateRunInDb(r) \/ DeleteRun(r)
      PROVE  NewsInv'
  BY <1>1, ClientNews DEF InsertRun, UpdateRunInDb, DeleteRun
<1>2. CASE TouchRelated
  BY <1>2, ClientNews DEF TouchRelated
<1>3. CASE ReadRuns
  BY <1>3, ReadNews
<1>4. ASSUME NEW e \in Events, setEventId(e) PROVE NewsInv'
  BY <1>4, SelectNews
<1>5. CASE DeliverResult
  BY <1>5, ResultNews
<1>6. CASE DeliverNotification
  BY <1>6, NotificationNews
<1>7. CASE UNCHANGED vars
  BY <1>7 DEF vars, NewsInv, NothingNewer, CurrentLast, News, Heard, Asked, Found, Live
<1> QED
  BY <1>1, <1>2, <1>3, <1>4, <1>5, <1>6, <1>7 DEF Next

(* Nothing on its way is newer than the database, and what the table has   *)
(* not shown yet of a run of the event is on its way.                      *)
THEOREM NewsInvariant == Spec => []NewsInv
<1>1. RowInv /\ NewsInv /\ [Next]_vars => NewsInv'
  BY NextNews
<1> QED
  BY RowInvariant, InitNewsInv, <1>1, PTL DEF Spec

(* While nothing is on its way, no query was asked or found a version.     *)
LEMMA QuietNews ==
  ASSUME NewsInv, Quiet, NEW r \in Runs, Live(r)
  PROVE  /\ failures = 0 => newest[r] = dbRun[r]
         /\ selections = 1 /\ r \in mRuns => newest[r] = dbRun[r]
<1>1. jobs = {} /\ News = {}
  BY DEF Quiet, News, ToSet
<1>2. ~ Asked /\ (Heard(r) => newest[r] = dbRun[r])
  BY <1>1 DEF Asked, Heard
<1> QED
  BY <1>2 DEF NewsInv

(* No result and no notification of an event selected before leaves a row  *)
(* of that event; and once nothing is on its way and no query failed,      *)
(* every run of the selected event has a row, whether the query or a       *)
(* notification brought it and whichever came first.                       *)
THEOREM EveryRunHasARow == Spec => []NoRunMissing
<1>1. RowInv /\ NewsInv => NoRunMissing
  <2> SUFFICES ASSUME RowInv, NewsInv PROVE NoRunMissing
    OBVIOUS
  <2>1. \A r \in mRuns : RunEvent[r] = mEventId
    BY DEF RowInv, RowsOfEvent
  <2>2. ASSUME Quiet, failures = 0, NEW r \in Runs, dbRun[r] > 0, RunEvent[r] = mEventId
        PROVE  r \in mRuns
    <3>1. newest[r] = dbRun[r]
      BY <2>2, QuietNews DEF Live
    <3> QED
      BY <2>2, <3>1 DEF NewsInv, NothingNewer
  <2> QED
    BY <2>1, <2>2 DEF NoRunMissing
<1> QED
  BY RowInvariant, NewsInvariant, <1>1, PTL

(* Once nothing is on its way, a row that does not show the current        *)
(* version of its run did show it and was set back by an older one.        *)
THEOREM StaleOnlyByOvertaking == Spec => []StaleOnlyIfOvertaken
<1>1. RowInv /\ NewsInv => StaleOnlyIfOvertaken
  <2> SUFFICES ASSUME RowInv, NewsInv, Quiet, failures = 0 \/ selections = 1,
                      NEW r \in mRuns, dbRun[r] > 0
               PROVE  \/ item[r].ver = dbRun[r]
                      \/ item[r].ver < newest[r] /\ newest[r] = dbRun[r]
    BY DEF StaleOnlyIfOvertaken
  <2>1. r \in Runs /\ Live(r)
    BY RowTypes DEF RowInv, RowsOfEvent, Live
  <2>2. newest[r] = dbRun[r]
    BY <2>1, QuietNews
  <2>3. item[r].ver <= newest[r] /\ item[r].ver \in Int /\ newest[r] \in Int
    BY <2>1, NewsTypes DEF NewsInv, NothingNewer
  <2> QED
    BY <2>2, <2>3
<1> QED
  BY RowInvariant, NewsInvariant, <1>1, PTL

-----------------------------------------------------------------------------
(* Layer 3.                                                                *)

(* The maps lead from the driver and the car of a row that shares neither  *)
(* to that row.                                                            *)
LEMMA MapsLeadToAlone ==
  ASSUME RowInv, NEW r \in mRuns, Alone(r)
  PROVE  mDrivers[RunDriver[r]] = r /\ mCars[RunCar[r]] = r
<1>1. r \in Runs /\ RunDriver[r] \in Drivers /\ RunCar[r] \in Cars
  BY RowTypes, TableAssumption
<1>2. mDrivers[RunDriver[r]] \notin {None, Known} /\ mCars[RunCar[r]] \notin {None, Known}
  BY DEF RowInv, RowsInMaps
<1>3. /\ mDrivers[RunDriver[r]] \in mRuns /\ RunDriver[mDrivers[RunDriver[r]]] = RunDriver[r]
      /\ mCars[RunCar[r]] \in mRuns /\ RunCar[mCars[RunCar[r]]] = RunCar[r]
  BY <1>1, <1>2 DEF RowInv, MapsAgreeWithRows
<1> QED
  BY <1>3 DEF Alone

(* A row's five requirements after a step, told one by one.                *)
LEMMA RowCompleteAfter ==
  ASSUME NEW r \in mRuns, RowComplete(r), UNCHANGED <<mRuns, mEventId>>,
         RunCar[r] \in RegCars[mEventId] /\ (ClassOf[RunCar[r]] \in mCarClasses
                                             \/ Coming({"classes"})) =>
           ClassOf[RunCar[r]] \in mCarClasses' \/ Coming({"classes"})',
         Alone(r) /\ RunDriver[r] \in RegDrivers[mEventId]
           /\ (item[r].driver = RunDriver[r] \/ Coming({"drivers"})) =>
           item'[r].driver = RunDriver[r] \/ Coming({"drivers"})',
         Alone(r) /\ RunCar[r] \in RegCars[mEventId]
           /\ (item[r].car = RunCar[r] \/ Coming({"cars"})) =>
           item'[r].car = RunCar[r] \/ Coming({"cars"})',
         Alone(r) /\ RunCar[r] \in RegCars[mEventId]
           /\ (item[r].class = ClassOf[RunCar[r]] \/ Coming({"cars", "classes"})) =>
           item'[r].class = ClassOf[RunCar[r]] \/ Coming({"cars", "classes"})'
  PROVE  RowComplete(r)'
<1>1. Alone(r)' <=> Alone(r)
  BY DEF Alone
<1>2. RunCar[r] \in RegCars[mEventId] =>
        ClassOf[RunCar[r]] \in mCarClasses' \/ Coming({"classes"})'
  BY DEF RowComplete
<1>3. Alone(r) /\ RunDriver[r] \in RegDrivers[mEventId] =>
        item'[r].driver = RunDriver[r] \/ Coming({"drivers"})'
  BY DEF RowComplete
<1>4. Alone(r) /\ RunCar[r] \in RegCars[mEventId] =>
        item'[r].car = RunCar[r] \/ Coming({"cars"})'
  BY DEF RowComplete
<1>5. Alone(r) /\ RunCar[r] \in RegCars[mEventId] =>
        item'[r].class = ClassOf[RunCar[r]] \/ Coming({"cars", "classes"})'
  BY DEF RowComplete
<1>6. mEventId' = mEventId
  OBVIOUS
<1> QED
  BY <1>1, <1>2, <1>3, <1>4, <1>5, <1>6 DEF RowComplete

LEMMA SetRelatedResultLoad ==
  ASSUME RowInv, LoadInv, NEW j \in jobs, SetRelatedResult(j),
         UNCHANGED <<dbVars, notifs, selections, mEventId>>
  PROVE  LoadInv'
<1>0. /\ UNCHANGED <<changes, notifs, mEventId>> /\ failures \in Nat
      /\ mCarClasses \in SUBSET Classes
  BY TableAssumption DEF dbVars, RowInv, TypeOK
<1>1. Mends /\ jobs' = jobs \ {j} /\ j.kind # "runs" /\ (failures' = 0 => failures = 0)
  BY RelatedResultEffect
<1>2. /\ UNCHANGED mRuns /\ mCarClasses \subseteq mCarClasses' /\ mRuns \subseteq Runs
      /\ \A r \in Runs : /\ item'[r].driver \in {item[r].driver, RunDriver[r]}
                         /\ item'[r].car \in {item[r].car, RunCar[r]}
                         /\ item'[r].class \in {item[r].class, ClassOf[RunCar[r]]}
  BY <1>1, RowTypes DEF Mends
<1>3. \A kinds : Coming(kinds) /\ (j.kind \notin kinds \/ j.event # mEventId) => Coming(kinds)'
  BY <1>0, <1>1 DEF Coming
<1>4. ASSUME failures' = 0, changes' = 0, NEW r \in mRuns PROVE RowComplete(r)'
  <2>0. /\ r \in Runs /\ failures = 0 /\ RowComplete(r)
        /\ Alone(r) => mDrivers[RunDriver[r]] = r /\ mCars[RunCar[r]] = r
    BY <1>0, <1>1, <1>2, <1>4, MapsLeadToAlone DEF LoadInv
  <2>1. /\ item[r].driver = RunDriver[r] => item'[r].driver = RunDriver[r]
        /\ item[r].car = RunCar[r] => item'[r].car = RunCar[r]
        /\ item[r].class = ClassOf[RunCar[r]] => item'[r].class = ClassOf[RunCar[r]]
        /\ ClassOf[RunCar[r]] \in mCarClasses => ClassOf[RunCar[r]] \in mCarClasses'
    BY <1>2, <2>0
  <2>2. CASE j.event # mEventId
    <3>1. \A kinds : Coming(kinds) => Coming(kinds)'
      BY <1>3, <2>2
    <3> QED
      BY <1>0, <1>2, <2>0, <2>1, <3>1, RowCompleteAfter
  <2>3. ASSUME j.event = mEventId, NEW drivers \in SUBSET Drivers, setDrivers(j, drivers)
        PROVE  RowComplete(r)'
    <3>1. /\ j.kind = "drivers" /\ updateDrivers(drivers)
          /\ drivers = RegDrivers[mEventId]
      BY <1>0, <1>4, <2>3 DEF setDrivers, Outcome
    <3>2. /\ Coming({"classes"}) => Coming({"classes"})'
          /\ Coming({"cars"}) => Coming({"cars"})'
          /\ Coming({"cars", "classes"}) => Coming({"cars", "classes"})'
      BY <1>3, <3>1
    <3>3. RunDriver[r] \in drivers /\ mDrivers[RunDriver[r]] = r =>
            item'[r].driver = RunDriver[r]
      BY <2>0, <2>3, <3>1, DriversEffect
    <3>4. Alone(r) /\ RunDriver[r] \in RegDrivers[mEventId] => item'[r].driver = RunDriver[r]
      BY <2>0, <3>1, <3>3
    <3> QED
      BY <1>0, <1>2, <2>0, <2>1, <3>2, <3>4, RowCompleteAfter
  <2>4. ASSUME j.event = mEventId, NEW cars \in SUBSET Cars, setCars(j, cars)
        PROVE  RowComplete(r)'
    <3>1. /\ j.kind = "cars" /\ cars = RegCars[mEventId] /\ mCars' = KnowCars(cars)
          /\ updateCarClasses(WithCars(cars), mCars', mCarClasses)
          /\ UNCHANGED <<mDataItems, mRuns, newest, mDrivers, mCarClasses>>
      BY <1>0, <1>4, <2>4 DEF setCars, Outcome
    <3>2. /\ Coming({"classes"}) => Coming({"classes"})'
          /\ Coming({"drivers"}) => Coming({"drivers"})'
      BY <1>3, <3>1
    <3>3. RunCar[r] \in cars /\ mCars[RunCar[r]] = r =>
            /\ item'[r].car = RunCar[r]
            /\ ClassOf[RunCar[r]] \in mCarClasses => item'[r].class = ClassOf[RunCar[r]]
      BY <2>0, <2>4, <3>1, CarsAndClassesMend
    <3>4. Alone(r) /\ RunCar[r] \in RegCars[mEventId] => item'[r].car = RunCar[r]
      BY <2>0, <3>1, <3>3
    <3>5. Alone(r) /\ RunCar[r] \in RegCars[mEventId] =>
            item'[r].class = ClassOf[RunCar[r]] \/ Coming({"cars", "classes"})'
      <4> SUFFICES ASSUME Alone(r), RunCar[r] \in RegCars[mEventId]
                   PROVE  item'[r].class = ClassOf[RunCar[r]] \/ Coming({"cars", "classes"})'
        OBVIOUS
      <4>1. ClassOf[RunCar[r]] \in mCarClasses \/ Coming({"classes"})
        BY <2>0 DEF RowComplete
      <4>2. Coming({"classes"})' => Coming({"cars", "classes"})'
        BY DEF Coming
      <4> QED
        BY <2>0, <3>1, <3>2, <3>3, <4>1, <4>2
    <3> QED
      BY <1>0, <1>2, <2>0, <2>1, <3>2, <3>4, <3>5, RowCompleteAfter
  <2>5. ASSUME j.event = mEventId, NEW carClasses \in SUBSET Classes,
               setCarClasses(j, carClasses)
        PROVE  RowComplete(r)'
    <3>1. /\ j.kind = "classes" /\ carClasses = {ClassOf[c] : c \in RegCars[mEventId]}
          /\ mCarClasses' = mCarClasses \cup carClasses
          /\ updateCarClasses(item, mCars, mCarClasses')
          /\ UNCHANGED <<mDataItems, mRuns, newest, mDrivers, mCars>>
      BY <1>0, <1>4, <2>5 DEF setCarClasses, Outcome
    <3>2. /\ Coming({"cars"}) => Coming({"cars"})'
          /\ Coming({"drivers"}) => Coming({"drivers"})'
      BY <1>3, <3>1
    <3>3. mCarClasses' \in SUBSET Classes
      BY <1>0, <2>5, <3>1
    <3>4. /\ mCars[RunCar[r]] = r /\ item[r].car = RunCar[r]
          /\ ClassOf[RunCar[r]] \in mCarClasses'
          => item'[r].class = ClassOf[RunCar[r]]
      BY <1>2, <2>0, <3>1, <3>3, ClassesMend
    <3>5. RunCar[r] \in RegCars[mEventId] => ClassOf[RunCar[r]] \in mCarClasses'
      BY <3>1
    <3>6. Alone(r) /\ RunCar[r] \in RegCars[mEventId] =>
            item'[r].class = ClassOf[RunCar[r]] \/ Coming({"cars", "classes"})'
      <4> SUFFICES ASSUME Alone(r), RunCar[r] \in RegCars[mEventId]
                   PROVE  item'[r].class = ClassOf[RunCar[r]] \/ Coming({"cars", "classes"})'
        OBVIOUS
      <4>1. item[r].car = RunCar[r] \/ Coming({"cars"})
        BY <2>0 DEF RowComplete
      <4>2. Coming({"cars"})' => Coming({"cars", "classes"})'
        BY DEF Coming
      <4> QED
        BY <2>0, <3>2, <3>4, <3>5, <4>1, <4>2
    <3> QED
      BY <1>0, <1>2, <2>0, <2>1, <3>2, <3>5, <3>6, RowCompleteAfter
  <2> QED
    BY <2>2, <2>3, <2>4, <2>5 DEF SetRelatedResult
<1> QED
  BY <1>0, <1>2, <1>4 DEF LoadInv

LEMMA NextLoad ==
  ASSUME RowInv, LoadInv, [Next]_vars PROVE LoadInv'
<1>0. changes \in Nat
  BY TableAssumption DEF RowInv, TypeOK
<1>1. ASSUME Commit PROVE LoadInv'
  BY <1>0, <1>1 DEF Commit, LoadInv
<1>2. CASE (\E r \in Runs : InsertRun(r) \/ UpdateRunInDb(r) \/ DeleteRun(r)) \/ TouchRelated
  BY <1>1, <1>2 DEF InsertRun, UpdateRunInDb, DeleteRun, TouchRelated
<1>3. ASSUME UNCHANGED <<changes, notifs, mEventId, mRuns, item, mCarClasses>>,
             failures' = 0 => failures = 0,
             \A j \in jobs : \E k \in jobs' : k.kind = j.kind /\ k.event = j.event
      PROVE  LoadInv'
  <2>1. \A kinds : Coming(kinds) => Coming(kinds)'
    BY <1>3 DEF Coming
  <2>2. ASSUME NEW r \in mRuns, RowComplete(r) PROVE RowComplete(r)'
    BY <1>3, <2>1, <2>2, RowCompleteAfter
  <2> QED
    BY <1>3, <2>2 DEF LoadInv
<1>4. CASE ReadRuns
  <2>1. PICK j \in jobs : \E snapshot \in {dbRun, [r \in Runs |-> 0]} :
          /\ Outcome(snapshot, dbRun, [r \in Runs |-> 0])
          /\ jobs' = (jobs \ {j}) \cup {[j EXCEPT !.read = TRUE, !.data = snapshot]}
    BY <1>4 DEF ReadRuns
  <2>2. PICK snapshot \in {dbRun, [r \in Runs |-> 0]} :
          /\ jobs' = (jobs \ {j}) \cup {[j EXCEPT !.read = TRUE, !.data = snapshot]}
          /\ Outcome(snapshot, dbRun, [r \in Runs |-> 0])
    BY <2>1
  <2> DEFINE k == [j EXCEPT !.read = TRUE, !.data = snapshot]
  <2>3. k.kind = j.kind /\ k.event = j.event /\ jobs' = (jobs \ {j}) \cup {k}
    <3>1. j \in Job
      BY DEF RowInv, TypeOK
    <3> QED
      BY <2>2, <3>1 DEF Job
  <2> HIDE DEF k
  <2>4. failures' = 0 => failures = 0
    <3>1. failures \in Nat
      BY TableAssumption DEF RowInv, TypeOK
    <3> QED
      BY <2>2, <3>1 DEF Outcome
  <2>5. UNCHANGED <<changes, notifs, mEventId, mRuns, item, mCarClasses>>
    BY <1>4 DEF ReadRuns, dbVars, rowVars, mapVars
  <2>6. \A i \in jobs : \E l \in jobs' : l.kind = i.kind /\ l.event = i.event
    BY <2>3
  <2> QED
    BY <1>3, <2>4, <2>5, <2>6
<1>5. CASE \E e \in Events : setEventId(e)
  <2>1. mRuns' = {} /\ UNCHANGED <<changes, notifs>>
    BY <1>5 DEF setEventId, reset, dbVars
  <2> QED
    BY <2>1 DEF LoadInv
<1>6. CASE DeliverResult
  <2>1. PICK j \in jobs : setRuns(j) \/ SetRelatedResult(j)
    BY <1>6 DEF DeliverResult, SetRelatedResult
  <2>2. UNCHANGED <<dbVars, notifs, selections, mEventId>>
    BY <1>6 DEF DeliverResult
  <2>3. CASE setRuns(j)
    <3>1. \A k \in {"drivers", "cars", "classes"} : Ask(k, j.sel, mEventId) \in jobs'
      BY <2>3 DEF setRuns
    <3>2. \A k : Ask(k, j.sel, mEventId).kind = k /\ Ask(k, j.sel, mEventId).event = mEventId
      BY DEF Ask
    <3>3. Coming({"drivers"})' /\ Coming({"cars"})' /\ Coming({"classes"})'
            /\ Coming({"cars", "classes"})'
      BY <2>2, <3>1, <3>2 DEF Coming
    <3>4. \A r \in mRuns' : RowComplete(r)'
      BY <3>3 DEF RowComplete
    <3> QED
      BY <2>2, <3>4 DEF LoadInv, dbVars
  <2> QED
    BY <2>1, <2>2, <2>3, SetRelatedResultLoad
<1>7. CASE DeliverNotification
  BY <1>7 DEF DeliverNotification, dbVars, LoadInv
<1>8. CASE UNCHANGED vars
  BY <1>3, <1>8 DEF vars
<1> QED
  BY <1>2, <1>4, <1>5, <1>6, <1>7, <1>8 DEF Next

(* What a row still lacks is asked for by a query on its way, as long as   *)
(* no query failed and nobody changed the database.                        *)
THEOREM LoadInvariant == Spec => []LoadInv
<1>1. Init => LoadInv
  BY DEF Init, LoadInv
<1>2. RowInv /\ LoadInv /\ [Next]_vars => LoadInv'
  BY NextLoad
<1> QED
  BY RowInvariant, <1>1, <1>2, PTL DEF Spec

(* In whatever order the four results arrive, a row that shares neither    *)
(* its driver nor its car is complete when nothing is on its way.          *)
THEOREM LoadedTableIsComplete == Spec => []LoadedTableComplete
<1>1. LoadInv => LoadedTableComplete
  <2> SUFFICES ASSUME LoadInv, Quiet, failures = 0, changes = 0, NEW r \in mRuns, Alone(r)
               PROVE  /\ RunDriver[r] \in RegDrivers[mEventId] =>
                           item[r].driver = RunDriver[r]
                      /\ RunCar[r] \in RegCars[mEventId] =>
                           item[r].car = RunCar[r] /\ item[r].class = ClassOf[RunCar[r]]
    BY DEF LoadedTableComplete, Alone
  <2>1. \A kinds : ~ Coming(kinds)
    BY DEF Coming, Quiet
  <2> QED
    BY <2>1 DEF LoadInv, RowComplete
<1> QED
  BY LoadInvariant, <1>1, PTL

-----------------------------------------------------------------------------
(* Layer 4.                                                                *)

(* When the maps know a driver or a car, before a step and after it.       *)
LEMMA DriverKnownMeans ==
  ASSUME NEW d \in Drivers
  PROVE  /\ DriverOf(d) = d <=>
              \/ mDrivers[d] = Known
              \/ mDrivers[d] \notin {None, Known} /\ item[mDrivers[d]].driver = d
         /\ DriverOf(d)' = d <=>
              \/ mDrivers'[d] = Known
              \/ mDrivers'[d] \notin {None, Known} /\ item'[mDrivers'[d]].driver = d
<1>1. None # d /\ None # Known
  BY TableAssumption
<1>2. /\ mDrivers[d] = None => DriverOf(d) = None
      /\ mDrivers[d] = Known => DriverOf(d) = d
      /\ mDrivers[d] \notin {None, Known} => DriverOf(d) = item[mDrivers[d]].driver
  BY <1>1 DEF DriverOf
<1>3. /\ mDrivers'[d] = None => DriverOf(d)' = None
      /\ mDrivers'[d] = Known => DriverOf(d)' = d
      /\ mDrivers'[d] \notin {None, Known} => DriverOf(d)' = item'[mDrivers'[d]].driver
  BY <1>1 DEF DriverOf
<1> QED
  BY <1>1, <1>2, <1>3

LEMMA CarKnownMeans ==
  ASSUME NEW c \in Cars
  PROVE  /\ CarOf(c) = c <=>
              \/ mCars[c] = Known
              \/ mCars[c] \notin {None, Known} /\ item[mCars[c]].car = c
         /\ CarOf(c)' = c <=>
              \/ mCars'[c] = Known
              \/ mCars'[c] \notin {None, Known} /\ item'[mCars'[c]].car = c
<1>1. None # c /\ None # Known
  BY TableAssumption
<1>2. /\ mCars[c] = None => CarOf(c) = None
      /\ mCars[c] = Known => CarOf(c) = c
      /\ mCars[c] \notin {None, Known} => CarOf(c) = item[mCars[c]].car
  BY <1>1 DEF CarOf
<1>3. /\ mCars'[c] = None => CarOf(c)' = None
      /\ mCars'[c] = Known => CarOf(c)' = c
      /\ mCars'[c] \notin {None, Known} => CarOf(c)' = item'[mCars'[c]].car
  BY <1>1 DEF CarOf
<1> QED
  BY <1>1, <1>2, <1>3

(* What the maps know stays known.                                         *)
StillKnown ==
  /\ \A d \in Drivers : DriverOf(d) = d => DriverOf(d)' = d
  /\ \A c \in Cars : CarOf(c) = c => CarOf(c)' = c

LEMMA MendsKnown ==
  ASSUME RowInv, Mends PROVE StillKnown
<1>1. ASSUME NEW d \in Drivers, DriverOf(d) = d PROVE DriverOf(d)' = d
  <2>1. mDrivers[d] # None => mDrivers'[d] = mDrivers[d]
    BY DEF Mends
  <2>2. ASSUME mDrivers[d] \notin {None, Known}, item[mDrivers[d]].driver = d
        PROVE  item'[mDrivers[d]].driver = d
    <3>1. mDrivers[d] \in Runs /\ RunDriver[mDrivers[d]] = d
      BY <2>2, RowTypes, MapsLeadToRows
    <3> QED
      BY <2>2, <3>1 DEF Mends
  <2> QED
    BY <1>1, <2>1, <2>2, TableAssumption, DriverKnownMeans
<1>2. ASSUME NEW c \in Cars, CarOf(c) = c PROVE CarOf(c)' = c
  <2>1. mCars[c] # None => mCars'[c] = mCars[c]
    BY DEF Mends
  <2>2. ASSUME mCars[c] \notin {None, Known}, item[mCars[c]].car = c
        PROVE  item'[mCars[c]].car = c
    <3>1. mCars[c] \in Runs /\ RunCar[mCars[c]] = c
      BY <2>2, RowTypes, MapsLeadToRows
    <3> QED
      BY <2>2, <3>1 DEF Mends
  <2> QED
    BY <1>2, <2>1, <2>2, TableAssumption, CarKnownMeans
<1> QED
  BY <1>1, <1>2 DEF StillKnown

(* Whatever row updateRun makes the DataItem of a driver or a car has      *)
(* taken the driver or the car from the DataItem that was it before.       *)
LEMMA UpdateKnown ==
  ASSUME RowInv, NEW runs \in SUBSET Runs, NEW ver \in [Runs -> Versions],
         updateRuns(runs, ver)
  PROVE  StillKnown
<1> DEFINE touched == OfThisEvent(runs)
<1>1. touched = OfThisEvent(runs)
  OBVIOUS
<1> HIDE DEF touched
<1>2. /\ touched \in SUBSET Runs
      /\ \A r \in Runs :
           /\ r \notin touched => item'[r] = item[r]
           /\ r \in touched => item'[r].driver = DriverForRow(r) /\ item'[r].car = CarForRow(r)
      /\ \A d \in Drivers : IF \E r \in touched : RunDriver[r] = d
           THEN mDrivers'[d] \in touched /\ RunDriver[mDrivers'[d]] = d
           ELSE mDrivers'[d] = mDrivers[d]
      /\ \A c \in Cars : IF \E r \in touched : RunCar[r] = c
           THEN mCars'[c] \in touched /\ RunCar[mCars'[c]] = c
           ELSE mCars'[c] = mCars[c]
  BY <1>1, UpdateEffect
<1>3. \A r \in Runs : r \notin {None, Known}
  BY TableAssumption
<1>4. ASSUME NEW r \in Runs
      PROVE  /\ DriverForRow(r) = DriverOf(RunDriver[r]) /\ CarForRow(r) = CarOf(RunCar[r])
  <2>1. CASE r \in mRuns
    BY <2>1 DEF RowInv, RowsInMaps, DriverForRow, CarForRow
  <2>2. CASE r \notin mRuns
    BY <2>2, TakenFromMaps
  <2> QED
    BY <2>1, <2>2
<1>5. ASSUME NEW d \in Drivers, DriverOf(d) = d PROVE DriverOf(d)' = d
  <2>1. CASE \E r \in touched : RunDriver[r] = d
    <3>1. mDrivers'[d] \in touched /\ mDrivers'[d] \in Runs /\ RunDriver[mDrivers'[d]] = d
      BY <1>2, <2>1
    <3>2. item'[mDrivers'[d]].driver = d
      BY <1>2, <1>4, <1>5, <3>1
    <3> QED
      BY <1>3, <3>1, <3>2, DriverKnownMeans
  <2>2. CASE ~ \E r \in touched : RunDriver[r] = d
    <3>1. mDrivers'[d] = mDrivers[d]
      BY <1>2, <2>2
    <3>2. mDrivers[d] \notin {None, Known} => item'[mDrivers[d]] = item[mDrivers[d]]
      BY <1>2, <2>2, RowTypes, MapsLeadToRows
    <3> QED
      BY <1>5, <3>1, <3>2, DriverKnownMeans
  <2> QED
    BY <2>1, <2>2
<1>6. ASSUME NEW c \in Cars, CarOf(c) = c PROVE CarOf(c)' = c
  <2>1. CASE \E r \in touched : RunCar[r] = c
    <3>1. mCars'[c] \in touched /\ mCars'[c] \in Runs /\ RunCar[mCars'[c]] = c
      BY <1>2, <2>1
    <3>2. item'[mCars'[c]].car = c
      BY <1>2, <1>4, <1>6, <3>1
    <3> QED
      BY <1>3, <3>1, <3>2, CarKnownMeans
  <2>2. CASE ~ \E r \in touched : RunCar[r] = c
    <3>1. mCars'[c] = mCars[c]
      BY <1>2, <2>2
    <3>2. mCars[c] \notin {None, Known} => item'[mCars[c]] = item[mCars[c]]
      BY <1>2, <2>2, RowTypes, MapsLeadToRows
    <3> QED
      BY <1>6, <3>1, <3>2, CarKnownMeans
  <2> QED
    BY <2>1, <2>2
<1> QED
  BY <1>5, <1>6 DEF StillKnown

(* A step that forgets nothing and answers no query keeps the invariant.   *)
LEMMA KnownStep ==
  ASSUME KnownInv, StillKnown, RowInv, UNCHANGED mEventId, failures' = 0 => failures = 0,
         mCarClasses \subseteq mCarClasses',
         \A j \in jobs : \E k \in jobs' : k.kind = j.kind /\ k.event = j.event
  PROVE  KnownInv'
<1>1. \A kinds : Coming(kinds) => Coming(kinds)'
  BY DEF Coming
<1>2. SUFFICES ASSUME failures' = 0, mEventId' # None
      PROVE  /\ \A d \in RegDrivers[mEventId] : DriverOf(d)' = d \/ Coming({"drivers"})'
             /\ \A c \in RegCars[mEventId] :
                  /\ CarOf(c)' = c \/ Coming({"cars"})'
                  /\ ClassOf[c] \in mCarClasses' \/ Coming({"classes"})'
  BY DEF KnownInv
<1>3. RegDrivers[mEventId] \subseteq Drivers /\ RegCars[mEventId] \subseteq Cars
  BY <1>2, TableAssumption DEF RowInv, TypeOK
<1>4. /\ \A d \in RegDrivers[mEventId] : DriverOf(d) = d \/ Coming({"drivers"})
      /\ \A c \in RegCars[mEventId] :
           /\ CarOf(c) = c \/ Coming({"cars"})
           /\ ClassOf[c] \in mCarClasses \/ Coming({"classes"})
  BY <1>2 DEF KnownInv
<1> QED
  BY <1>1, <1>3, <1>4 DEF StillKnown

(* A result for the event lets the table know all it was asked for.        *)
LEMMA ResultKnown ==
  ASSUME RowInv, NEW j \in jobs, SetRelatedResult(j), failures' = 0,
         j.event = mEventId, mEventId \in Events
  PROVE  /\ j.kind \in {"drivers", "cars", "classes"}
         /\ j.kind = "drivers" => \A d \in RegDrivers[mEventId] : DriverOf(d)' = d
         /\ j.kind = "cars" => \A c \in RegCars[mEventId] : CarOf(c)' = c
         /\ j.kind = "classes" => \A c \in RegCars[mEventId] : ClassOf[c] \in mCarClasses'
<1>0. /\ RegDrivers[mEventId] \subseteq Drivers /\ RegCars[mEventId] \subseteq Cars
      /\ failures \in Nat
  BY TableAssumption DEF RowInv, TypeOK
<1>1. ASSUME NEW drivers \in SUBSET Drivers, setDrivers(j, drivers)
      PROVE  j.kind = "drivers" /\ \A d \in RegDrivers[mEventId] : DriverOf(d)' = d
  <2>1. j.kind = "drivers" /\ updateDrivers(drivers) /\ drivers = RegDrivers[mEventId]
    BY <1>0, <1>1 DEF setDrivers, Outcome
  <2>2. /\ \A r \in Runs : RunDriver[r] \in drivers /\ mDrivers[RunDriver[r]] = r =>
                             item'[r].driver = RunDriver[r]
        /\ \A d \in Drivers : mDrivers'[d] = IF d \in drivers /\ mDrivers[d] = None THEN Known
                                             ELSE mDrivers[d]
    BY <1>1, <2>1, DriversEffect
  <2>3. ASSUME NEW d \in drivers PROVE DriverOf(d)' = d
    <3>1. d \in Drivers
      BY <1>1
    <3>2. CASE mDrivers[d] \in {None, Known}
      BY <2>2, <3>1, <3>2, DriverKnownMeans
    <3>3. CASE mDrivers[d] \notin {None, Known}
      <4>1. mDrivers[d] \in Runs /\ RunDriver[mDrivers[d]] = d
        BY <3>1, <3>3, RowTypes, MapsLeadToRows
      <4>2. item'[mDrivers[d]].driver = d
        BY <2>2, <4>1
      <4>3. mDrivers'[d] = mDrivers[d]
        BY <2>2, <3>1, <3>3
      <4> QED
        BY <3>1, <3>3, <4>2, <4>3, DriverKnownMeans
    <3> QED
      BY <3>2, <3>3
  <2> QED
    BY <2>1, <2>3
<1>2. ASSUME NEW cars \in SUBSET Cars, setCars(j, cars)
      PROVE  j.kind = "cars" /\ \A c \in RegCars[mEventId] : CarOf(c)' = c
  <2>1. /\ j.kind = "cars" /\ cars = RegCars[mEventId] /\ mCars' = KnowCars(cars)
        /\ updateCarClasses(WithCars(cars), mCars', mCarClasses)
        /\ UNCHANGED <<mDataItems, mRuns, newest, mDrivers, mCarClasses>>
    BY <1>0, <1>2 DEF setCars, Outcome
  <2>2. \A r \in Runs : RunCar[r] \in cars /\ mCars[RunCar[r]] = r => item'[r].car = RunCar[r]
    BY <1>2, <2>1, CarsAndClassesMend
  <2>3. \A c \in Cars : KnowCars(cars)[c] = IF c \in cars /\ mCars[c] = None THEN Known
                                            ELSE mCars[c]
    BY <1>2, CarsEffect
  <2>4. ASSUME NEW c \in cars PROVE CarOf(c)' = c
    <3>1. c \in Cars
      BY <1>2
    <3>2. CASE mCars[c] \in {None, Known}
      BY <2>1, <2>3, <3>1, <3>2, CarKnownMeans
    <3>3. CASE mCars[c] \notin {None, Known}
      <4>1. mCars[c] \in Runs /\ RunCar[mCars[c]] = c
        BY <3>1, <3>3, RowTypes, MapsLeadToRows
      <4>2. item'[mCars[c]].car = c
        BY <2>2, <4>1
      <4>3. mCars'[c] = mCars[c]
        BY <2>1, <2>3, <3>1, <3>3
      <4> QED
        BY <3>1, <3>3, <4>2, <4>3, CarKnownMeans
    <3> QED
      BY <3>2, <3>3
  <2> QED
    BY <2>1, <2>4
<1>3. ASSUME NEW carClasses \in SUBSET Classes, setCarClasses(j, carClasses)
      PROVE  /\ j.kind = "classes"
             /\ \A c \in RegCars[mEventId] : ClassOf[c] \in mCarClasses'
  BY <1>0, <1>3 DEF setCarClasses, Outcome
<1> QED
  BY <1>1, <1>2, <1>3 DEF SetRelatedResult

LEMMA SetRelatedResultKnown ==
  ASSUME RowInv, KnownInv, NEW j \in jobs, SetRelatedResult(j), UNCHANGED mEventId
  PROVE  KnownInv'
<1>1. Mends /\ jobs' = jobs \ {j} /\ (failures' = 0 => failures = 0)
  BY RelatedResultEffect
<1>2. StillKnown /\ mCarClasses \subseteq mCarClasses'
  BY <1>1, MendsKnown DEF Mends
<1>3. \A kinds : Coming(kinds) /\ ~ (j.kind = "runs" \/ (j.kind \in kinds /\ j.event = mEventId))
                   => Coming(kinds)'
  BY <1>1 DEF Coming
<1>4. SUFFICES ASSUME failures' = 0, mEventId' # None
      PROVE  /\ \A d \in RegDrivers[mEventId] : DriverOf(d)' = d \/ Coming({"drivers"})'
             /\ \A c \in RegCars[mEventId] :
                  /\ CarOf(c)' = c \/ Coming({"cars"})'
                  /\ ClassOf[c] \in mCarClasses' \/ Coming({"classes"})'
  BY DEF KnownInv
<1>5. /\ RegDrivers[mEventId] \subseteq Drivers /\ RegCars[mEventId] \subseteq Cars
      /\ mEventId \in Events
  BY <1>4, TableAssumption DEF RowInv, TypeOK
<1>6. /\ \A d \in RegDrivers[mEventId] : DriverOf(d) = d \/ Coming({"drivers"})
      /\ \A c \in RegCars[mEventId] :
           /\ CarOf(c) = c \/ Coming({"cars"})
           /\ ClassOf[c] \in mCarClasses \/ Coming({"classes"})
  BY <1>1, <1>4 DEF KnownInv
<1>7. j.kind # "runs"
  BY RelatedResultEffect
<1>8. CASE j.event # mEventId
  BY <1>2, <1>3, <1>5, <1>6, <1>7, <1>8 DEF StillKnown
<1>9. CASE j.event = mEventId
  <2>1. /\ j.kind = "drivers" => \A d \in RegDrivers[mEventId] : DriverOf(d)' = d
        /\ j.kind = "cars" => \A c \in RegCars[mEventId] : CarOf(c)' = c
        /\ j.kind = "classes" => \A c \in RegCars[mEventId] : ClassOf[c] \in mCarClasses'
    BY <1>4, <1>5, <1>9, ResultKnown
  <2>2. /\ j.kind # "drivers" /\ Coming({"drivers"}) => Coming({"drivers"})'
        /\ j.kind # "cars" /\ Coming({"cars"}) => Coming({"cars"})'
        /\ j.kind # "classes" /\ Coming({"classes"}) => Coming({"classes"})'
    BY <1>3, <1>7
  <2>3. ASSUME NEW d \in RegDrivers[mEventId] PROVE DriverOf(d)' = d \/ Coming({"drivers"})'
    BY <1>2, <1>5, <1>6, <2>1, <2>2 DEF StillKnown
  <2>4. ASSUME NEW c \in RegCars[mEventId] PROVE CarOf(c)' = c \/ Coming({"cars"})'
    BY <1>2, <1>5, <1>6, <2>1, <2>2 DEF StillKnown
  <2>5. ASSUME NEW c \in RegCars[mEventId]
        PROVE  ClassOf[c] \in mCarClasses' \/ Coming({"classes"})'
    BY <1>2, <1>6, <2>1, <2>2
  <2> QED
    BY <2>3, <2>4, <2>5
<1> QED
  BY <1>8, <1>9

LEMMA NotificationKnown ==
  ASSUME RowInv, KnownInv, DeliverNotification PROVE KnownInv'
<1> DEFINE n == Head(notifs)
<1>1. /\ notifs # <<>>
      /\ runNotification(n) \/ RelatedNotification(n)
      /\ UNCHANGED <<jobs, failures, mEventId>>
  BY DEF DeliverNotification, RelatedNotification
<1>2. n.table = "run" => n.id \in Runs /\ n.ver \in Versions
  BY <1>1, HeadType
<1>3. CASE RelatedNotification(n)
  <2>1. Mends
    BY <1>1, <1>3, RelatedNotificationEffect
  <2> QED
    BY <1>1, <2>1, MendsKnown, KnownStep DEF Mends
<1> HIDE DEF n
<1>4. CASE runNotification(n)
  <2> DEFINE ver == [r \in Runs |-> n.ver]
             runs == {n.id}
  <2>1. /\ updateRuns(runs, ver) /\ mCarClasses' = mCarClasses
        /\ ver \in [Runs -> Versions] /\ runs \in SUBSET Runs
    BY <1>2, <1>4 DEF runNotification
  <2> HIDE DEF ver, runs
  <2>2. StillKnown
    BY <2>1, UpdateKnown
  <2> QED
    BY <1>1, <2>1, <2>2, KnownStep
<1> QED
  BY <1>1, <1>3, <1>4

LEMMA NextKnown ==
  ASSUME RowInv, KnownInv, [Next]_vars PROVE KnownInv'
<1>1. ASSUME UNCHANGED <<mEventId, item, mDrivers, mCars, mCarClasses>>,
             failures' = 0 => failures = 0,
             \A j \in jobs : \E k \in jobs' : k.kind = j.kind /\ k.event = j.event
      PROVE  KnownInv'
  <2>1. StillKnown
    BY <1>1, DriverKnownMeans, CarKnownMeans DEF StillKnown
  <2> QED
    BY <1>1, <2>1, KnownStep
<1>2. CASE (\E r \in Runs : InsertRun(r) \/ UpdateRunInDb(r) \/ DeleteRun(r)) \/ TouchRelated
  <2>1. Commit
    BY <1>2 DEF InsertRun, UpdateRunInDb, DeleteRun, TouchRelated
  <2> QED
    BY <1>1, <2>1 DEF Commit, rowVars, mapVars
<1>3. CASE ReadRuns
  <2>1. PICK j \in jobs : \E snapshot \in {dbRun, [r \in Runs |-> 0]} :
          /\ Outcome(snapshot, dbRun, [r \in Runs |-> 0])
          /\ jobs' = (jobs \ {j}) \cup {[j EXCEPT !.read = TRUE, !.data = snapshot]}
    BY <1>3 DEF ReadRuns
  <2>2. PICK snapshot \in {dbRun, [r \in Runs |-> 0]} :
          /\ jobs' = (jobs \ {j}) \cup {[j EXCEPT !.read = TRUE, !.data = snapshot]}
          /\ Outcome(snapshot, dbRun, [r \in Runs |-> 0])
    BY <2>1
  <2> DEFINE k == [j EXCEPT !.read = TRUE, !.data = snapshot]
  <2>3. k.kind = j.kind /\ k.event = j.event /\ jobs' = (jobs \ {j}) \cup {k}
    <3>1. j \in Job
      BY DEF RowInv, TypeOK
    <3> QED
      BY <2>2, <3>1 DEF Job
  <2> HIDE DEF k
  <2>4. failures' = 0 => failures = 0
    <3>1. failures \in Nat
      BY TableAssumption DEF RowInv, TypeOK
    <3> QED
      BY <2>2, <3>1 DEF Outcome
  <2>5. UNCHANGED <<mEventId, item, mDrivers, mCars, mCarClasses>>
    BY <1>3 DEF ReadRuns, rowVars, mapVars
  <2>6. \A i \in jobs : \E l \in jobs' : l.kind = i.kind /\ l.event = i.event
    BY <2>3
  <2> QED
    BY <1>1, <2>4, <2>5, <2>6
<1>4. CASE \E e \in Events : setEventId(e)
  <2>1. PICK e \in Events : setEventId(e)
    BY <1>4
  <2>2. Ask("runs", selections', e) \in jobs' /\ Ask("runs", selections', e).kind = "runs"
    BY <2>1 DEF setEventId, Ask
  <2>3. \A kinds : Coming(kinds)'
    BY <2>2 DEF Coming
  <2> QED
    BY <2>3 DEF KnownInv
<1>5. CASE DeliverResult
  <2>1. PICK j \in jobs : setRuns(j) \/ SetRelatedResult(j)
    BY <1>5 DEF DeliverResult, SetRelatedResult
  <2>2. mEventId' = mEventId
    BY <1>5 DEF DeliverResult
  <2>3. CASE setRuns(j)
    <3>1. \A k \in {"drivers", "cars", "classes"} : Ask(k, j.sel, mEventId) \in jobs'
      BY <2>3 DEF setRuns
    <3>2. \A k : Ask(k, j.sel, mEventId).kind = k /\ Ask(k, j.sel, mEventId).event = mEventId
      BY DEF Ask
    <3>3. Coming({"drivers"})' /\ Coming({"cars"})' /\ Coming({"classes"})'
      BY <2>2, <3>1, <3>2 DEF Coming
    <3> QED
      BY <3>3 DEF KnownInv
  <2> QED
    BY <2>1, <2>2, <2>3, SetRelatedResultKnown
<1>6. CASE DeliverNotification
  BY <1>6, NotificationKnown
<1>7. CASE UNCHANGED vars
  BY <1>1, <1>7 DEF vars
<1> QED
  BY <1>2, <1>3, <1>4, <1>5, <1>6, <1>7 DEF Next

(* While no query failed, the maps know every driver and every car that is *)
(* registered for the event, and the class of the car, or it is asked for. *)
THEOREM KnownInvariant == Spec => []KnownInv
<1>1. Init => KnownInv
  BY DEF Init, KnownInv
<1>2. RowInv /\ KnownInv /\ [Next]_vars => KnownInv'
  BY NextKnown
<1> QED
  BY RowInvariant, <1>1, <1>2, PTL DEF Spec

(* Once the queries of setEventId are answered, a run that comes in finds  *)
(* its registered driver and car in memory and shows them at once; its     *)
(* class is there, too, and the row does not take it (the comment at       *)
(* RunTableModel.cpp:398 and the code at :490).                            *)
THEOREM NewRunsAreReady == Spec => NewRunsFindWhatWasLoaded
<1> DEFINE Step ==
      jobs = {} /\ failures = 0 =>
        \A r \in mRuns' \ mRuns :
          /\ RunDriver[r] \in RegDrivers[mEventId] => item'[r].driver = RunDriver[r]
          /\ RunCar[r] \in RegCars[mEventId] =>
               /\ item'[r].car = RunCar[r]
               /\ ClassOf[RunCar[r]] \in mCarClasses /\ item'[r].class = None
<1>1. RowInv /\ KnownInv /\ [Next]_vars => [Step]_vars
  <2> SUFFICES ASSUME RowInv, KnownInv, [Next]_vars, jobs = {}, failures = 0,
                      NEW r \in mRuns' \ mRuns
               PROVE  /\ RunDriver[r] \in RegDrivers[mEventId] =>
                           item'[r].driver = RunDriver[r]
                      /\ RunCar[r] \in RegCars[mEventId] =>
                           /\ item'[r].car = RunCar[r]
                           /\ ClassOf[RunCar[r]] \in mCarClasses /\ item'[r].class = None
    OBVIOUS
  <2>1. RowInv' /\ NewRowsKnow
    BY NextRows
  <2>2. /\ RunEvent[r] = mEventId /\ item'[r].class = None
        /\ item'[r].driver = DriverOf(RunDriver[r]) /\ item'[r].car = CarOf(RunCar[r])
    BY <2>1 DEF NewRowsKnow
  <2>3. r \in Runs
    BY <2>1 DEF RowInv, TypeOK
  <2>4. mEventId # None
    BY <2>2, <2>3, TableAssumption
  <2>5. \A kinds : ~ Coming(kinds)
    BY DEF Coming
  <2> QED
    BY <2>2, <2>4, <2>5 DEF KnownInv
<1>2. NewRunsFindWhatWasLoaded <=> [][Step]_vars
  BY PTL DEF NewRunsFindWhatWasLoaded
<1> QED
  BY RowInvariant, KnownInvariant, <1>1, <1>2, PTL DEF Spec
=============================================================================
