---------------------- MODULE RegistrationTableProofs -----------------------
(***************************************************************************)
(* Proofs about RegistrationTable, for any finite set of registrations and *)
(* any bounds.  The inductive invariant comes in three layers, each        *)
(* inductive once the ones before it are known:                            *)
(*   CountInv  what the counter, the rows and the items have to do with    *)
(*             each other, enough for the type invariant and the counter;  *)
(*   FreshInv  versions: nothing on its way is newer than the database,    *)
(*             and the newest version of every registration of the event   *)
(*             has been heard of or is still on its way;                   *)
(*   LoadInv   what a row still lacks is asked for by a query on its way.  *)
(***************************************************************************)
EXTENDS RegistrationTable, FiniteSetTheorems, SequenceTheorems,
        WellFoundedInduction, TLAPS

-----------------------------------------------------------------------------
(* Facts about numbers, sets and sequences.                                *)

(* A set of numbers that is not empty has a least one.  This takes the     *)
(* place of induction: a property of numbers that fails somewhere has a    *)
(* least number where it fails.                                            *)
LEMMA LeastNumber ==
  ASSUME NEW S \in SUBSET Nat, S # {}
  PROVE  \E x \in S : \A y \in S : x <= y
<1> DEFINE Less == {ss \in Nat \X Nat : ss[1] < ss[2]}
<1>1. IsWellFoundedOn(Less, Nat)
  BY NatLessThanWellFounded DEF OpToRel
<1>2. \A x, y \in Nat : y < x => <<y, x>> \in Less
  OBVIOUS
<1> HIDE DEF Less
<1>3. PICK x \in S : \A y \in S : ~ (<<y, x>> \in Less)
  BY <1>1, WFMin
<1>4. \A y \in S : ~ (y < x)
  BY <1>2, <1>3
<1> QED
  BY <1>4

(* Max(I) is in I, and no number of I is greater: Max of FiniteSetsExt is  *)
(* a CHOOSE.                                                               *)
LEMMA MaxOfPositions ==
  ASSUME NEW n \in Nat, NEW I \in SUBSET (1..n), I # {}
  PROVE  Max(I) \in I /\ \A i \in I : i <= Max(I)
<1> DEFINE D == {d \in Nat : n - d \in I}
<1>1. \A i \in I : i \in Nat /\ n - i \in Nat /\ n - (n - i) = i
  OBVIOUS
<1>2. D \in SUBSET Nat /\ D # {} /\ \A i \in I : n - i \in D
  BY <1>1
<1>3. \A d \in D : n - d \in I
  OBVIOUS
<1> HIDE DEF D
<1>4. PICK d \in D : \A y \in D : d <= y
  BY <1>2, LeastNumber
<1>5. \A j \in I : n - d >= j
  BY <1>1, <1>2, <1>4
<1> QED
  BY <1>3, <1>4, <1>5 DEF Max

(* The sequences in SetToSeqs(S) list the elements of S, each once.        *)
LEMMA SetToSeqsElements ==
  ASSUME NEW S, IsFiniteSet(S), NEW list \in SetToSeqs(S)
  PROVE  /\ list \in Seq(S) /\ ToSet(list) = S
         /\ \A i, j \in DOMAIN list : list[i] = list[j] => i = j
<1> DEFINE n == Cardinality(S)
<1>1. n \in Nat
  BY FS_CardinalityType
<1>2. list \in Injection(1..n, S)
  BY DEF SetToSeqs, Injection, IsInjective
<1>3. Cardinality(1..n) = n
  BY <1>1, FS_Interval
<1>4. list \in Surjection(1..n, S)
  BY <1>2, <1>3, FS_Injection
<1>5. list \in [1..n -> S] /\ DOMAIN list = 1..n
  BY DEF SetToSeqs
<1>6. list \in Seq(S) /\ ToSet(list) = S
  BY <1>1, <1>4, <1>5, SeqDef DEF Surjection, ToSet
<1>7. \A i, j \in DOMAIN list : list[i] = list[j] => i = j
  BY <1>2, <1>5 DEF Injection, IsInjective
<1> QED
  BY <1>6, <1>7

(* What a queue holds after something is appended, or its head taken.      *)
LEMMA AppendElements ==
  ASSUME NEW S, NEW q \in Seq(S), NEW x \in S
  PROVE  ToSet(Append(q, x)) = ToSet(q) \cup {x}
<1>1. /\ DOMAIN Append(q, x) = 1..(Len(q) + 1) /\ DOMAIN q = 1..Len(q) /\ Len(q) \in Nat
      /\ \A i \in 1..Len(q) : Append(q, x)[i] = q[i]
      /\ Append(q, x)[Len(q) + 1] = x
  BY AppendProperties
<1>2. \A i \in 1..(Len(q) + 1) : i \in 1..Len(q) \/ i = Len(q) + 1
  BY <1>1
<1>3. \A i \in 1..Len(q) : i \in 1..(Len(q) + 1)
  BY <1>1
<1>4. Len(q) + 1 \in 1..(Len(q) + 1)
  BY <1>1
<1> QED
  BY <1>1, <1>2, <1>3, <1>4 DEF ToSet

LEMMA TailElements ==
  ASSUME NEW S, NEW q \in Seq(S), q # <<>>
  PROVE  /\ Head(q) \in ToSet(q) /\ ToSet(q) = {Head(q)} \cup ToSet(Tail(q))
         /\ ToSet(q) \subseteq S
<1>1. /\ Len(q) \in Nat \ {0} /\ DOMAIN q = 1..Len(q) /\ Head(q) = q[1]
      /\ DOMAIN Tail(q) = 1..(Len(q) - 1)
      /\ \A i \in 1..(Len(q) - 1) : Tail(q)[i] = q[i + 1]
  BY HeadTailProperties, EmptySeq
<1>2. \A i \in 1..Len(q) : i = 1 \/ (i - 1 \in 1..(Len(q) - 1) /\ i = (i - 1) + 1)
  BY <1>1
<1>3. \A i \in 1..(Len(q) - 1) : i + 1 \in 1..Len(q)
  BY <1>1
<1>4. 1 \in 1..Len(q)
  BY <1>1
<1>5. ToSet(Tail(q)) \subseteq ToSet(q) /\ Head(q) \in ToSet(q)
  BY <1>1, <1>3, <1>4 DEF ToSet
<1>6. ASSUME NEW x \in ToSet(q) PROVE x = Head(q) \/ x \in ToSet(Tail(q))
  <2>1. PICK i \in 1..Len(q) : x = q[i]
    BY <1>1 DEF ToSet
  <2>2. CASE i = 1
    BY <1>1, <2>1, <2>2
  <2>3. CASE i # 1
    <3>1. i - 1 \in 1..(Len(q) - 1) /\ Tail(q)[i - 1] = q[i]
      BY <1>1, <1>2, <2>1, <2>3
    <3> QED
      BY <1>1, <2>1, <3>1 DEF ToSet
  <2> QED
    BY <2>2, <2>3
<1>7. ToSet(q) \subseteq S
  BY <1>1 DEF ToSet
<1> QED
  BY <1>5, <1>6, <1>7

(* Taking B out of C and putting A in changes the number of elements by    *)
(* those of A and those of B.                                              *)
LEMMA CardinalityChange ==
  ASSUME NEW C, IsFiniteSet(C), NEW A, IsFiniteSet(A), NEW B \in SUBSET C, A \cap C = {}
  PROVE  /\ IsFiniteSet((C \ B) \cup A)
         /\ Cardinality((C \ B) \cup A) = Cardinality(C) + Cardinality(A) - Cardinality(B)
         /\ Cardinality(A) \in Nat /\ Cardinality(B) \in Nat /\ Cardinality(C) \in Nat
         /\ Cardinality(B) <= Cardinality(C)
<1>1. C \cap B = B /\ (C \ B) \cap A = {}
  OBVIOUS
<1>2. IsFiniteSet(B) /\ Cardinality(B) <= Cardinality(C)
  BY FS_Subset
<1>3. Cardinality(A) \in Nat /\ Cardinality(B) \in Nat /\ Cardinality(C) \in Nat
  BY <1>2, FS_CardinalityType
<1>4. IsFiniteSet(C \ B) /\ Cardinality(C \ B) = Cardinality(C) - Cardinality(B)
  BY <1>1, FS_Difference
<1>5. Cardinality({}) = 0
  BY FS_EmptySet
<1>6. /\ IsFiniteSet((C \ B) \cup A)
      /\ Cardinality((C \ B) \cup A)
           = Cardinality(C \ B) + Cardinality(A) - Cardinality((C \ B) \cap A)
  BY <1>4, FS_Union
<1>7. Cardinality((C \ B) \cap A) = 0
  BY <1>1, <1>5
<1>8. Cardinality((C \ B) \cup A) = Cardinality(C) - Cardinality(B) + Cardinality(A) - 0
  BY <1>4, <1>6, <1>7
<1> QED
  BY <1>2, <1>3, <1>6, <1>8

-----------------------------------------------------------------------------
(* Layer 1.  The counter can be a natural number because it covers the     *)
(* rows that are checked in; it moves with them because a registration     *)
(* that has no row has an unchecked item.                                  *)
RowsOfEvent == \A r \in mEventRegistrations : RegEvent[r] = mEventId

CountInv ==
  /\ TypeOK
  /\ \A r \in Regs : db[r].ver <= changes + edits + 1
  /\ mEventId = None => jobs = {}
  /\ \A r \in Regs \ mEventRegistrations : ~item[r].in
  /\ RowsOfEvent
  /\ CountCoversRows

(* Layer 2.  What is on its way or in the table says the same as the       *)
(* database, or is older.                                                  *)
AsInDb(r, row) == row.ver <= db[r].ver /\ (row.ver = db[r].ver => row.in = db[r].in)

News == {n \in ToSet(notifs) : n.table = "registration"}

NothingNewer ==
  /\ \A r \in Regs : AsInDb(r, NoRow) /\ seen[r] <= db[r].ver
  /\ \A j \in jobs, r \in Regs : AsInDb(r, j.data[r])
  /\ \A n \in News : AsInDb(n.id, n.row)
  /\ \A r \in mEventRegistrations : item[r].ver <= db[r].ver /\ (failures = 0 => AsInDb(r, item[r]))

RowsAsHeard == \A r \in mEventRegistrations \ overtaken : item[r].ver = seen[r]

(* The newest version of r has been heard of, or its notification or a     *)
(* query that has read it, or will, is on its way.                         *)
NewsComing(r) ==
  \/ seen[r] = db[r].ver
  \/ \E n \in News : n.id = r /\ n.row.ver = db[r].ver
  \/ \E j \in jobs : /\ j.kind = "registrations" /\ j.event = mEventId
                     /\ ~j.read \/ j.data[r].ver = db[r].ver

NoNewsMissed ==
  failures = 0 => \A r \in Regs : RegEvent[r] = mEventId => NewsComing(r)

FreshInv == NothingNewer /\ RowsAsHeard /\ NoNewsMissed

(* Layer 3.  A registration without a row that no query will bring.        *)
Awaited(r) ==
  \E j \in jobs : /\ j.kind = "registrations" /\ j.event = mEventId
                  /\ ~j.read \/ j.data[r].ver > 0

Lost == {r \in Registered(mEventId) : r \notin mEventRegistrations /\ ~Awaited(r)}

(* A row's registration is in the database: nothing deletes it there.      *)
RowsRegistered == \A r \in mEventRegistrations : db[r].ver > 0

(* The maps lead to a row of the driver or the car, whenever there is one. *)
MapsLeadToRows ==
  /\ \A d \in Drivers : mDrivers[d] # None =>
       mDrivers[d] \in mEventRegistrations /\ RegDriver[mDrivers[d]] = d
  /\ \A c \in Cars : mCars[c] # None =>
       mCars[c] \in mEventRegistrations /\ RegCar[mCars[c]] = c
  /\ \A r \in mEventRegistrations : mDrivers[RegDriver[r]] # None /\ mCars[RegCar[r]] # None

ItemsShowTheirOwn ==
  \A r \in Regs : /\ item[r].driver \in {None, RegDriver[r]}
                  /\ item[r].car \in {None, RegCar[r]}

(* A query of one of the kinds for the event, or one that will ask it.     *)
Coming(kinds) ==
  \E j \in jobs : j.kind = "registrations" \/ (j.kind \in kinds /\ j.event = mEventId)

Alone(r) ==
  \A s \in mEventRegistrations \ {r} : RegDriver[s] # RegDriver[r] /\ RegCar[s] # RegCar[r]

RowComplete(r) ==
  /\ ClassOf[RegCar[r]] \in mCarClasses \/ Coming({"classes"})
  /\ Alone(r) =>
       /\ item[r].driver = RegDriver[r] \/ Coming({"drivers"})
       /\ item[r].car = RegCar[r] \/ Coming({"cars"})
       /\ item[r].class = ClassOf[RegCar[r]] \/ Coming({"cars", "classes"})

LoadInv ==
  /\ RowsRegistered
  /\ MapsLeadToRows
  /\ ItemsShowTheirOwn
  /\ failures = 0 =>
       /\ mEventId # None => Cardinality(Lost) <= changes
       /\ \A r \in mEventRegistrations : RowComplete(r)

-----------------------------------------------------------------------------
(* What the handlers do to the items: updateDriver, updateCar and          *)
(* updateCarClasses each set one pointer, and only in rows their map leads *)
(* to.                                                                     *)

LEMMA WithDriversEffect ==
  ASSUME TypeOK, NEW ds \in SUBSET Drivers
  PROVE  /\ WithDrivers(ds) \in [Regs -> DataItem]
         /\ \A r \in Regs :
              /\ WithDrivers(ds)[r].ver = item[r].ver /\ WithDrivers(ds)[r].in = item[r].in
              /\ WithDrivers(ds)[r].car = item[r].car
              /\ WithDrivers(ds)[r].class = item[r].class
              /\ IF \E d \in ds : mDrivers[d] = r
                 THEN WithDrivers(ds)[r].driver \in ds /\ mDrivers[WithDrivers(ds)[r].driver] = r
                 ELSE WithDrivers(ds)[r].driver = item[r].driver
<1>1. \A r \in Regs : item[r] \in DataItem
  BY DEF TypeOK
<1>2. ASSUME NEW r \in Regs
      PROVE  /\ WithDrivers(ds)[r] \in DataItem
             /\ WithDrivers(ds)[r].ver = item[r].ver /\ WithDrivers(ds)[r].in = item[r].in
             /\ WithDrivers(ds)[r].car = item[r].car
             /\ WithDrivers(ds)[r].class = item[r].class
             /\ IF \E d \in ds : mDrivers[d] = r
                THEN WithDrivers(ds)[r].driver \in ds /\ mDrivers[WithDrivers(ds)[r].driver] = r
                ELSE WithDrivers(ds)[r].driver = item[r].driver
  <2>1. CASE \E d \in ds : mDrivers[d] = r
    <3> DEFINE x == CHOOSE d \in ds : mDrivers[d] = r
    <3>1. x \in ds /\ mDrivers[x] = r /\ x \in Drivers
      BY <2>1
    <3> HIDE DEF x
    <3>2. WithDrivers(ds)[r] = [item[r] EXCEPT !.driver = x]
      BY <2>1 DEF WithDrivers, x
    <3> QED
      BY <1>1, <2>1, <3>1, <3>2 DEF DataItem
  <2>2. CASE ~ \E d \in ds : mDrivers[d] = r
    <3>1. WithDrivers(ds)[r] = item[r]
      BY <2>2 DEF WithDrivers
    <3> QED
      BY <1>1, <2>2, <3>1
  <2> QED
    BY <2>1, <2>2
<1>3. WithDrivers(ds) \in [Regs -> DataItem]
  BY <1>2 DEF WithDrivers
<1> QED
  BY <1>2, <1>3

LEMMA WithCarsEffect ==
  ASSUME TypeOK, NEW cs \in SUBSET Cars
  PROVE  /\ WithCars(cs) \in [Regs -> DataItem]
         /\ \A r \in Regs :
              /\ WithCars(cs)[r].ver = item[r].ver /\ WithCars(cs)[r].in = item[r].in
              /\ WithCars(cs)[r].driver = item[r].driver
              /\ WithCars(cs)[r].class = item[r].class
              /\ IF \E c \in cs : mCars[c] = r
                 THEN WithCars(cs)[r].car \in cs /\ mCars[WithCars(cs)[r].car] = r
                 ELSE WithCars(cs)[r].car = item[r].car
<1>1. \A r \in Regs : item[r] \in DataItem
  BY DEF TypeOK
<1>2. ASSUME NEW r \in Regs
      PROVE  /\ WithCars(cs)[r] \in DataItem
             /\ WithCars(cs)[r].ver = item[r].ver /\ WithCars(cs)[r].in = item[r].in
             /\ WithCars(cs)[r].driver = item[r].driver
             /\ WithCars(cs)[r].class = item[r].class
             /\ IF \E c \in cs : mCars[c] = r
                THEN WithCars(cs)[r].car \in cs /\ mCars[WithCars(cs)[r].car] = r
                ELSE WithCars(cs)[r].car = item[r].car
  <2>1. CASE \E c \in cs : mCars[c] = r
    <3> DEFINE x == CHOOSE c \in cs : mCars[c] = r
    <3>1. x \in cs /\ mCars[x] = r /\ x \in Cars
      BY <2>1
    <3> HIDE DEF x
    <3>2. WithCars(cs)[r] = [item[r] EXCEPT !.car = x]
      BY <2>1 DEF WithCars, x
    <3> QED
      BY <1>1, <2>1, <3>1, <3>2 DEF DataItem
  <2>2. CASE ~ \E c \in cs : mCars[c] = r
    <3>1. WithCars(cs)[r] = item[r]
      BY <2>2 DEF WithCars
    <3> QED
      BY <1>1, <2>2, <3>1
  <2> QED
    BY <2>1, <2>2
<1>3. WithCars(cs) \in [Regs -> DataItem]
  BY <1>2 DEF WithCars
<1> QED
  BY <1>2, <1>3

LEMMA WithClassesEffect ==
  ASSUME NEW items \in [Regs -> DataItem], NEW classes \in SUBSET Classes
  PROVE  /\ WithClasses(items, classes) \in [Regs -> DataItem]
         /\ \A r \in Regs :
              /\ WithClasses(items, classes)[r].ver = items[r].ver
              /\ WithClasses(items, classes)[r].in = items[r].in
              /\ WithClasses(items, classes)[r].driver = items[r].driver
              /\ WithClasses(items, classes)[r].car = items[r].car
              /\ WithClasses(items, classes)[r].class
                   = IF /\ \E c \in Cars : mCars[c] = r
                        /\ items[r].car # None /\ ClassOf[items[r].car] \in classes
                     THEN ClassOf[items[r].car] ELSE items[r].class
<1>1. \A r \in Regs : WithClasses(items, classes)[r]
        = IF (\E c \in Cars : mCars[c] = r) /\ items[r].car # None
               /\ ClassOf[items[r].car] \in classes
          THEN [items[r] EXCEPT !.class = ClassOf[items[r].car]] ELSE items[r]
  BY DEF WithClasses
<1>2. ASSUME NEW r \in Regs
      PROVE  items[r] \in DataItem /\ WithClasses(items, classes)[r] \in DataItem
  <2>1. items[r] \in DataItem
    OBVIOUS
  <2>2. items[r].car # None => ClassOf[items[r].car] \in Classes
    BY <2>1, RegistrationAssumption DEF DataItem
  <2> QED
    BY <1>1, <2>1, <2>2 DEF DataItem
<1>3. WithClasses(items, classes) \in [Regs -> DataItem]
  BY <1>2 DEF WithClasses
<1> QED
  BY <1>1, <1>2, <1>3 DEF DataItem

(* LastWith gives an element of the list with the value asked for.         *)
LEMMA LastWithEffect ==
  ASSUME NEW S, NEW list \in Seq(S), NEW column, NEW x,
         \E r \in ToSet(list) : column[r] = x
  PROVE  /\ LastWith(list, column, x) \in ToSet(list)
         /\ column[LastWith(list, column, x)] = x
<1> DEFINE I == {i \in DOMAIN list : column[list[i]] = x}
<1>1. Len(list) \in Nat /\ DOMAIN list = 1..Len(list)
  OBVIOUS
<1>2. I \in SUBSET (1..Len(list)) /\ I # {}
  BY <1>1 DEF ToSet
<1>3. \A i \in I : list[i] \in ToSet(list) /\ column[list[i]] = x
  BY DEF ToSet
<1>4. LastWith(list, column, x) = list[Max(I)]
  BY DEF LastWith
<1> HIDE DEF I
<1>5. Max(I) \in I
  BY <1>1, <1>2, MaxOfPositions
<1> QED
  BY <1>3, <1>4, <1>5

(* updateEventRegistration: the touched registrations have a row, with the *)
(* new message, and the maps lead from their driver and car to one of them.*)
LEMMA UpdateEffect ==
  ASSUME TypeOK, NEW regs \in SUBSET Regs, NEW rows \in [Regs -> Row],
         updateRegistrations(regs, rows), NEW touched, touched = OfThisEvent(regs)
  PROVE  /\ touched \in SUBSET Regs /\ IsFiniteSet(touched)
         /\ mEventRegistrations' = mEventRegistrations \cup touched
         /\ item' \in [Regs -> DataItem]
         /\ \A r \in Regs :
              /\ item'[r].ver = IF r \in touched THEN rows[r].ver ELSE item[r].ver
              /\ item'[r].in = IF r \in touched THEN rows[r].in ELSE item[r].in
              /\ item'[r].driver = item[r].driver /\ item'[r].car = item[r].car
              /\ item'[r].class = item[r].class
         /\ mDrivers' \in [Drivers -> Regs \cup {None}]
         /\ \A d \in Drivers : IF \E r \in touched : RegDriver[r] = d
              THEN mDrivers'[d] \in touched /\ RegDriver[mDrivers'[d]] = d
              ELSE mDrivers'[d] = mDrivers[d]
         /\ mCars' \in [Cars -> Regs \cup {None}]
         /\ \A c \in Cars : IF \E r \in touched : RegCar[r] = c
              THEN mCars'[c] \in touched /\ RegCar[mCars'[c]] = c
              ELSE mCars'[c] = mCars[c]
         /\ mNumCheckedInEntries' = mNumCheckedInEntries + CheckedInChange(touched, rows)
         /\ touched = {} => UNCHANGED statusBar
         /\ touched # {} => EmitNumEntries
         /\ overtaken' \in SUBSET Regs
         /\ \A r \in Regs : r \in overtaken' <=> IF r \in touched THEN rows[r].ver < seen[r]
                                                ELSE r \in overtaken
<1>1. touched \in SUBSET Regs /\ IsFiniteSet(touched)
  BY RegistrationAssumption, FS_Subset DEF OfThisEvent
<1>2. PICK list \in SetToSeqs(touched) :
         LET t == ToSet(list) IN
         /\ mEventRegistrations' = mEventRegistrations \cup t
         /\ item' = [r \in Regs |-> IF r \in t
                       THEN [item[r] EXCEPT !.ver = rows[r].ver, !.in = rows[r].in]
                       ELSE item[r]]
         /\ mDrivers' = [d \in Drivers |-> IF \E r \in t : RegDriver[r] = d
                          THEN LastWith(list, RegDriver, d) ELSE mDrivers[d]]
         /\ mCars' = [c \in Cars |-> IF \E r \in t : RegCar[r] = c
                       THEN LastWith(list, RegCar, c) ELSE mCars[c]]
         /\ mNumCheckedInEntries' = mNumCheckedInEntries + CheckedInChange(t, rows)
         /\ IF t = {} THEN UNCHANGED statusBar ELSE EmitNumEntries
         /\ overtaken' = (overtaken \ t) \cup {r \in t : rows[r].ver < seen[r]}
  BY DEF updateRegistrations
<1>3. list \in Seq(touched) /\ ToSet(list) = touched
  BY <1>1, SetToSeqsElements
<1>4. \A d \in Drivers : (\E r \in touched : RegDriver[r] = d) =>
        LastWith(list, RegDriver, d) \in touched /\ RegDriver[LastWith(list, RegDriver, d)] = d
  BY <1>3, LastWithEffect
<1>5. \A c \in Cars : (\E r \in touched : RegCar[r] = c) =>
        LastWith(list, RegCar, c) \in touched /\ RegCar[LastWith(list, RegCar, c)] = c
  BY <1>3, LastWithEffect
<1>6. /\ mDrivers' \in [Drivers -> Regs \cup {None}]
      /\ \A d \in Drivers : IF \E r \in touched : RegDriver[r] = d
           THEN mDrivers'[d] \in touched /\ RegDriver[mDrivers'[d]] = d
           ELSE mDrivers'[d] = mDrivers[d]
  BY <1>1, <1>2, <1>3, <1>4 DEF TypeOK
<1>7. /\ mCars' \in [Cars -> Regs \cup {None}]
      /\ \A c \in Cars : IF \E r \in touched : RegCar[r] = c
           THEN mCars'[c] \in touched /\ RegCar[mCars'[c]] = c
           ELSE mCars'[c] = mCars[c]
  BY <1>1, <1>2, <1>3, <1>5 DEF TypeOK
<1>8. /\ mEventRegistrations' = mEventRegistrations \cup touched
      /\ item' = [r \in Regs |-> IF r \in touched
                    THEN [item[r] EXCEPT !.ver = rows[r].ver, !.in = rows[r].in]
                    ELSE item[r]]
      /\ mNumCheckedInEntries' = mNumCheckedInEntries + CheckedInChange(touched, rows)
      /\ IF touched = {} THEN UNCHANGED statusBar ELSE EmitNumEntries
      /\ overtaken' = (overtaken \ touched) \cup {r \in touched : rows[r].ver < seen[r]}
  BY <1>2, <1>3
<1>9. \A r \in Regs : item[r] \in DataItem /\ rows[r] \in Row
  BY DEF TypeOK
<1>10. ASSUME NEW r \in Regs
       PROVE  /\ item'[r] \in DataItem
              /\ item'[r].ver = IF r \in touched THEN rows[r].ver ELSE item[r].ver
              /\ item'[r].in = IF r \in touched THEN rows[r].in ELSE item[r].in
              /\ item'[r].driver = item[r].driver /\ item'[r].car = item[r].car
              /\ item'[r].class = item[r].class
  BY <1>8, <1>9 DEF DataItem, Row
<1>11. item' \in [Regs -> DataItem]
  BY <1>8, <1>10
<1>12. /\ overtaken' \in SUBSET Regs
       /\ \A r \in Regs : r \in overtaken' <=> IF r \in touched THEN rows[r].ver < seen[r]
                                              ELSE r \in overtaken
  BY <1>1, <1>8 DEF TypeOK
<1> QED
  BY <1>1, <1>6, <1>7, <1>8, <1>10, <1>11, <1>12

-----------------------------------------------------------------------------
(* Layer 1.                                                                *)

LEMMA CheckedInFinite ==
  ASSUME TypeOK
  PROVE  /\ IsFiniteSet(CheckedIn) /\ Cardinality(CheckedIn) \in Nat
         /\ IsFiniteSet(mEventRegistrations) /\ Cardinality(mEventRegistrations) \in Nat
<1>1. mEventRegistrations \in SUBSET Regs /\ CheckedIn \in SUBSET Regs /\ IsFiniteSet(Regs)
  BY RegistrationAssumption DEF TypeOK, CheckedIn
<1>2. IsFiniteSet(mEventRegistrations) /\ IsFiniteSet(CheckedIn)
  BY <1>1, FS_Subset
<1> QED
  BY <1>2, FS_CardinalityType

(* A step that keeps the rows, what is checked in, the counter and the     *)
(* status bar keeps what relates them.                                     *)
LEMMA CountKept ==
  ASSUME CountInv, UNCHANGED <<mEventRegistrations, mNumCheckedInEntries, statusBar>>,
         \A r \in Regs : item'[r].in = item[r].in
  PROVE  /\ CheckedIn' = CheckedIn /\ CountCoversRows'
         /\ \A r \in Regs \ mEventRegistrations' : ~item'[r].in
<1>1. CheckedIn' = CheckedIn
  BY DEF CheckedIn, CountInv, TypeOK
<1> QED
  BY <1>1 DEF CountInv, CountCoversRows

(* updateEventRegistration counts the changes: the rows that get checked   *)
(* in were not, and those that get unchecked were.                         *)
LEMMA UpdateCounts ==
  ASSUME CountInv, NEW regs \in SUBSET Regs, NEW rows \in [Regs -> Row],
         updateRegistrations(regs, rows), UNCHANGED mEventId
  PROVE  /\ mEventRegistrations' \subseteq Regs /\ item' \in [Regs -> DataItem]
         /\ mNumCheckedInEntries' \in Nat /\ statusBar' \in [entries : Nat, in : Nat]
         /\ mDrivers' \in [Drivers -> Regs \cup {None}] /\ mCars' \in [Cars -> Regs \cup {None}]
         /\ overtaken' \subseteq Regs
         /\ \A r \in Regs \ mEventRegistrations' : ~item'[r].in
         /\ RowsOfEvent' /\ CountCoversRows'
         /\ mNumCheckedInEntries' - mNumCheckedInEntries
              = Cardinality(CheckedIn') - Cardinality(CheckedIn)
<1> DEFINE touched == OfThisEvent(regs)
           A == {r \in touched : rows[r].in /\ ~item[r].in}
           B == {r \in touched : ~rows[r].in /\ item[r].in}
<1>0. TypeOK /\ mEventRegistrations \subseteq Regs /\ item \in [Regs -> DataItem]
  BY DEF CountInv, TypeOK
<1>1. touched = OfThisEvent(regs)
  OBVIOUS
<1>2. CheckedInChange(touched, rows) = Cardinality(A) - Cardinality(B)
  BY DEF CheckedInChange
<1> HIDE DEF touched, A, B
<1>3. /\ touched \in SUBSET Regs /\ IsFiniteSet(touched)
      /\ mEventRegistrations' = mEventRegistrations \cup touched
      /\ item' \in [Regs -> DataItem]
      /\ \A r \in Regs : item'[r].in = IF r \in touched THEN rows[r].in ELSE item[r].in
      /\ mDrivers' \in [Drivers -> Regs \cup {None}] /\ mCars' \in [Cars -> Regs \cup {None}]
      /\ overtaken' \in SUBSET Regs
  BY <1>0, <1>1, UpdateEffect
<1>4. /\ mNumCheckedInEntries' = mNumCheckedInEntries + CheckedInChange(touched, rows)
      /\ touched = {} => UNCHANGED statusBar
      /\ touched # {} => EmitNumEntries
  BY <1>0, <1>1, UpdateEffect
<1>5. \A r \in touched : RegEvent[r] = mEventId
  BY <1>1 DEF OfThisEvent
<1>6. B \in SUBSET CheckedIn /\ A \cap CheckedIn = {} /\ A \in SUBSET touched
  BY <1>3 DEF CheckedIn, CountInv, A, B
<1>7. CheckedIn' = (CheckedIn \ B) \cup A
  <2>1. CheckedIn' \subseteq Regs /\ CheckedIn \subseteq Regs /\ A \subseteq Regs
    BY <1>0, <1>3, <1>6 DEF CheckedIn
  <2>2. \A r \in Regs : r \in CheckedIn' <=> r \in (CheckedIn \ B) \cup A
    BY <1>3 DEF CheckedIn, A, B, CountInv
  <2> QED
    BY <2>1, <2>2
<1>8. IsFiniteSet(A) /\ IsFiniteSet(CheckedIn)
  BY <1>0, <1>3, <1>6, CheckedInFinite, FS_Subset
<1>9. /\ Cardinality(CheckedIn') = Cardinality(CheckedIn) + Cardinality(A) - Cardinality(B)
      /\ Cardinality(A) \in Nat /\ Cardinality(B) \in Nat /\ Cardinality(CheckedIn) \in Nat
      /\ Cardinality(B) <= Cardinality(CheckedIn)
  <2>1. IsFiniteSet(B) /\ Cardinality(B) <= Cardinality(CheckedIn)
    BY <1>6, <1>8, FS_Subset
  <2>2. Cardinality(A) \in Nat /\ Cardinality(B) \in Nat /\ Cardinality(CheckedIn) \in Nat
    BY <1>8, <2>1, FS_CardinalityType
  <2>3. B \in SUBSET CheckedIn /\ A \cap CheckedIn = {}
    BY <1>6
  <2>4. Cardinality((CheckedIn \ B) \cup A)
          = Cardinality(CheckedIn) + Cardinality(A) - Cardinality(B)
    BY <1>8, <2>3, CardinalityChange
  <2> QED
    BY <1>7, <2>1, <2>2, <2>4
<1>10. mNumCheckedInEntries \in Nat /\ mNumCheckedInEntries >= Cardinality(CheckedIn)
  BY DEF CountInv, TypeOK, CountCoversRows
<1>11. /\ mNumCheckedInEntries' = mNumCheckedInEntries + (Cardinality(A) - Cardinality(B))
       /\ mNumCheckedInEntries' \in Nat
       /\ mNumCheckedInEntries' >= Cardinality(CheckedIn')
       /\ mNumCheckedInEntries' - mNumCheckedInEntries
            = Cardinality(CheckedIn') - Cardinality(CheckedIn)
  <2>1. mNumCheckedInEntries' = mNumCheckedInEntries + (Cardinality(A) - Cardinality(B))
    BY <1>2, <1>4
  <2> QED
    BY <1>9, <1>10, <2>1
<1>12. IsFiniteSet(mEventRegistrations) /\ mEventRegistrations' \in SUBSET Regs
  BY <1>0, <1>3, CheckedInFinite
<1>13. Cardinality(mEventRegistrations') \in Nat
  BY <1>12, RegistrationAssumption, FS_Subset, FS_CardinalityType
<1>14. /\ statusBar' \in [entries : Nat, in : Nat]
       /\ mEventRegistrations' # {} =>
            statusBar' = [entries |-> Cardinality(mEventRegistrations'),
                          in |-> mNumCheckedInEntries']
  <2>1. CASE touched = {}
    <3>1. A = {} /\ B = {}
      BY <2>1 DEF A, B
    <3>2. Cardinality(A) = 0 /\ Cardinality(B) = 0
      BY <3>1, FS_EmptySet
    <3>3. /\ mNumCheckedInEntries' = mNumCheckedInEntries /\ statusBar' = statusBar
          /\ mEventRegistrations' = mEventRegistrations
      BY <1>3, <1>4, <1>10, <1>11, <2>1, <3>2
    <3> QED
      BY <3>3 DEF CountInv, TypeOK, CountCoversRows
  <2>2. CASE touched # {}
    <3>1. statusBar' = [entries |-> Cardinality(mEventRegistrations'),
                        in |-> mNumCheckedInEntries']
      BY <1>4, <2>2 DEF EmitNumEntries
    <3> QED
      BY <1>11, <1>13, <3>1
  <2> QED
    BY <2>1, <2>2
<1>15. RowsOfEvent'
  BY <1>3, <1>5 DEF CountInv, RowsOfEvent
<1>16. \A r \in Regs \ mEventRegistrations' : ~item'[r].in
  BY <1>3 DEF CountInv
<1>17. CountCoversRows'
  BY <1>11, <1>14 DEF CountCoversRows
<1> QED
  BY <1>3, <1>11, <1>12, <1>14, <1>15, <1>16, <1>17

LEMMA AskType ==
  ASSUME NEW kind \in {"registrations", "drivers", "cars", "classes"},
         NEW sel \in 1..MaxSelections, NEW event \in Events
  PROVE  Ask(kind, sel, event) \in Job
<1>1. NoRow \in Row
  BY RegistrationAssumption DEF NoRow, Row, Versions
<1> QED
  BY <1>1 DEF Ask, Job

LEMMA InitCountInv == Init => CountInv
<1> SUFFICES ASSUME Init PROVE CountInv
  OBVIOUS
<1>1. ASSUME NEW r \in Regs PROVE db[r] \in Row /\ db[r].ver <= 1
  <2>1. db[r] \in {NoRow, [ver |-> 1, in |-> FALSE], [ver |-> 1, in |-> TRUE]}
    BY DEF Init
  <2>2. 0 \in Versions /\ 1 \in Versions
    BY RegistrationAssumption DEF Versions
  <2>3. CASE db[r] = NoRow
    BY <2>2, <2>3 DEF NoRow, Row
  <2>4. CASE db[r] = [ver |-> 1, in |-> FALSE]
    BY <2>2, <2>4 DEF Row
  <2>5. CASE db[r] = [ver |-> 1, in |-> TRUE]
    BY <2>2, <2>5 DEF Row
  <2> QED
    BY <2>1, <2>3, <2>4, <2>5
<1> USE RegistrationAssumption DEF Init
<1>2. db \in [Regs -> Row]
  BY <1>1
<1>3. NoItem \in DataItem /\ ~NoItem.in
  BY DEF NoItem, DataItem, Versions
<1>4. TypeOK
  BY <1>2, <1>3 DEF TypeOK, Versions
<1>5. CheckedIn = {}
  BY DEF CheckedIn
<1>6. Cardinality(CheckedIn) = 0
  BY <1>5, FS_EmptySet
<1>7. CountCoversRows /\ RowsOfEvent
  BY <1>6 DEF CountCoversRows, RowsOfEvent
<1>8. \A r \in Regs : db[r].ver <= changes + edits + 1
  BY <1>1
<1>9. \A r \in Regs \ mEventRegistrations : ~item[r].in
  BY <1>3
<1>10. mEventId = None => jobs = {}
  OBVIOUS
<1> QED
  BY <1>4, <1>7, <1>8, <1>9, <1>10 DEF CountInv

(* What a step has to do with the counter: CountFollowsRows, at one step.  *)
CountMoves ==
  selections' = selections =>
    mNumCheckedInEntries' - mNumCheckedInEntries
      = Cardinality(CheckedIn') - Cardinality(CheckedIn)

(* A step that keeps the rows and what is checked in moves neither.        *)
LEMMA CountStays ==
  ASSUME CountInv, CheckedIn' = CheckedIn, UNCHANGED mNumCheckedInEntries
  PROVE  CountMoves
<1>1. Cardinality(CheckedIn) \in Nat /\ mNumCheckedInEntries \in Nat
  BY CheckedInFinite DEF CountInv, TypeOK
<1> QED
  BY <1>1 DEF CountMoves

LEMMA ClientCount ==
  ASSUME CountInv, Commit,
         TouchRelated \/ \E r \in Regs : InsertRegistration(r) \/ CheckInElsewhere(r)
  PROVE  CountInv' /\ CountMoves
<1> USE DEF Commit, mapVars, countVars
<1>0. TypeOK
  BY DEF CountInv
<1>1. /\ db' \in [Regs -> Row] /\ notifs' \in Seq(Notification)
      /\ \A r \in Regs : db'[r].ver <= changes + edits + 2
  <2>1. CASE TouchRelated
    <3>1. \A r \in Regs : db[r] \in Row /\ db[r].ver <= changes + edits + 1
      BY <1>0 DEF CountInv, TypeOK
    <3>2. /\ \A d \in Drivers : [table |-> "driver", id |-> d, row |-> NoRow] \in Notification
          /\ \A c \in Cars : [table |-> "car", id |-> c, row |-> NoRow] \in Notification
          /\ \A k \in Classes : [table |-> "car_class", id |-> k, row |-> NoRow] \in Notification
      BY DEF Notification
    <3>3. PICK n \in Notification : notifs' = Append(notifs, n)
      BY <2>1, <3>2 DEF TouchRelated, Notify
    <3>4. notifs' \in Seq(Notification)
      BY <1>0, <3>3 DEF TypeOK
    <3> QED
      BY <1>0, <2>1, <3>1, <3>4 DEF TouchRelated, TypeOK, Row, Versions
  <2>2. ASSUME NEW r \in Regs, InsertRegistration(r) \/ CheckInElsewhere(r)
        PROVE  /\ db' \in [Regs -> Row] /\ notifs' \in Seq(Notification)
               /\ \A s \in Regs : db'[s].ver <= changes + edits + 2
    <3>1. PICK in \in BOOLEAN : Write(r, in)
      BY <2>2 DEF InsertRegistration, CheckInElsewhere
    <3>2. \A s \in Regs : db[s] \in Row /\ db[s].ver <= changes + edits + 1
      BY <1>0 DEF CountInv, TypeOK
    <3>3. changes + edits + 2 <= MaxChanges + MaxEdits + 1
      BY <1>0, RegistrationAssumption DEF TypeOK
    <3>4. [ver |-> db[r].ver + 1, in |-> in] \in Row
      BY <3>2, <3>3, <1>0, RegistrationAssumption DEF Row, Versions, TypeOK
    <3>5. db' = [db EXCEPT ![r] = [ver |-> db[r].ver + 1, in |-> in]]
      BY <1>0, <3>1 DEF Write, TypeOK
    <3>6. notifs' \in Seq(Notification)
      BY <1>0, <3>1, <3>4 DEF Write, Notify, Notification, TypeOK
    <3>7. \A s \in Regs : db'[s].ver <= changes + edits + 2
      BY <1>0, <3>2, <3>5 DEF TypeOK, Row, Versions
    <3> QED
      BY <1>0, <3>4, <3>5, <3>6, <3>7 DEF TypeOK
  <2> QED
    BY <2>1, <2>2
<1>2. TypeOK'
  BY <1>0, <1>1, RegistrationAssumption DEF TypeOK
<1>3. CheckedIn' = CheckedIn /\ CountCoversRows' /\ RowsOfEvent'
  BY CountKept DEF CountInv, RowsOfEvent
<1>4. CountInv'
  BY <1>0, <1>1, <1>2, <1>3 DEF CountInv, TypeOK
<1> QED
  BY <1>3, <1>4, CountStays

LEMMA ReadCount ==
  ASSUME CountInv, ReadRegistrations PROVE CountInv' /\ CountMoves
<1> USE DEF ReadRegistrations, mapVars, countVars
<1>0. TypeOK
  BY DEF CountInv
<1>j. PICK j \in jobs : \E snapshot \in {OfEvent(j.event), [r \in Regs |-> NoRow]} :
        /\ Outcome(snapshot, OfEvent(j.event), [r \in Regs |-> NoRow])
        /\ jobs' = (jobs \ {j}) \cup {[j EXCEPT !.read = TRUE, !.data = snapshot]}
  OBVIOUS
<1>1. PICK snapshot \in {OfEvent(j.event), [r \in Regs |-> NoRow]} :
        /\ jobs' = (jobs \ {j}) \cup {[j EXCEPT !.read = TRUE, !.data = snapshot]}
        /\ Outcome(snapshot, OfEvent(j.event), [r \in Regs |-> NoRow])
  BY <1>j
<1>2. snapshot \in [Regs -> Row]
  <2>1. NoRow \in Row
    BY RegistrationAssumption DEF NoRow, Row, Versions
  <2> QED
    BY <1>0, <1>1, <2>1 DEF OfEvent, TypeOK
<1>3. j \in Job
  BY <1>0 DEF TypeOK
<1>4. [j EXCEPT !.read = TRUE, !.data = snapshot] \in Job
  BY <1>2, <1>3 DEF Job
<1>5. failures' \in 0..MaxFailures
  BY <1>0, <1>1, RegistrationAssumption DEF Outcome, TypeOK
<1>6. TypeOK'
  BY <1>0, <1>1, <1>4, <1>5 DEF TypeOK
<1>7. CheckedIn' = CheckedIn /\ CountCoversRows' /\ RowsOfEvent'
  BY CountKept DEF CountInv, RowsOfEvent
<1>8. CountInv'
  BY <1>0, <1>6, <1>7 DEF CountInv
<1> QED
  BY <1>7, <1>8, CountStays

LEMMA SelectCount ==
  ASSUME CountInv, NEW e \in Events, setEventId(e) PROVE CountInv' /\ CountMoves
<1> USE DEF setEventId, reset, clientVars
<1>0. TypeOK
  BY DEF CountInv
<1>1. selections' \in 1..MaxSelections /\ selections' # selections
  BY <1>0, RegistrationAssumption DEF TypeOK
<1>2. Ask("registrations", selections', e) \in Job
  BY <1>1, AskType
<1>3. NoItem \in DataItem /\ ~NoItem.in
  BY RegistrationAssumption DEF NoItem, DataItem, Versions
<1>4. TypeOK'
  BY <1>0, <1>1, <1>2, <1>3, RegistrationAssumption DEF TypeOK, Versions
<1>5. CheckedIn' = {}
  BY DEF CheckedIn
<1>6. Cardinality(CheckedIn') = 0
  BY <1>5, FS_EmptySet
<1>7. CountCoversRows' /\ RowsOfEvent'
  BY <1>0, <1>6 DEF CountCoversRows, RowsOfEvent, TypeOK
<1>8. mEventId' # None
  BY RegistrationAssumption
<1>9. \A r \in Regs : ~item'[r].in
  BY <1>3
<1>10. CountInv'
  BY <1>4, <1>7, <1>8, <1>9 DEF CountInv
<1> QED
  BY <1>1, <1>10 DEF CountMoves

LEMMA HearType ==
  ASSUME TypeOK, NEW rows \in [Regs -> Row], Hear(rows)
  PROVE  seen' \in [Regs -> Versions]
  BY DEF TypeOK, Row, Hear

LEMMA SetRegistrationsCount ==
  ASSUME CountInv, NEW j \in jobs, setEventRegistrations(j),
         UNCHANGED <<db, changes, edits, notifs, selections, mEventId>>
  PROVE  CountInv' /\ CountMoves
<1> USE DEF setEventRegistrations
<1>0. TypeOK
  BY DEF CountInv
<1>1. j \in Job /\ j.data \in [Regs -> Row] /\ j.sel \in 1..MaxSelections
  BY <1>0 DEF TypeOK, Job
<1>2. {r \in Regs : j.data[r].ver > 0} \in SUBSET Regs
  OBVIOUS
<1>3. /\ mEventRegistrations' \subseteq Regs /\ item' \in [Regs -> DataItem]
      /\ mNumCheckedInEntries' \in Nat /\ statusBar' \in [entries : Nat, in : Nat]
      /\ mDrivers' \in [Drivers -> Regs \cup {None}] /\ mCars' \in [Cars -> Regs \cup {None}]
      /\ overtaken' \subseteq Regs
      /\ \A r \in Regs \ mEventRegistrations' : ~item'[r].in
      /\ RowsOfEvent' /\ CountCoversRows'
      /\ mNumCheckedInEntries' - mNumCheckedInEntries
           = Cardinality(CheckedIn') - Cardinality(CheckedIn)
  BY <1>1, <1>2, UpdateCounts
<1>4. seen' \in [Regs -> Versions]
  BY <1>0, <1>1, HearType
<1>5. mEventId \in Events /\ mEventId' = mEventId
  BY <1>0 DEF CountInv, TypeOK
<1>6. \A k \in {"drivers", "cars", "classes"} : Ask(k, j.sel, mEventId) \in Job
  BY <1>1, <1>5, AskType
<1>7. jobs' \subseteq Job
  BY <1>0, <1>6 DEF TypeOK
<1>8. TypeOK'
  BY <1>0, <1>3, <1>4, <1>7 DEF TypeOK
<1>9. mEventId' = None => jobs' = {}
  BY <1>5, RegistrationAssumption
<1>10. \A r \in Regs : db'[r].ver <= changes' + edits' + 1
  BY DEF CountInv
<1>11. CountInv'
  BY <1>3, <1>8, <1>9, <1>10 DEF CountInv
<1> QED
  BY <1>3, <1>11 DEF CountMoves

(* The other three results set pointers of items, and what is known of the *)
(* classes.                                                                *)
SetRelatedResult(j) ==
  \/ \E drivers \in SUBSET Drivers : setDrivers(j, drivers)
  \/ \E cars \in SUBSET Cars : setCars(j, cars)
  \/ \E carClasses \in SUBSET Classes : setCarClasses(j, carClasses)

LEMMA RelatedResultEffect ==
  ASSUME TypeOK, NEW j \in jobs, SetRelatedResult(j)
  PROVE  /\ item' \in [Regs -> DataItem]
         /\ \A r \in Regs : item'[r].ver = item[r].ver /\ item'[r].in = item[r].in
         /\ mCarClasses' \subseteq Classes
         /\ failures' \in 0..MaxFailures /\ (failures' = 0 => failures = 0)
         /\ jobs' = jobs \ {j} /\ j.kind # "registrations"
         /\ UNCHANGED <<mDrivers, mCars, countVars>>
<1> USE DEF mapVars, countVars
<1> DEFINE Effect == /\ item' \in [Regs -> DataItem]
                     /\ \A r \in Regs : item'[r].ver = item[r].ver /\ item'[r].in = item[r].in
                     /\ mCarClasses' \subseteq Classes
<1>0. item \in [Regs -> DataItem] /\ mCarClasses \in SUBSET Classes
  BY DEF TypeOK
<1>1. ASSUME NEW drivers \in SUBSET Drivers, setDrivers(j, drivers) PROVE Effect
  <2>1. item' = WithDrivers(drivers) /\ UNCHANGED mCarClasses
    BY <1>1 DEF setDrivers
  <2> QED
    BY <1>0, <2>1, WithDriversEffect
<1>2. ASSUME NEW cars \in SUBSET Cars, setCars(j, cars) PROVE Effect
  <2>1. item' = WithClasses(WithCars(cars), mCarClasses) /\ UNCHANGED mCarClasses
    BY <1>2 DEF setCars
  <2>2. /\ WithCars(cars) \in [Regs -> DataItem]
        /\ \A r \in Regs : /\ WithCars(cars)[r].ver = item[r].ver
                           /\ WithCars(cars)[r].in = item[r].in
    BY WithCarsEffect
  <2>3. /\ item' \in [Regs -> DataItem]
        /\ \A r \in Regs : /\ item'[r].ver = WithCars(cars)[r].ver
                           /\ item'[r].in = WithCars(cars)[r].in
    BY <1>0, <2>1, <2>2, WithClassesEffect
  <2> QED
    BY <1>0, <2>1, <2>2, <2>3
<1>3. ASSUME NEW carClasses \in SUBSET Classes, setCarClasses(j, carClasses) PROVE Effect
  <2>1. item' = WithClasses(item, mCarClasses') /\ mCarClasses' \in SUBSET Classes
    BY <1>0, <1>3 DEF setCarClasses
  <2> QED
    BY <1>0, <2>1, WithClassesEffect
<1>4. Effect
  BY <1>1, <1>2, <1>3 DEF SetRelatedResult
<1> HIDE DEF Effect
<1>5. failures' \in 0..MaxFailures /\ (failures' = 0 => failures = 0)
  BY RegistrationAssumption
     DEF TypeOK, SetRelatedResult, setDrivers, setCars, setCarClasses, Outcome
<1>6. /\ jobs' = jobs \ {j} /\ j.kind # "registrations"
      /\ UNCHANGED <<mDrivers, mCars, countVars>>
  BY DEF SetRelatedResult, setDrivers, setCars, setCarClasses
<1> QED
  BY <1>4, <1>5, <1>6 DEF Effect

LEMMA SetRelatedResultCount ==
  ASSUME CountInv, NEW j \in jobs, SetRelatedResult(j),
         UNCHANGED <<db, changes, edits, notifs, selections, mEventId>>
  PROVE  CountInv' /\ CountMoves
<1>0. TypeOK
  BY DEF CountInv
<1>1. /\ item' \in [Regs -> DataItem] /\ \A r \in Regs : item'[r].in = item[r].in
      /\ mCarClasses' \subseteq Classes
      /\ failures' \in 0..MaxFailures
      /\ jobs' = jobs \ {j}
      /\ UNCHANGED <<mDrivers, mCars, mEventRegistrations, mNumCheckedInEntries, statusBar,
                     seen, overtaken>>
  BY <1>0, RelatedResultEffect DEF countVars
<1>2. TypeOK'
  BY <1>0, <1>1 DEF TypeOK
<1>3. /\ CheckedIn' = CheckedIn /\ CountCoversRows' /\ RowsOfEvent'
      /\ \A r \in Regs \ mEventRegistrations' : ~item'[r].in
  BY <1>1, CountKept DEF CountInv, RowsOfEvent
<1>4. CountInv'
  BY <1>1, <1>2, <1>3 DEF CountInv
<1> QED
  BY <1>1, <1>3, <1>4, CountStays

LEMMA HeadType ==
  ASSUME TypeOK, notifs # <<>>
  PROVE  /\ Head(notifs) \in Notification /\ Tail(notifs) \in Seq(Notification)
         /\ Head(notifs).table = "registration" =>
              Head(notifs).id \in Regs /\ Head(notifs).row \in Row
         /\ Head(notifs).table = "driver" => Head(notifs).id \in Drivers
         /\ Head(notifs).table = "car" => Head(notifs).id \in Cars
<1>1. Head(notifs) \in Notification /\ Tail(notifs) \in Seq(Notification)
  BY DEF TypeOK
<1> QED
  BY <1>1 DEF Notification

(* The notifications that set pointers of items.                           *)
RelatedNotification(n) ==
  driverNotification(n) \/ carNotification(n) \/ carClassNotification(n)

LEMMA RelatedNotificationEffect ==
  ASSUME TypeOK, notifs # <<>>, RelatedNotification(Head(notifs))
  PROVE  /\ item' \in [Regs -> DataItem]
         /\ \A r \in Regs : item'[r].ver = item[r].ver /\ item'[r].in = item[r].in
         /\ Head(notifs).table # "registration"
         /\ UNCHANGED <<mDrivers, mCars, mCarClasses, countVars>>
<1> DEFINE n == Head(notifs)
<1> USE DEF mapVars, countVars
<1>0. /\ item \in [Regs -> DataItem] /\ mCarClasses \in SUBSET Classes
      /\ n.table = "driver" => n.id \in Drivers
      /\ n.table = "car" => n.id \in Cars
  BY HeadType DEF TypeOK
<1> HIDE DEF n
<1>1. CASE driverNotification(n)
  <2>1. {n.id} \in SUBSET Drivers /\ item' = WithDrivers({n.id})
    BY <1>0, <1>1 DEF driverNotification
  <2> QED
    BY <1>0, <1>1, <2>1, WithDriversEffect DEF driverNotification, n
<1>2. CASE carNotification(n)
  <2>1. {n.id} \in SUBSET Cars /\ item' = WithCars({n.id})
    BY <1>0, <1>2 DEF carNotification
  <2> QED
    BY <1>0, <1>2, <2>1, WithCarsEffect DEF carNotification, n
<1>3. CASE carClassNotification(n)
  BY <1>0, <1>3, WithClassesEffect DEF carClassNotification, n
<1> QED
  BY <1>1, <1>2, <1>3 DEF RelatedNotification, n

LEMMA NotificationCount ==
  ASSUME CountInv, DeliverNotification PROVE CountInv' /\ CountMoves
<1> DEFINE n == Head(notifs)
<1> USE DEF mapVars, countVars, clientVars
<1>0. TypeOK /\ item \in [Regs -> DataItem] /\ notifs # <<>>
  BY DEF CountInv, TypeOK, DeliverNotification
<1>1. /\ notifs' \in Seq(Notification)
      /\ UNCHANGED <<db, changes, edits, failures, jobs, selections, mEventId>>
      /\ n.table = "registration" => n.id \in Regs /\ n.row \in Row
      /\ n.table = "driver" => n.id \in Drivers
      /\ n.table = "car" => n.id \in Cars
  BY <1>0, HeadType DEF DeliverNotification
<1>2. eventRegistrationNotification(n) \/ RelatedNotification(n)
  BY DEF DeliverNotification, RelatedNotification
<1> HIDE DEF n
<1>3. CASE eventRegistrationNotification(n)
  <2>1. n.id \in Regs /\ n.row \in Row
    BY <1>1, <1>3 DEF eventRegistrationNotification
  <2>2. /\ {n.id} \cap mEventRegistrations \in SUBSET Regs
        /\ [r \in Regs |-> n.row] \in [Regs -> Row]
    BY <2>1
  <2>3. updateRegistrations({n.id} \cap mEventRegistrations, [r \in Regs |-> n.row])
    BY <1>3 DEF eventRegistrationNotification
  <2>4. UNCHANGED mEventId
    BY <1>1
  <2>5. /\ mEventRegistrations' \subseteq Regs /\ item' \in [Regs -> DataItem]
        /\ mNumCheckedInEntries' \in Nat /\ statusBar' \in [entries : Nat, in : Nat]
        /\ mDrivers' \in [Drivers -> Regs \cup {None}] /\ mCars' \in [Cars -> Regs \cup {None}]
        /\ overtaken' \subseteq Regs
        /\ \A r \in Regs \ mEventRegistrations' : ~item'[r].in
        /\ RowsOfEvent' /\ CountCoversRows'
        /\ mNumCheckedInEntries' - mNumCheckedInEntries
             = Cardinality(CheckedIn') - Cardinality(CheckedIn)
    BY <2>2, <2>3, <2>4, UpdateCounts
  <2>6. NoRow \in Row
    BY RegistrationAssumption DEF NoRow, Row, Versions
  <2>7. [r \in Regs |-> IF r = n.id THEN n.row ELSE NoRow] \in [Regs -> Row]
    BY <2>1, <2>6
  <2>8. seen' \in [Regs -> Versions]
    BY <1>0, <1>3, <2>7, HearType DEF eventRegistrationNotification
  <2>9. TypeOK'
    BY <1>0, <1>1, <1>3, <2>5, <2>8 DEF TypeOK, eventRegistrationNotification
  <2>10. CountInv'
    BY <1>1, <2>5, <2>9 DEF CountInv
  <2> QED
    BY <2>5, <2>10 DEF CountMoves
<1>4. CASE RelatedNotification(n)
  <2>1. /\ item' \in [Regs -> DataItem] /\ \A r \in Regs : item'[r].in = item[r].in
        /\ UNCHANGED <<mDrivers, mCars, mCarClasses, countVars>>
    BY <1>0, <1>4, RelatedNotificationEffect DEF n
  <2>2. TypeOK'
    BY <1>0, <1>1, <2>1 DEF TypeOK
  <2>3. /\ CheckedIn' = CheckedIn /\ CountCoversRows' /\ RowsOfEvent'
        /\ \A r \in Regs \ mEventRegistrations' : ~item'[r].in
    BY <1>1, <2>1, CountKept DEF CountInv, RowsOfEvent
  <2>4. CountInv'
    BY <1>1, <2>1, <2>2, <2>3 DEF CountInv
  <2> QED
    BY <2>1, <2>3, <2>4, CountStays
<1> QED
  BY <1>2, <1>3, <1>4

(* The check box: the row is one more or one less of those checked in, and *)
(* the counter is at least one when it is one less.                        *)
LEMMA SetCheckedInCount ==
  ASSUME CountInv, NEW r \in Regs, setCheckedIn(r) PROVE CountInv' /\ CountMoves
<1> DEFINE in == ~item[r].in
<1>0. /\ TypeOK /\ item \in [Regs -> DataItem] /\ item[r] \in DataItem
      /\ r \in mEventRegistrations /\ mEventRegistrations' = mEventRegistrations
      /\ mEventRegistrations \subseteq Regs
  BY DEF CountInv, TypeOK, setCheckedIn, Edit
<1>1. /\ \/ /\ Write(r, in)
            /\ item' = [item EXCEPT ![r].ver = db'[r].ver, ![r].in = in]
            /\ seen' = [seen EXCEPT ![r] = db'[r].ver]
            /\ overtaken' = overtaken \ {r}
            /\ UNCHANGED failures
         \/ /\ failures < MaxFailures
            /\ failures' = failures + 1
            /\ item' = [item EXCEPT ![r].in = in]
            /\ UNCHANGED <<db, notifs, seen, overtaken>>
      /\ mNumCheckedInEntries' = mNumCheckedInEntries + (IF in THEN 1 ELSE -1)
      /\ EmitNumEntries
  BY DEF setCheckedIn
<1>e. /\ edits' = edits + 1 /\ edits' \in 0..MaxEdits
      /\ UNCHANGED <<changes, jobs, selections, mEventId, mDrivers, mCars, mCarClasses>>
  BY <1>0, RegistrationAssumption DEF TypeOK, setCheckedIn, Edit, mapVars
<1>2. in \in BOOLEAN /\ item[r].in \in BOOLEAN /\ (in <=> ~item[r].in)
  BY <1>0 DEF DataItem
<1> HIDE DEF in
<1>3. /\ db' \in [Regs -> Row] /\ notifs' \in Seq(Notification)
      /\ seen' \in [Regs -> Versions] /\ overtaken' \subseteq Regs
      /\ failures' \in 0..MaxFailures
      /\ \A s \in Regs : db'[s].ver <= changes + edits + 2
      /\ item' \in [Regs -> DataItem]
      /\ \A s \in Regs : item'[s].in = IF s = r THEN in ELSE item[s].in
  <2>1. \A s \in Regs : db[s] \in Row /\ db[s].ver <= changes + edits + 1
    BY <1>0 DEF CountInv, TypeOK
  <2>2. changes + edits + 2 <= MaxChanges + MaxEdits + 1
    BY <1>0, <1>e, RegistrationAssumption DEF TypeOK
  <2>3. CASE /\ Write(r, in)
             /\ item' = [item EXCEPT ![r].ver = db'[r].ver, ![r].in = in]
             /\ seen' = [seen EXCEPT ![r] = db'[r].ver]
             /\ overtaken' = overtaken \ {r}
             /\ UNCHANGED failures
    <3>1. db[r].ver + 1 \in Versions
      BY <1>0, <2>1, <2>2, RegistrationAssumption DEF Row, Versions, TypeOK
    <3>r. [ver |-> db[r].ver + 1, in |-> in] \in Row
      BY <1>2, <3>1 DEF Row
    <3>2. db' = [db EXCEPT ![r] = [ver |-> db[r].ver + 1, in |-> in]]
      BY <1>0, <2>3 DEF Write, TypeOK
    <3>3. notifs' \in Seq(Notification)
      BY <1>0, <2>3, <3>r DEF Write, Notify, Notification, TypeOK
    <3>a. db' \in [Regs -> Row] /\ db'[r].ver \in Versions
      BY <1>0, <3>1, <3>r, <3>2 DEF TypeOK
    <3>b. changes \in Nat /\ edits \in Nat /\ \A s \in Regs : db[s].ver \in Nat
      BY <1>0, <2>1, RegistrationAssumption DEF TypeOK, Row, Versions
    <3>c. \A s \in Regs : db'[s].ver = IF s = r THEN db[r].ver + 1 ELSE db[s].ver
      BY <1>0, <3>2 DEF TypeOK
    <3>4. /\ \A s \in Regs : db'[s].ver <= changes + edits + 2
          /\ db' \in [Regs -> Row] /\ db'[r].ver \in Versions
      BY <2>1, <3>a, <3>b, <3>c
    <3>5. /\ item' \in [Regs -> DataItem]
          /\ \A s \in Regs : item'[s].in = IF s = r THEN in ELSE item[s].in
      BY <1>0, <1>2, <2>3, <3>4 DEF DataItem
    <3> QED
      BY <1>0, <2>3, <3>3, <3>4, <3>5 DEF TypeOK
  <2>4. CASE /\ failures < MaxFailures
             /\ failures' = failures + 1
             /\ item' = [item EXCEPT ![r].in = in]
             /\ UNCHANGED <<db, notifs, seen, overtaken>>
    <3>1. /\ item' \in [Regs -> DataItem]
          /\ \A s \in Regs : item'[s].in = IF s = r THEN in ELSE item[s].in
      BY <1>0, <1>2, <2>4 DEF DataItem
    <3>2. \A s \in Regs : db'[s].ver <= changes + edits + 2
      <4>1. db' = db
        BY <2>4
      <4>2. changes \in Nat /\ edits \in Nat /\ \A s \in Regs : db[s].ver \in Nat
        BY <1>0, <2>1, RegistrationAssumption DEF TypeOK, Row, Versions
      <4> QED
        BY ONLY <2>1, <4>1, <4>2
    <3>3. failures' \in 0..MaxFailures
      BY <1>0, <2>4, RegistrationAssumption DEF TypeOK
    <3> QED
      BY <1>0, <2>4, <3>1, <3>2, <3>3 DEF TypeOK
  <2> QED
    BY <1>1, <2>3, <2>4
<1>4. /\ IsFiniteSet(CheckedIn) /\ Cardinality(CheckedIn) \in Nat
      /\ Cardinality(mEventRegistrations) \in Nat
  BY <1>0, CheckedInFinite
<1>5. mNumCheckedInEntries \in Nat /\ mNumCheckedInEntries >= Cardinality(CheckedIn)
  BY DEF CountInv, TypeOK, CountCoversRows
<1>6. /\ Cardinality(CheckedIn') = Cardinality(CheckedIn) + (IF in THEN 1 ELSE -1)
      /\ ~in => Cardinality(CheckedIn) >= 1
  <2>1. CASE in
    <3>1. CheckedIn' = CheckedIn \cup {r} /\ r \notin CheckedIn
      BY <1>0, <1>2, <1>3, <2>1 DEF CheckedIn
    <3> QED
      BY <1>4, <2>1, <3>1, FS_AddElement
  <2>2. CASE ~in
    <3>1. CheckedIn' = CheckedIn \ {r} /\ r \in CheckedIn
      BY <1>0, <1>2, <1>3, <2>2 DEF CheckedIn
    <3>2. Cardinality(CheckedIn) # 0
      BY <1>4, <3>1, FS_EmptySet
    <3>3. Cardinality(CheckedIn \ {r}) = Cardinality(CheckedIn) - 1
      BY <1>4, <3>1, FS_RemoveElement
    <3> QED
      BY <1>4, <2>2, <3>1, <3>2, <3>3
  <2> QED
    BY <2>1, <2>2
<1>7. /\ mNumCheckedInEntries' \in Nat /\ mNumCheckedInEntries' >= Cardinality(CheckedIn')
      /\ mNumCheckedInEntries' - mNumCheckedInEntries
           = Cardinality(CheckedIn') - Cardinality(CheckedIn)
  BY <1>1, <1>4, <1>5, <1>6
<1>8. statusBar' = [entries |-> Cardinality(mEventRegistrations'), in |-> mNumCheckedInEntries']
  BY <1>1 DEF EmitNumEntries
<1>9. TypeOK'
  BY <1>0, <1>e, <1>3, <1>4, <1>7, <1>8 DEF TypeOK
<1>10. CountCoversRows' /\ RowsOfEvent'
  BY <1>0, <1>e, <1>7, <1>8 DEF CountCoversRows, CountInv, RowsOfEvent
<1>11. \A s \in Regs \ mEventRegistrations' : ~item'[s].in
  BY <1>0, <1>3 DEF CountInv
<1>12. \A s \in Regs : db'[s].ver <= changes' + edits' + 1
  BY <1>0, <1>e, <1>3 DEF TypeOK
<1>13. CountInv'
  BY <1>e, <1>9, <1>10, <1>11, <1>12 DEF CountInv
<1> QED
  BY <1>7, <1>13 DEF CountMoves

LEMMA SetRelatedCount ==
  ASSUME CountInv, NEW r \in Regs, setRelated(r) PROVE CountInv' /\ CountMoves
<1> USE DEF setRelated, Edit, mapVars
<1>0. TypeOK /\ item[r] \in DataItem
  BY DEF CountInv, TypeOK
<1>1. PICK n \in Notification : notifs' = Append(notifs, n)
  <2>1. CASE item[r].driver # None /\ Notify("driver", item[r].driver, NoRow)
    <3>1. [table |-> "driver", id |-> item[r].driver, row |-> NoRow] \in Notification
      BY <1>0, <2>1 DEF DataItem, Notification
    <3> QED
      BY <2>1, <3>1 DEF Notify
  <2>2. CASE item[r].car # None /\ Notify("car", item[r].car, NoRow)
    <3>1. [table |-> "car", id |-> item[r].car, row |-> NoRow] \in Notification
      BY <1>0, <2>2 DEF DataItem, Notification
    <3> QED
      BY <2>2, <3>1 DEF Notify
  <2> QED
    BY <2>1, <2>2
<1>2. TypeOK'
  BY <1>0, <1>1, RegistrationAssumption DEF TypeOK
<1>3. CheckedIn' = CheckedIn /\ CountCoversRows' /\ RowsOfEvent'
  BY CountKept DEF CountInv, RowsOfEvent
<1>4. \A s \in Regs : db'[s].ver <= changes' + edits' + 1
  BY <1>0 DEF CountInv, TypeOK, Row, Versions
<1>5. CountInv'
  BY <1>2, <1>3, <1>4 DEF CountInv
<1> QED
  BY <1>3, <1>5, CountStays

LEMMA NextCount ==
  ASSUME CountInv, Next PROVE CountInv' /\ CountMoves
<1>1. ASSUME NEW r \in Regs, InsertRegistration(r) \/ CheckInElsewhere(r)
      PROVE  CountInv' /\ CountMoves
  BY <1>1, ClientCount DEF InsertRegistration, CheckInElsewhere
<1>2. CASE TouchRelated
  BY <1>2, ClientCount DEF TouchRelated
<1>3. CASE ReadRegistrations
  BY <1>3, ReadCount
<1>4. ASSUME NEW e \in Events, setEventId(e) PROVE CountInv' /\ CountMoves
  BY <1>4, SelectCount
<1>5. CASE DeliverResult
  <2>1. PICK j \in jobs :
          setEventRegistrations(j) \/ SetRelatedResult(j)
    BY <1>5 DEF DeliverResult, SetRelatedResult
  <2>2. UNCHANGED <<db, changes, edits, notifs, selections, mEventId>>
    BY <1>5 DEF DeliverResult
  <2> QED
    BY <2>1, <2>2, SetRegistrationsCount, SetRelatedResultCount
<1>6. CASE DeliverNotification
  BY <1>6, NotificationCount
<1>7. ASSUME NEW r \in Regs, setCheckedIn(r) \/ setRelated(r) PROVE CountInv' /\ CountMoves
  BY <1>7, SetCheckedInCount, SetRelatedCount
<1> QED
  BY <1>1, <1>2, <1>3, <1>4, <1>5, <1>6, <1>7 DEF Next

LEMMA StutterCount ==
  ASSUME CountInv, UNCHANGED vars PROVE CountInv'
<1> USE DEF vars
<1>1. TypeOK' /\ CheckedIn' = CheckedIn /\ RowsOfEvent'
  BY DEF CountInv, TypeOK, CheckedIn, RowsOfEvent
<1> QED
  BY <1>1 DEF CountInv, CountCoversRows

THEOREM CountInvariant == Spec => []CountInv
<1>1. Init => CountInv
  BY InitCountInv
<1>2. CountInv /\ [Next]_vars => CountInv'
  BY NextCount, StutterCount
<1> QED
  BY <1>1, <1>2, PTL DEF Spec

(* The table's state has its types: in particular the counter, unsigned in *)
(* the code, stays a natural number.                                       *)
THEOREM TypeCorrect == Spec => []TypeOK
<1>1. CountInv => TypeOK
  BY DEF CountInv
<1> QED
  BY <1>1, CountInvariant, PTL

(* The counter never falls below the rows that are checked in, and the     *)
(* status bar of a table with rows shows their number and the counter.     *)
THEOREM CounterCoversRows == Spec => []CountCoversRows
<1>1. CountInv => CountCoversRows
  BY DEF CountInv
<1> QED
  BY <1>1, CountInvariant, PTL

(* While the event stays selected, the counter moves exactly with the rows *)
(* that are checked in.                                                    *)
THEOREM CounterFollowsRows == Spec => CountFollowsRows
<1>1. CountInv /\ [Next]_vars => [CountMoves]_vars
  BY NextCount
<1>2. CountFollowsRows <=> [][CountMoves]_vars
  BY DEF CountFollowsRows, CountMoves
<1> QED
  BY <1>1, <1>2, CountInvariant, PTL DEF Spec

-----------------------------------------------------------------------------
(* Layer 2.                                                                *)

LEMMA InitFreshInv == Init => FreshInv
<1> SUFFICES ASSUME Init PROVE FreshInv
  OBVIOUS
<1>1. ASSUME NEW r \in Regs PROVE AsInDb(r, NoRow) /\ seen[r] <= db[r].ver
  <2>1. /\ db[r] \in {NoRow, [ver |-> 1, in |-> FALSE], [ver |-> 1, in |-> TRUE]}
        /\ seen[r] = 0
    BY DEF Init
  <2>2. CASE db[r] = NoRow
    BY <2>1, <2>2 DEF AsInDb, NoRow
  <2>3. CASE db[r] = [ver |-> 1, in |-> FALSE]
    BY <2>1, <2>3 DEF AsInDb, NoRow
  <2>4. CASE db[r] = [ver |-> 1, in |-> TRUE]
    BY <2>1, <2>4 DEF AsInDb, NoRow
  <2> QED
    BY <2>1, <2>2, <2>3, <2>4
<1>2. News = {} /\ jobs = {} /\ mEventRegistrations = {} /\ mEventId = None
  BY DEF Init, News, ToSet
<1>3. \A r \in Regs : RegEvent[r] # mEventId
  BY <1>2, RegistrationAssumption
<1> QED
  BY <1>1, <1>2, <1>3 DEF FreshInv, NothingNewer, RowsAsHeard, NoNewsMissed

(* The numbers compared below are numbers.                                 *)
LEMMA VersionTypes ==
  ASSUME TypeOK
  PROVE  /\ \A r \in Regs : db[r].ver \in Nat /\ seen[r] \in Nat /\ item[r].ver \in Nat
         /\ \A j \in jobs : j.data \in [Regs -> Row] /\ \A r \in Regs : j.data[r].ver \in Nat
         /\ \A n \in News : n.id \in Regs /\ n.row \in Row /\ n.row.ver \in Nat
         /\ failures \in Nat
<1>1. Versions \subseteq Nat
  BY DEF Versions
<1>2. \A r \in Regs : db[r] \in Row /\ seen[r] \in Versions /\ item[r] \in DataItem
  BY DEF TypeOK
<1>3. \A j \in jobs : j.data \in [Regs -> Row]
  BY DEF TypeOK, Job
<1>4. \A n \in News : n.id \in Regs /\ n.row \in Row
  <2>1. ToSet(notifs) \subseteq Notification
    BY DEF TypeOK, ToSet
  <2> QED
    BY <2>1 DEF News, Notification
<1>5. failures \in Nat
  BY RegistrationAssumption DEF TypeOK
<1> QED
  BY <1>1, <1>2, <1>3, <1>4, <1>5 DEF Row, DataItem

(* A step that changes no registration, nor what the table has of them.    *)
LEMMA FreshKept ==
  ASSUME CountInv, FreshInv,
         UNCHANGED <<db, mEventId, mEventRegistrations, seen, overtaken>>,
         \A r \in Regs : item'[r].ver = item[r].ver /\ item'[r].in = item[r].in,
         failures' = 0 => failures = 0,
         jobs' \subseteq jobs, \A j \in jobs : j.kind = "registrations" => j \in jobs',
         News' = News
  PROVE  FreshInv'
<1>1. mEventRegistrations \subseteq Regs
  BY DEF CountInv, TypeOK
<1>2. NothingNewer'
  BY <1>1 DEF FreshInv, NothingNewer, AsInDb
<1>3. RowsAsHeard'
  BY <1>1 DEF FreshInv, RowsAsHeard
<1>4. NoNewsMissed'
  BY DEF FreshInv, NoNewsMissed, NewsComing
<1> QED
  BY <1>2, <1>3, <1>4 DEF FreshInv

(* A write gives r a version nobody has heard of, and notifies of it.      *)
LEMMA WriteEffect ==
  ASSUME TypeOK, NEW r \in Regs, NEW in \in BOOLEAN, Write(r, in),
         db[r].ver + 1 \in Versions
  PROVE  /\ db' = [db EXCEPT ![r] = [ver |-> db[r].ver + 1, in |-> in]]
         /\ db'[r] = [ver |-> db[r].ver + 1, in |-> in]
         /\ \A s \in Regs : s # r => db'[s] = db[s]
         /\ News' = News \cup {[table |-> "registration", id |-> r, row |-> db'[r]]}
<1> DEFINE n == [table |-> "registration", id |-> r, row |-> [ver |-> db[r].ver + 1, in |-> in]]
<1>1. db' = [db EXCEPT ![r] = [ver |-> db[r].ver + 1, in |-> in]] /\ r \in DOMAIN db
  BY DEF Write, TypeOK
<1>2. /\ db'[r] = [ver |-> db[r].ver + 1, in |-> in]
      /\ \A s \in Regs : s # r => db'[s] = db[s]
  BY <1>1 DEF TypeOK
<1>3. [ver |-> db[r].ver + 1, in |-> in] \in Row
  BY DEF Row
<1>4. n \in Notification /\ notifs \in Seq(Notification) /\ n.table = "registration"
  BY <1>3 DEF Notification, TypeOK
<1>5. notifs' = Append(notifs, n)
  BY DEF Write, Notify
<1> HIDE DEF n
<1>6. ToSet(notifs') = ToSet(notifs) \cup {n}
  BY <1>4, <1>5, AppendElements
<1>7. News' = News \cup {n}
  BY <1>4, <1>6 DEF News
<1> QED
  BY <1>1, <1>2, <1>7 DEF n

LEMMA WriteFresh ==
  ASSUME CountInv, FreshInv, NEW r \in Regs, NEW in \in BOOLEAN, Write(r, in),
         db[r].ver + 1 \in Versions
  PROVE  /\ \A s \in Regs, row \in Row : AsInDb(s, row) => AsInDb(s, row)'
         /\ \A n \in News' : AsInDb(n.id, n.row)'
         /\ \A s \in Regs : s # r /\ NewsComing(s) /\ UNCHANGED <<jobs, mEventId>>
                               /\ seen'[s] = seen[s] => NewsComing(s)'
         /\ \E n \in News' : n.id = r /\ n.row.ver = db'[r].ver
<1>0. TypeOK /\ \A n \in News : n.id \in Regs /\ n.row \in Row
  BY VersionTypes DEF CountInv
<1>1. /\ db'[r] = [ver |-> db[r].ver + 1, in |-> in] /\ db[r].ver \in Nat
      /\ \A s \in Regs : s # r => db'[s] = db[s]
      /\ News' = News \cup {[table |-> "registration", id |-> r, row |-> db'[r]]}
  BY <1>0, WriteEffect, VersionTypes
<1>2. ASSUME NEW s \in Regs, NEW row \in Row, AsInDb(s, row) PROVE AsInDb(s, row)'
  <2>1. row.ver \in Nat
    BY DEF Row, Versions
  <2>2. CASE s = r
    <3>1. row.ver < db'[r].ver /\ row.ver # db'[r].ver
      BY <1>1, <1>2, <2>1, <2>2 DEF AsInDb
    <3> QED
      BY <2>1, <2>2, <3>1, <1>1 DEF AsInDb
  <2>3. CASE s # r
    BY <1>1, <1>2, <2>3 DEF AsInDb
  <2> QED
    BY <2>2, <2>3
<1>3. ASSUME NEW n \in News' PROVE AsInDb(n.id, n.row)'
  <2>1. CASE n \in News
    BY <1>0, <1>2, <2>1 DEF FreshInv, NothingNewer
  <2>2. CASE n = [table |-> "registration", id |-> r, row |-> db'[r]]
    BY <1>1, <2>2 DEF AsInDb
  <2> QED
    BY <1>1, <2>1, <2>2
<1>4. ASSUME NEW s \in Regs, s # r, NewsComing(s), UNCHANGED <<jobs, mEventId>>,
             seen'[s] = seen[s]
      PROVE  NewsComing(s)'
  <2>1. db'[s] = db[s] /\ News \subseteq News'
    BY <1>1, <1>4
  <2> QED
    BY <1>4, <2>1 DEF NewsComing
<1>5. \E n \in News' : n.id = r /\ n.row.ver = db'[r].ver
  <2> DEFINE m == [table |-> "registration", id |-> r, row |-> db'[r]]
  <2>1. m \in News' /\ m.id = r /\ m.row = db'[r]
    BY <1>1
  <2> QED
    BY <2>1
<1>6. \A s \in Regs, row \in Row : AsInDb(s, row) => AsInDb(s, row)'
  BY <1>2
<1>7. \A n \in News' : AsInDb(n.id, n.row)'
  BY <1>3
<1> QED
  BY <1>4, <1>5, <1>6, <1>7

LEMMA ClientFresh ==
  ASSUME CountInv, FreshInv, Commit,
         TouchRelated \/ \E r \in Regs : InsertRegistration(r) \/ CheckInElsewhere(r)
  PROVE  FreshInv'
<1> USE DEF Commit, mapVars, countVars
<1>0. TypeOK
  BY DEF CountInv
<1>1. CASE TouchRelated
  <2>1. PICK n : /\ n \in Notification /\ n.table # "registration"
                 /\ notifs' = Append(notifs, n)
    <3>1. /\ \A d \in Drivers : [table |-> "driver", id |-> d, row |-> NoRow] \in Notification
          /\ \A c \in Cars : [table |-> "car", id |-> c, row |-> NoRow] \in Notification
          /\ \A k \in Classes : [table |-> "car_class", id |-> k, row |-> NoRow] \in Notification
      BY DEF Notification
    <3> QED
      BY <1>1, <3>1 DEF TouchRelated, Notify
  <2>2. ToSet(notifs') = ToSet(notifs) \cup {n}
    BY <1>0, <2>1, AppendElements DEF TypeOK
  <2>3. News' = News
    BY <2>1, <2>2 DEF News
  <2>4. UNCHANGED db
    BY <1>1 DEF TouchRelated
  <2> QED
    BY <2>3, <2>4, FreshKept
<1>2. ASSUME NEW r \in Regs, InsertRegistration(r) \/ CheckInElsewhere(r) PROVE FreshInv'
  <2>1. PICK in \in BOOLEAN : Write(r, in)
    BY <1>2 DEF InsertRegistration, CheckInElsewhere
  <2>2. db[r].ver + 1 \in Versions
    <3>1. db[r].ver <= changes + edits + 1 /\ db[r].ver \in Nat
      BY <1>0, VersionTypes DEF CountInv
    <3> QED
      BY <1>0, <3>1, RegistrationAssumption DEF Versions, TypeOK
  <2>3. /\ \A s \in Regs, row \in Row : AsInDb(s, row) => AsInDb(s, row)'
        /\ \A n \in News' : AsInDb(n.id, n.row)'
        /\ \A s \in Regs : s # r /\ NewsComing(s) => NewsComing(s)'
        /\ \E n \in News' : n.id = r /\ n.row.ver = db'[r].ver
    BY <2>1, <2>2, WriteFresh
  <2>4. \A s \in Regs : db[s].ver <= db'[s].ver /\ db'[s].ver \in Nat
    <3>1. /\ db'[r] = [ver |-> db[r].ver + 1, in |-> in]
          /\ \A s \in Regs : s # r => db'[s] = db[s]
      BY <1>0, <2>1, <2>2, WriteEffect
    <3>2. \A s \in Regs : db[s].ver \in Nat
      BY <1>0, VersionTypes
    <3> QED
      BY <3>1, <3>2
  <2>5. /\ \A s \in Regs : item[s].ver \in Nat /\ seen[s] \in Nat /\ db[s].ver \in Nat
        /\ \A j \in jobs : \A s \in Regs : j.data[s] \in Row
        /\ mEventRegistrations \subseteq Regs /\ NoRow \in Row
    BY <1>0, VersionTypes, RegistrationAssumption DEF TypeOK, NoRow, Row, Versions
  <2>6. ASSUME NEW s \in mEventRegistrations
        PROVE  item'[s].ver <= db'[s].ver /\ (failures' = 0 => AsInDb(s, item[s])')
    <3>1. item[s].ver <= db[s].ver /\ (failures = 0 => AsInDb(s, item[s]))
      BY DEF FreshInv, NothingNewer
    <3>2. item[s].ver \in Versions /\ item[s].in \in BOOLEAN
      BY <1>0, <2>5 DEF TypeOK, DataItem
    <3>3. [ver |-> item[s].ver, in |-> item[s].in] \in Row
      BY <3>2 DEF Row
    <3>4. AsInDb(s, item[s]) => AsInDb(s, item[s])'
      <4> DEFINE row == [ver |-> item[s].ver, in |-> item[s].in]
      <4>1. AsInDb(s, row) => AsInDb(s, row)'
        BY <2>3, <2>5, <3>3
      <4> QED
        BY <4>1 DEF AsInDb
    <3> QED
      BY <2>4, <2>5, <3>1, <3>4
  <2>7. NothingNewer'
    <3>1. \A s \in Regs : AsInDb(s, NoRow)' /\ seen'[s] <= db'[s].ver
      <4>1. \A s \in Regs : AsInDb(s, NoRow) /\ seen[s] <= db[s].ver
        BY DEF FreshInv, NothingNewer
      <4> QED
        BY <2>3, <2>4, <2>5, <4>1
    <3>2. \A j \in jobs', s \in Regs : AsInDb(s, j.data[s])'
      <4>1. \A j \in jobs, s \in Regs : AsInDb(s, j.data[s])
        BY DEF FreshInv, NothingNewer
      <4> QED
        BY <2>3, <2>5, <4>1
    <3> QED
      BY <2>3, <2>6, <3>1, <3>2 DEF NothingNewer
  <2>8. RowsAsHeard'
    BY DEF FreshInv, RowsAsHeard
  <2>9. NoNewsMissed'
    <3>1. NewsComing(r)'
      BY <2>3 DEF NewsComing
    <3> QED
      BY <2>3, <3>1 DEF FreshInv, NoNewsMissed
  <2> QED
    BY <2>7, <2>8, <2>9 DEF FreshInv
<1> QED
  BY <1>1, <1>2

LEMMA ReadFresh ==
  ASSUME CountInv, FreshInv, ReadRegistrations PROVE FreshInv'
<1> USE DEF mapVars, countVars
<1>0. TypeOK
  BY DEF CountInv
<1>1. PICK j \in jobs : \E snapshot \in {OfEvent(j.event), [r \in Regs |-> NoRow]} :
        /\ j.kind = "registrations" /\ ~j.read
        /\ Outcome(snapshot, OfEvent(j.event), [r \in Regs |-> NoRow])
        /\ jobs' = (jobs \ {j}) \cup {[j EXCEPT !.read = TRUE, !.data = snapshot]}
  BY DEF ReadRegistrations
<1>2. PICK snapshot \in {OfEvent(j.event), [r \in Regs |-> NoRow]} :
        /\ Outcome(snapshot, OfEvent(j.event), [r \in Regs |-> NoRow])
        /\ jobs' = (jobs \ {j}) \cup {[j EXCEPT !.read = TRUE, !.data = snapshot]}
  BY <1>1
<1> DEFINE k == [j EXCEPT !.read = TRUE, !.data = snapshot]
<1>3. j \in Job /\ k.kind = j.kind /\ k.event = j.event /\ k.read = TRUE /\ k.data = snapshot
  BY <1>0, <1>1 DEF TypeOK, Job
<1>4. jobs' = (jobs \ {j}) \cup {k}
  BY <1>2
<1> HIDE DEF k
<1>5. UNCHANGED <<db, notifs, mEventId, mEventRegistrations, item, seen, overtaken>>
  BY DEF ReadRegistrations
<1>6. News' = News
  BY <1>5 DEF News
<1>7. \A r \in Regs : snapshot[r] = db[r] \/ snapshot[r] = NoRow
  BY <1>2 DEF OfEvent
<1>8. failures \in Nat /\ (failures' = failures \/ failures' = failures + 1)
  BY <1>0, <1>2, VersionTypes DEF Outcome
<1>9. \A r \in Regs : AsInDb(r, snapshot[r])
  <2>1. \A r \in Regs : AsInDb(r, NoRow) /\ AsInDb(r, db[r])
    BY <1>0, VersionTypes DEF FreshInv, NothingNewer, AsInDb
  <2> QED
    BY <1>7, <2>1
<1>10. NothingNewer'
  <2>1. \A i \in jobs', r \in Regs : AsInDb(r, i.data[r])
    BY <1>3, <1>4, <1>9 DEF FreshInv, NothingNewer
  <2> QED
    BY <1>5, <1>6, <1>8, <2>1 DEF FreshInv, NothingNewer, AsInDb
<1>11. RowsAsHeard'
  BY <1>5 DEF FreshInv, RowsAsHeard
<1>12. ASSUME failures' = 0, NEW r \in Regs, RegEvent[r] = mEventId PROVE NewsComing(r)'
  <2>1. failures = 0 /\ NewsComing(r)
    BY <1>8, <1>12 DEF FreshInv, NoNewsMissed
  <2>2. snapshot = OfEvent(j.event)
    BY <1>2, <1>8, <1>12 DEF Outcome
  <2>3. CASE seen[r] = db[r].ver \/ \E n \in News : n.id = r /\ n.row.ver = db[r].ver
    BY <1>5, <1>6, <2>3 DEF NewsComing
  <2>4. ASSUME NEW i \in jobs, i.kind = "registrations", i.event = mEventId,
               ~i.read \/ i.data[r].ver = db[r].ver
        PROVE  NewsComing(r)'
    <3>1. CASE i = j
      <4>1. k.data[r] = db[r] /\ k \in jobs'
        BY <1>3, <1>4, <1>12, <2>2, <2>4, <3>1 DEF OfEvent
      <4> QED
        BY <1>1, <1>3, <1>5, <2>4, <3>1, <4>1 DEF NewsComing
    <3>2. CASE i # j
      BY <1>4, <1>5, <2>4, <3>2 DEF NewsComing
    <3> QED
      BY <3>1, <3>2
  <2> QED
    BY <2>1, <2>3, <2>4 DEF NewsComing
<1>13. NoNewsMissed'
  BY <1>5, <1>12 DEF NoNewsMissed
<1> QED
  BY <1>10, <1>11, <1>13 DEF FreshInv

LEMMA SelectFresh ==
  ASSUME CountInv, FreshInv, NEW e \in Events, setEventId(e) PROVE FreshInv'
<1> DEFINE k == Ask("registrations", selections', e)
<1>0. TypeOK
  BY DEF CountInv
<1>1. /\ UNCHANGED <<db, notifs, failures>> /\ mEventId' = e /\ mEventRegistrations' = {}
      /\ jobs' = jobs \cup {k} /\ \A r \in Regs : seen'[r] = 0
  BY DEF setEventId, reset, clientVars
<1>2. /\ k.kind = "registrations" /\ k.event = e /\ ~k.read
      /\ \A r \in Regs : k.data[r] = NoRow
  BY DEF Ask
<1> HIDE DEF k
<1>3. News' = News
  BY <1>1 DEF News
<1>4. \A r \in Regs : db[r].ver \in Nat
  BY <1>0, VersionTypes
<1>5. \A j \in jobs', r \in Regs : AsInDb(r, j.data[r])
  BY <1>1, <1>2 DEF FreshInv, NothingNewer
<1>6. NothingNewer'
  BY <1>1, <1>3, <1>4, <1>5 DEF FreshInv, NothingNewer, AsInDb
<1>7. RowsAsHeard'
  BY <1>1 DEF RowsAsHeard
<1>8. \A r \in Regs : NewsComing(r)'
  BY <1>1, <1>2 DEF NewsComing
<1> QED
  BY <1>6, <1>7, <1>8 DEF FreshInv, NoNewsMissed

LEMMA SetRegistrationsFresh ==
  ASSUME CountInv, FreshInv, NEW j \in jobs, setEventRegistrations(j),
         UNCHANGED <<db, changes, edits, notifs, selections, mEventId>>
  PROVE  FreshInv'
<1> DEFINE regs == {r \in Regs : j.data[r].ver > 0}
           touched == OfThisEvent(regs)
<1>0. TypeOK
  BY DEF CountInv
<1>1. /\ j.data \in [Regs -> Row] /\ regs \in SUBSET Regs /\ touched = OfThisEvent(regs)
      /\ updateRegistrations(regs, j.data)
      /\ j.kind = "registrations" /\ j.read /\ UNCHANGED failures
  BY <1>0, VersionTypes DEF setEventRegistrations
<1>4. \A r \in Regs : r \in touched <=> j.data[r].ver > 0 /\ RegEvent[r] = mEventId
  BY DEF OfThisEvent
<1> HIDE DEF touched, regs
<1>2. /\ touched \in SUBSET Regs /\ mEventRegistrations' = mEventRegistrations \cup touched
      /\ \A r \in Regs :
           /\ item'[r].ver = IF r \in touched THEN j.data[r].ver ELSE item[r].ver
           /\ item'[r].in = IF r \in touched THEN j.data[r].in ELSE item[r].in
      /\ \A r \in Regs : r \in overtaken' <=> IF r \in touched THEN j.data[r].ver < seen[r]
                                             ELSE r \in overtaken
  BY <1>0, <1>1, UpdateEffect
<1>3. \A r \in Regs : seen'[r] = IF j.data[r].ver > seen[r] THEN j.data[r].ver ELSE seen[r]
  BY DEF setEventRegistrations, Hear
<1>5. /\ \A r \in Regs : /\ db[r].ver \in Nat /\ seen[r] \in Nat /\ item[r].ver \in Nat
                         /\ j.data[r].ver \in Nat
      /\ mEventRegistrations \subseteq Regs
  BY <1>0, VersionTypes DEF TypeOK
<1>6. \A i \in jobs', r \in Regs : i \in jobs \/ i.data[r] = NoRow
  BY DEF setEventRegistrations, Ask
<1>7. News' = News
  BY DEF News
<1>8. NothingNewer'
  <2>1. \A r \in Regs : AsInDb(r, NoRow) /\ seen[r] <= db[r].ver /\ AsInDb(r, j.data[r])
    BY DEF FreshInv, NothingNewer
  <2>2. \A r \in Regs : seen'[r] <= db[r].ver
    BY <1>3, <1>5, <2>1 DEF AsInDb
  <2>3. \A i \in jobs', r \in Regs : AsInDb(r, i.data[r])
    BY <1>6, <2>1 DEF FreshInv, NothingNewer
  <2>4. ASSUME NEW r \in mEventRegistrations'
        PROVE  item'[r].ver <= db[r].ver /\ (failures = 0 => AsInDb(r, item'[r]))
    <3>1. CASE r \in touched
      BY <1>2, <1>5, <2>1, <3>1 DEF AsInDb
    <3>2. CASE r \notin touched
      BY <1>2, <1>5, <3>2 DEF FreshInv, NothingNewer, AsInDb
    <3> QED
      BY <3>1, <3>2
  <2> QED
    BY <1>1, <1>7, <2>1, <2>2, <2>3, <2>4 DEF FreshInv, NothingNewer, AsInDb
<1>9. RowsAsHeard'
  <2>1. ASSUME NEW r \in mEventRegistrations' \ overtaken' PROVE item'[r].ver = seen'[r]
    <3>1. CASE r \in touched
      BY <1>2, <1>3, <1>5, <2>1, <3>1
    <3>2. CASE r \notin touched
      <4>1. r \in mEventRegistrations \ overtaken /\ RegEvent[r] = mEventId
        BY <1>2, <1>5, <2>1, <3>2 DEF CountInv, RowsOfEvent
      <4>2. ~ (j.data[r].ver > seen[r])
        BY <1>4, <1>5, <3>2, <4>1
      <4> QED
        BY <1>2, <1>3, <1>5, <3>2, <4>1, <4>2 DEF FreshInv, RowsAsHeard
    <3> QED
      BY <3>1, <3>2
  <2> QED
    BY <2>1 DEF RowsAsHeard
<1>10. ASSUME NEW r \in Regs, NewsComing(r) PROVE NewsComing(r)'
  <2>1. seen[r] <= db[r].ver /\ j.data[r].ver <= db[r].ver
    BY DEF FreshInv, NothingNewer, AsInDb
  <2>2. CASE seen[r] = db[r].ver \/ j.data[r].ver = db[r].ver
    BY <1>3, <1>5, <2>1, <2>2 DEF NewsComing
  <2>3. CASE \E n \in News : n.id = r /\ n.row.ver = db[r].ver
    BY <1>7, <2>3 DEF NewsComing
  <2>4. ASSUME NEW i \in jobs, i.kind = "registrations", i.event = mEventId,
               ~i.read \/ i.data[r].ver = db[r].ver
        PROVE  NewsComing(r)'
    <3>1. CASE i = j
      BY <1>1, <2>2, <2>4, <3>1
    <3>2. CASE i # j
      <4>1. i \in jobs'
        BY <3>2 DEF setEventRegistrations
      <4> QED
        BY <2>4, <4>1 DEF NewsComing
    <3> QED
      BY <3>1, <3>2
  <2> QED
    BY <1>10, <2>2, <2>3, <2>4 DEF NewsComing
<1>11. NoNewsMissed'
  BY <1>1, <1>10 DEF FreshInv, NoNewsMissed
<1> QED
  BY <1>8, <1>9, <1>11 DEF FreshInv

(* A notification of a registration: its version has been heard of from    *)
(* now on, whether or not there is a row to take it.                       *)
LEMMA RegistrationNotificationFresh ==
  ASSUME CountInv, FreshInv, notifs # <<>>, eventRegistrationNotification(Head(notifs)),
         notifs' = Tail(notifs), UNCHANGED <<clientVars, jobs, selections, mEventId>>
  PROVE  FreshInv'
<1> DEFINE n == Head(notifs)
           regs == {n.id} \cap mEventRegistrations
           rows == [r \in Regs |-> n.row]
           touched == OfThisEvent(regs)
<1> USE DEF clientVars
<1>0. TypeOK
  BY DEF CountInv
<1>1. n.table = "registration" /\ n.id \in Regs /\ n.row \in Row /\ n.row.ver \in Nat
  BY <1>0, HeadType DEF eventRegistrationNotification, Row, Versions
<1>2. News = News' \cup {n} /\ n \in News
  BY <1>0, <1>1, TailElements DEF News, TypeOK
<1>3. /\ regs \in SUBSET Regs /\ rows \in [Regs -> Row] /\ touched = OfThisEvent(regs)
      /\ \A r \in Regs : rows[r] = n.row
      /\ updateRegistrations(regs, rows)
  BY <1>1 DEF eventRegistrationNotification
<1>4. \A r \in Regs : r \in touched <=> r = n.id /\ r \in mEventRegistrations
  BY DEF OfThisEvent, CountInv, RowsOfEvent
<1>5. \A r \in Regs : seen'[r] = IF r = n.id /\ n.row.ver > seen[r] THEN n.row.ver ELSE seen[r]
  <2>1. Hear([r \in Regs |-> IF r = n.id THEN n.row ELSE NoRow])
    BY DEF eventRegistrationNotification
  <2>2. \A r \in Regs : ~(NoRow.ver > seen[r])
    BY <1>0, VersionTypes DEF NoRow
  <2> QED
    BY <2>1, <2>2 DEF Hear
<1> HIDE DEF n, regs, rows, touched
<1>6. /\ touched \in SUBSET Regs /\ mEventRegistrations' = mEventRegistrations \cup touched
      /\ \A r \in Regs :
           /\ item'[r].ver = IF r \in touched THEN rows[r].ver ELSE item[r].ver
           /\ item'[r].in = IF r \in touched THEN rows[r].in ELSE item[r].in
      /\ \A r \in Regs : r \in overtaken' <=> IF r \in touched THEN rows[r].ver < seen[r]
                                             ELSE r \in overtaken
  BY <1>0, <1>3, UpdateEffect
<1>7. /\ \A r \in Regs : db[r].ver \in Nat /\ seen[r] \in Nat /\ item[r].ver \in Nat
      /\ mEventRegistrations \subseteq Regs
  BY <1>0, VersionTypes DEF TypeOK
<1>8. AsInDb(n.id, n.row)
  BY <1>2 DEF FreshInv, NothingNewer
<1>9. NothingNewer'
  <2>1. \A r \in Regs : AsInDb(r, NoRow) /\ seen'[r] <= db[r].ver
    BY <1>1, <1>5, <1>7, <1>8 DEF FreshInv, NothingNewer, AsInDb
  <2>2. \A m \in News' : AsInDb(m.id, m.row)
    BY <1>2 DEF FreshInv, NothingNewer
  <2>3. ASSUME NEW r \in mEventRegistrations'
        PROVE  item'[r].ver <= db[r].ver /\ (failures = 0 => AsInDb(r, item'[r]))
    <3>1. CASE r \in touched
      BY <1>3, <1>4, <1>6, <1>7, <1>8, <3>1 DEF AsInDb
    <3>2. CASE r \notin touched
      BY <1>6, <1>7, <3>2 DEF FreshInv, NothingNewer, AsInDb
    <3> QED
      BY <3>1, <3>2
  <2> QED
    BY <2>1, <2>2, <2>3 DEF FreshInv, NothingNewer, AsInDb
<1>10. ASSUME NEW r \in mEventRegistrations' \ overtaken' PROVE item'[r].ver = seen'[r]
  <2>1. CASE r \in touched
    BY <1>1, <1>3, <1>4, <1>5, <1>6, <1>7, <1>10, <2>1
  <2>2. CASE r \notin touched
    <3>1. r \in mEventRegistrations \ overtaken /\ r # n.id /\ r \in Regs
      BY <1>4, <1>6, <1>7, <1>10, <2>2
    <3> QED
      BY <1>5, <1>6, <2>2, <3>1 DEF FreshInv, RowsAsHeard
  <2> QED
    BY <2>1, <2>2
<1>11. ASSUME NEW r \in Regs, NewsComing(r) PROVE NewsComing(r)'
  <2>1. seen[r] <= db[r].ver
    BY DEF FreshInv, NothingNewer
  <2>2. CASE seen[r] = db[r].ver
    <3>1. seen'[r] = db[r].ver
      BY <1>1, <1>5, <1>7, <1>8, <2>2 DEF AsInDb
    <3> QED
      BY <3>1 DEF NewsComing
  <2>3. ASSUME NEW m \in News, m.id = r, m.row.ver = db[r].ver PROVE NewsComing(r)'
    <3>1. CASE m = n
      <4>1. seen'[r] = db[r].ver
        BY <1>5, <1>7, <2>1, <2>3, <3>1
      <4> QED
        BY <4>1 DEF NewsComing
    <3>2. CASE m # n
      BY <1>2, <2>3, <3>2 DEF NewsComing
    <3> QED
      BY <3>1, <3>2
  <2>4. CASE \E i \in jobs : /\ i.kind = "registrations" /\ i.event = mEventId
                             /\ ~i.read \/ i.data[r].ver = db[r].ver
    BY <2>4 DEF NewsComing
  <2> QED
    BY <1>11, <2>2, <2>3, <2>4 DEF NewsComing
<1>12. RowsAsHeard' /\ NoNewsMissed'
  BY <1>10, <1>11 DEF FreshInv, RowsAsHeard, NoNewsMissed
<1> QED
  BY <1>9, <1>12 DEF FreshInv

LEMMA NotificationFresh ==
  ASSUME CountInv, FreshInv, DeliverNotification PROVE FreshInv'
<1>0. /\ TypeOK /\ notifs # <<>> /\ notifs' = Tail(notifs)
      /\ UNCHANGED <<clientVars, jobs, selections, mEventId>>
  BY DEF CountInv, DeliverNotification
<1>1. eventRegistrationNotification(Head(notifs)) \/ RelatedNotification(Head(notifs))
  BY DEF DeliverNotification, RelatedNotification
<1>2. CASE RelatedNotification(Head(notifs))
  <2>1. /\ \A r \in Regs : item'[r].ver = item[r].ver /\ item'[r].in = item[r].in
        /\ Head(notifs).table # "registration"
        /\ UNCHANGED <<mDrivers, mCars, mCarClasses, countVars>>
    BY <1>0, <1>2, RelatedNotificationEffect
  <2>2. News' = News
    BY <1>0, <2>1, TailElements DEF News, TypeOK
  <2> QED
    BY <1>0, <2>1, <2>2, FreshKept DEF countVars, clientVars
<1> QED
  BY <1>0, <1>1, <1>2, RegistrationNotificationFresh

LEMMA SetRelatedResultFresh ==
  ASSUME CountInv, FreshInv, NEW j \in jobs, SetRelatedResult(j),
         UNCHANGED <<db, changes, edits, notifs, selections, mEventId>>
  PROVE  FreshInv'
<1>1. /\ \A r \in Regs : item'[r].ver = item[r].ver /\ item'[r].in = item[r].in
      /\ failures' = 0 => failures = 0
      /\ jobs' = jobs \ {j} /\ j.kind # "registrations"
      /\ UNCHANGED <<mEventRegistrations, seen, overtaken>>
  BY RelatedResultEffect DEF CountInv, countVars
<1>2. News' = News
  BY DEF News
<1> QED
  BY <1>1, <1>2, FreshKept

(* The check box: a write that succeeds is heard of at once; after one     *)
(* that fails, the row may differ from the database.                       *)
LEMMA SetCheckedInFresh ==
  ASSUME CountInv, FreshInv, NEW r \in Regs, setCheckedIn(r) PROVE FreshInv'
<1> DEFINE in == ~item[r].in
<1>0. /\ TypeOK /\ item \in [Regs -> DataItem] /\ seen \in [Regs -> Versions]
      /\ in \in BOOLEAN /\ r \in mEventRegistrations
      /\ UNCHANGED <<mEventRegistrations, jobs, mEventId>>
      /\ mEventRegistrations \subseteq Regs
  BY DEF CountInv, TypeOK, DataItem, setCheckedIn, Edit
<1>1. \/ /\ Write(r, in)
         /\ item' = [item EXCEPT ![r].ver = db'[r].ver, ![r].in = in]
         /\ seen' = [seen EXCEPT ![r] = db'[r].ver]
         /\ overtaken' = overtaken \ {r}
         /\ UNCHANGED failures
      \/ /\ failures' = failures + 1
         /\ item' = [item EXCEPT ![r].in = in]
         /\ UNCHANGED <<db, notifs, seen, overtaken>>
  BY DEF setCheckedIn
<1>2. /\ \A s \in Regs : item[s].ver \in Nat /\ seen[s] \in Nat /\ db[s].ver \in Nat
      /\ failures \in Nat
      /\ \A j \in jobs : \A s \in Regs : j.data[s] \in Row
      /\ NoRow \in Row /\ \A s \in Regs : item[s] \in DataItem
  BY <1>0, VersionTypes, RegistrationAssumption DEF TypeOK, NoRow, Row, Versions
<1> HIDE DEF in
<1>3. CASE /\ Write(r, in)
           /\ item' = [item EXCEPT ![r].ver = db'[r].ver, ![r].in = in]
           /\ seen' = [seen EXCEPT ![r] = db'[r].ver]
           /\ overtaken' = overtaken \ {r}
           /\ UNCHANGED failures
  <2>1. db[r].ver + 1 \in Versions
    <3>1. edits + 1 <= MaxEdits /\ edits \in Nat /\ changes \in Nat /\ changes <= MaxChanges
      BY <1>0, RegistrationAssumption DEF setCheckedIn, Edit, TypeOK
    <3>2. db[r].ver <= changes + edits + 1
      BY DEF CountInv
    <3> QED
      BY <1>2, <3>1, <3>2, RegistrationAssumption DEF Versions
  <2>2. /\ db'[r] = [ver |-> db[r].ver + 1, in |-> in]
        /\ \A s \in Regs : s # r => db'[s] = db[s]
    BY <1>0, <1>3, <2>1, WriteEffect
  <2>3. /\ \A s \in Regs, row \in Row : AsInDb(s, row) => AsInDb(s, row)'
        /\ \A n \in News' : AsInDb(n.id, n.row)'
        /\ \A s \in Regs : s # r /\ NewsComing(s) /\ seen'[s] = seen[s] => NewsComing(s)'
    BY <1>0, <1>3, <2>1, WriteFresh
  <2>4. /\ seen'[r] = db'[r].ver /\ item'[r].ver = db'[r].ver /\ item'[r].in = in
        /\ \A s \in Regs : s # r => item'[s] = item[s] /\ seen'[s] = seen[s]
    BY <1>0, <1>3 DEF DataItem
  <2>5. NothingNewer'
    <3>1. ASSUME NEW s \in Regs PROVE AsInDb(s, NoRow)' /\ seen'[s] <= db'[s].ver
      <4>1. AsInDb(s, NoRow) /\ seen[s] <= db[s].ver
        BY DEF FreshInv, NothingNewer
      <4> QED
        BY <1>2, <2>2, <2>3, <2>4, <4>1
    <3>2. \A j \in jobs', s \in Regs : AsInDb(s, j.data[s])'
      <4>1. \A j \in jobs, s \in Regs : AsInDb(s, j.data[s])
        BY DEF FreshInv, NothingNewer
      <4> QED
        BY <1>0, <1>2, <2>3, <4>1
    <3>3. ASSUME NEW s \in mEventRegistrations'
          PROVE  item'[s].ver <= db'[s].ver /\ (failures' = 0 => AsInDb(s, item[s])')
      <4>1. CASE s = r
        BY <1>2, <2>2, <2>4, <4>1 DEF AsInDb
      <4>2. CASE s # r
        <5>1. item'[s] = item[s] /\ db'[s] = db[s] /\ s \in mEventRegistrations
          BY <1>0, <2>2, <2>4, <4>2
        <5> QED
          BY <1>3, <5>1 DEF FreshInv, NothingNewer, AsInDb
      <4> QED
        BY <4>1, <4>2
    <3> QED
      BY <2>3, <3>1, <3>2, <3>3 DEF NothingNewer
  <2>6. RowsAsHeard'
    <3>1. ASSUME NEW s \in mEventRegistrations' \ overtaken' PROVE item'[s].ver = seen'[s]
      BY <1>0, <1>3, <2>4, <3>1 DEF FreshInv, RowsAsHeard
    <3> QED
      BY <3>1 DEF RowsAsHeard
  <2>7. NoNewsMissed'
    <3>1. NewsComing(r)'
      BY <2>4 DEF NewsComing
    <3>2. ASSUME failures' = 0, NEW s \in Regs, RegEvent[s] = mEventId', s # r
          PROVE  NewsComing(s)'
      BY <1>0, <1>3, <2>3, <2>4, <3>2 DEF FreshInv, NoNewsMissed
    <3> QED
      BY <3>1, <3>2 DEF NoNewsMissed
  <2> QED
    BY <2>5, <2>6, <2>7 DEF FreshInv
<1>4. CASE /\ failures' = failures + 1
           /\ item' = [item EXCEPT ![r].in = in]
           /\ UNCHANGED <<db, notifs, seen, overtaken>>
  <2>1. \A s \in Regs : item'[s].ver = item[s].ver
    BY <1>0, <1>2, <1>4 DEF DataItem
  <2>2. failures' # 0 /\ News' = News
    BY <1>2, <1>4 DEF News
  <2>3. NothingNewer'
    BY <1>0, <1>4, <2>1, <2>2 DEF FreshInv, NothingNewer, AsInDb
  <2>4. RowsAsHeard' /\ NoNewsMissed'
    BY <1>0, <1>4, <2>1, <2>2 DEF FreshInv, RowsAsHeard, NoNewsMissed
  <2> QED
    BY <2>3, <2>4 DEF FreshInv
<1> QED
  BY <1>1, <1>3, <1>4

LEMMA SetRelatedFresh ==
  ASSUME CountInv, FreshInv, NEW r \in Regs, setRelated(r) PROVE FreshInv'
<1> USE DEF setRelated, Edit, mapVars
<1>0. TypeOK /\ item[r] \in DataItem
  BY DEF CountInv, TypeOK
<1>1. PICK n \in Notification : n.table # "registration" /\ notifs' = Append(notifs, n)
  <2>1. CASE item[r].driver # None /\ Notify("driver", item[r].driver, NoRow)
    <3>1. [table |-> "driver", id |-> item[r].driver, row |-> NoRow] \in Notification
      BY <1>0, <2>1 DEF DataItem, Notification
    <3> QED
      BY <2>1, <3>1 DEF Notify
  <2>2. CASE item[r].car # None /\ Notify("car", item[r].car, NoRow)
    <3>1. [table |-> "car", id |-> item[r].car, row |-> NoRow] \in Notification
      BY <1>0, <2>2 DEF DataItem, Notification
    <3> QED
      BY <2>2, <3>1 DEF Notify
  <2> QED
    BY <2>1, <2>2
<1>2. News' = News
  BY <1>0, <1>1, AppendElements DEF News, TypeOK
<1> QED
  BY <1>2, FreshKept

LEMMA NextFresh ==
  ASSUME CountInv, FreshInv, Next PROVE FreshInv'
<1>1. ASSUME NEW r \in Regs, InsertRegistration(r) \/ CheckInElsewhere(r) PROVE FreshInv'
  BY <1>1, ClientFresh DEF InsertRegistration, CheckInElsewhere
<1>2. CASE TouchRelated
  BY <1>2, ClientFresh DEF TouchRelated
<1>3. CASE ReadRegistrations
  BY <1>3, ReadFresh
<1>4. ASSUME NEW e \in Events, setEventId(e) PROVE FreshInv'
  BY <1>4, SelectFresh
<1>5. CASE DeliverResult
  <2>1. PICK j \in jobs : setEventRegistrations(j) \/ SetRelatedResult(j)
    BY <1>5 DEF DeliverResult, SetRelatedResult
  <2>2. UNCHANGED <<db, changes, edits, notifs, selections, mEventId>>
    BY <1>5 DEF DeliverResult
  <2> QED
    BY <2>1, <2>2, SetRegistrationsFresh, SetRelatedResultFresh
<1>6. CASE DeliverNotification
  BY <1>6, NotificationFresh
<1>7. ASSUME NEW r \in Regs, setCheckedIn(r) \/ setRelated(r) PROVE FreshInv'
  BY <1>7, SetCheckedInFresh, SetRelatedFresh
<1> QED
  BY <1>1, <1>2, <1>3, <1>4, <1>5, <1>6, <1>7 DEF Next

(* Versions: nothing in the table or on its way is newer than the          *)
(* database, and the newest version of every registration of the event has *)
(* been heard of or is still on its way, while nothing failed.             *)
THEOREM FreshInvariant == Spec => []FreshInv
<1>1. Init => FreshInv
  BY InitFreshInv
<1>2. CountInv /\ FreshInv /\ [Next]_vars => FreshInv'
  <2>1. ASSUME CountInv, FreshInv, UNCHANGED vars PROVE FreshInv'
    <3>1. News' = News
      BY <2>1 DEF vars, News
    <3> QED
      BY <2>1, <3>1, FreshKept DEF vars
  <2> QED
    BY <2>1, NextFresh
<1> QED
  BY <1>1, <1>2, CountInvariant, PTL DEF Spec

(* StaleOnlyIfOvertaken: with nothing on its way, the newest version has   *)
(* been heard of, and a row that was not overtaken has it.                 *)
THEOREM StaleOnlyByOvertaking == Spec => []StaleOnlyIfOvertaken
<1>1. CountInv /\ FreshInv => StaleOnlyIfOvertaken
  <2> SUFFICES ASSUME CountInv, FreshInv, Quiet, failures = 0,
                      NEW r \in mEventRegistrations \ overtaken
               PROVE  item[r].ver = db[r].ver /\ item[r].in = db[r].in
    BY DEF StaleOnlyIfOvertaken
  <2>1. r \in Regs /\ RegEvent[r] = mEventId
    BY DEF CountInv, TypeOK, RowsOfEvent
  <2>2. News = {} /\ jobs = {}
    BY DEF Quiet, News, ToSet
  <2>3. seen[r] = db[r].ver
    BY <2>1, <2>2 DEF FreshInv, NoNewsMissed, NewsComing
  <2>4. item[r].ver = db[r].ver
    BY <2>3 DEF FreshInv, RowsAsHeard
  <2> QED
    BY <2>4 DEF FreshInv, NothingNewer, AsInDb
<1> QED
  BY <1>1, CountInvariant, FreshInvariant, PTL

-----------------------------------------------------------------------------
(* Layer 3.                                                                *)

LEMMA InitLoadInv == Init => LoadInv
<1> SUFFICES ASSUME Init PROVE LoadInv
  OBVIOUS
<1>1. /\ mEventRegistrations = {} /\ mEventId = None
      /\ \A d \in Drivers : mDrivers[d] = None
      /\ \A c \in Cars : mCars[c] = None
      /\ \A r \in Regs : item[r].driver = None /\ item[r].car = None
  BY DEF Init, NoItem
<1> QED
  BY <1>1 DEF LoadInv, RowsRegistered, MapsLeadToRows, ItemsShowTheirOwn

(* The pointers of items are only ever set to what they should be.         *)
PointersMend ==
  \A r \in Regs : /\ item'[r].driver \in {item[r].driver, RegDriver[r]}
                  /\ item'[r].car \in {item[r].car, RegCar[r]}
                  /\ item'[r].class \in {item[r].class, ClassOf[RegCar[r]]}

LEMMA DriversMend ==
  ASSUME TypeOK, MapsLeadToRows, NEW ds \in SUBSET Drivers, item' = WithDrivers(ds)
  PROVE  /\ PointersMend
         /\ \A r \in Regs : RegDriver[r] \in ds /\ mDrivers[RegDriver[r]] = r =>
              item'[r].driver = RegDriver[r]
<1>1. ASSUME NEW r \in Regs, NEW d \in ds, mDrivers[d] = r PROVE RegDriver[r] = d
  BY <1>1, RegistrationAssumption DEF MapsLeadToRows
<1>2. \A r \in Regs :
        /\ item'[r].car = item[r].car /\ item'[r].class = item[r].class
        /\ IF \E d \in ds : mDrivers[d] = r
           THEN item'[r].driver \in ds /\ mDrivers[item'[r].driver] = r
           ELSE item'[r].driver = item[r].driver
  BY WithDriversEffect
<1> QED
  BY <1>1, <1>2 DEF PointersMend

LEMMA CarsMend ==
  ASSUME TypeOK, MapsLeadToRows, NEW cs \in SUBSET Cars
  PROVE  \A r \in Regs :
           /\ WithCars(cs)[r].car \in {item[r].car, RegCar[r]}
           /\ RegCar[r] \in cs /\ mCars[RegCar[r]] = r => WithCars(cs)[r].car = RegCar[r]
<1>1. ASSUME NEW r \in Regs, NEW c \in cs, mCars[c] = r PROVE RegCar[r] = c
  BY <1>1, RegistrationAssumption DEF MapsLeadToRows
<1>2. \A r \in Regs : IF \E c \in cs : mCars[c] = r
                      THEN WithCars(cs)[r].car \in cs /\ mCars[WithCars(cs)[r].car] = r
                      ELSE WithCars(cs)[r].car = item[r].car
  BY WithCarsEffect
<1> QED
  BY <1>1, <1>2

LEMMA ClassesMend ==
  ASSUME NEW items \in [Regs -> DataItem], NEW classes \in SUBSET Classes,
         item' = WithClasses(items, classes),
         \A r \in Regs : /\ items[r].driver = item[r].driver /\ items[r].class = item[r].class
                         /\ items[r].car \in {item[r].car, RegCar[r]}
                         /\ items[r].car \in {None, RegCar[r]}
  PROVE  /\ PointersMend
         /\ \A r \in Regs : item'[r].driver = items[r].driver /\ item'[r].car = items[r].car
         /\ \A r \in Regs : /\ mCars[RegCar[r]] = r /\ items[r].car = RegCar[r]
                            /\ ClassOf[RegCar[r]] \in classes
                            => item'[r].class = ClassOf[RegCar[r]]
<1>1. \A r \in Regs :
        /\ item'[r].driver = items[r].driver /\ item'[r].car = items[r].car
        /\ item'[r].class
             = IF /\ \E c \in Cars : mCars[c] = r
                  /\ items[r].car # None /\ ClassOf[items[r].car] \in classes
               THEN ClassOf[items[r].car] ELSE items[r].class
  BY WithClassesEffect
<1>2. \A r \in Regs : RegCar[r] \in Cars /\ RegCar[r] # None
  BY RegistrationAssumption
<1> QED
  BY <1>1, <1>2 DEF PointersMend

(* A registration is lost only if another client inserted it after the     *)
(* query read: whatever else happens, Lost does not grow.                  *)
LEMMA LostFinite ==
  ASSUME TypeOK
  PROVE  IsFiniteSet(Lost) /\ Cardinality(Lost) \in Nat /\ changes \in Nat
<1>1. Lost \in SUBSET Regs
  BY DEF Lost, Registered
<1>2. IsFiniteSet(Lost)
  BY <1>1, RegistrationAssumption, FS_Subset
<1>3. Cardinality(Lost) \in Nat
  BY <1>2, FS_CardinalityType
<1> QED
  BY <1>2, <1>3, RegistrationAssumption DEF TypeOK

LEMMA LostKept ==
  ASSUME TypeOK, TypeOK', LoadInv, UNCHANGED mEventId, changes <= changes',
         failures' = 0 => failures = 0 /\ Lost' \subseteq Lost
  PROVE  failures' = 0 /\ mEventId' # None => Cardinality(Lost') <= changes'
<1> SUFFICES ASSUME failures' = 0, mEventId' # None PROVE Cardinality(Lost') <= changes'
  OBVIOUS
<1>1. Cardinality(Lost) <= changes /\ Lost' \in SUBSET Lost
  BY DEF LoadInv
<1>2. IsFiniteSet(Lost) /\ Cardinality(Lost) \in Nat /\ changes \in Nat
  BY LostFinite
<1>3. IsFiniteSet(Lost') /\ Cardinality(Lost') <= Cardinality(Lost)
  BY <1>1, <1>2, FS_Subset
<1>4. Cardinality(Lost') \in Nat /\ changes' \in Nat
  BY <1>3, FS_CardinalityType, RegistrationAssumption DEF TypeOK
<1> QED
  BY <1>1, <1>2, <1>3, <1>4

(* A row that needs nothing but what is on its way is no worse off after a *)
(* step that mends pointers, while the queries stay on their way.          *)
LEMMA RowKept ==
  ASSUME NEW r \in mEventRegistrations, r \in Regs, RowComplete(r), PointersMend,
         UNCHANGED <<mEventRegistrations, mEventId>>, mCarClasses \subseteq mCarClasses',
         \A j \in jobs : \E k \in jobs' : k.kind = j.kind /\ k.event = j.event
  PROVE  RowComplete(r)'
<1>1. \A kinds : Coming(kinds) => Coming(kinds)'
  BY DEF Coming
<1>2. Alone(r)' <=> Alone(r)
  BY DEF Alone
<1>3. /\ item[r].driver = RegDriver[r] => item'[r].driver = RegDriver[r]
      /\ item[r].car = RegCar[r] => item'[r].car = RegCar[r]
      /\ item[r].class = ClassOf[RegCar[r]] => item'[r].class = ClassOf[RegCar[r]]
  BY DEF PointersMend
<1>4. ClassOf[RegCar[r]] \in mCarClasses => ClassOf[RegCar[r]] \in mCarClasses'
  OBVIOUS
<1>5. /\ ClassOf[RegCar[r]] \in mCarClasses' \/ Coming({"classes"})'
      /\ Alone(r)' =>
           /\ item'[r].driver = RegDriver[r] \/ Coming({"drivers"})'
           /\ item'[r].car = RegCar[r] \/ Coming({"cars"})'
           /\ item'[r].class = ClassOf[RegCar[r]] \/ Coming({"cars", "classes"})'
  <2>1. /\ ClassOf[RegCar[r]] \in mCarClasses \/ Coming({"classes"})
        /\ Alone(r) =>
             /\ item[r].driver = RegDriver[r] \/ Coming({"drivers"})
             /\ item[r].car = RegCar[r] \/ Coming({"cars"})
             /\ item[r].class = ClassOf[RegCar[r]] \/ Coming({"cars", "classes"})
    BY DEF RowComplete
  <2>2. ClassOf[RegCar[r]] \in mCarClasses' \/ Coming({"classes"})'
    BY <1>1, <1>4, <2>1
  <2>3. ASSUME Alone(r) PROVE item'[r].driver = RegDriver[r] \/ Coming({"drivers"})'
    BY <1>1, <1>3, <2>1, <2>3
  <2>4. ASSUME Alone(r) PROVE item'[r].car = RegCar[r] \/ Coming({"cars"})'
    BY <1>1, <1>3, <2>1, <2>4
  <2>5. ASSUME Alone(r)
        PROVE  item'[r].class = ClassOf[RegCar[r]] \/ Coming({"cars", "classes"})'
    BY <1>1, <1>3, <2>1, <2>5
  <2> QED
    BY <1>2, <2>2, <2>3, <2>4, <2>5
<1> QED
  BY <1>5 DEF RowComplete

(* A step that changes no row and keeps the queries on their way.          *)
LEMMA LoadKept ==
  ASSUME CountInv, TypeOK', LoadInv, PointersMend, RowsRegistered', MapsLeadToRows',
         UNCHANGED <<mEventRegistrations, mEventId>>, mCarClasses \subseteq mCarClasses',
         failures' = 0 => failures = 0,
         failures' = 0 /\ mEventId' # None => Cardinality(Lost') <= changes',
         \A j \in jobs : \E k \in jobs' : k.kind = j.kind /\ k.event = j.event
  PROVE  LoadInv'
<1>1. ItemsShowTheirOwn'
  BY DEF LoadInv, ItemsShowTheirOwn, PointersMend
<1>2. ASSUME failures' = 0, NEW r \in mEventRegistrations' PROVE RowComplete(r)'
  <2>1. r \in mEventRegistrations /\ r \in Regs /\ RowComplete(r)
    BY <1>2 DEF LoadInv, CountInv, TypeOK
  <2> QED
    BY <2>1, RowKept
<1> QED
  BY <1>1, <1>2 DEF LoadInv

(* Nobody but an insertion adds a registration to those that are lost.     *)
LEMMA LostWithin ==
  ASSUME UNCHANGED <<mEventId, mEventRegistrations>>, NEW S,
         \A r \in Regs \ S : db'[r].ver > 0 => db[r].ver > 0,
         \A r \in Regs : Awaited(r) => Awaited(r)'
  PROVE  Lost' \subseteq Lost \cup S
  BY DEF Lost, Registered

LEMMA ClientLoad ==
  ASSUME CountInv, CountInv', LoadInv, Commit,
         TouchRelated \/ \E r \in Regs : InsertRegistration(r) \/ CheckInElsewhere(r)
  PROVE  LoadInv'
<1>0. /\ TypeOK /\ TypeOK'
      /\ changes' = changes + 1 /\ changes \in Nat
      /\ UNCHANGED <<failures, jobs, mEventId, item, mDrivers, mCars, mCarClasses,
                     mEventRegistrations>>
  BY RegistrationAssumption DEF CountInv, TypeOK, Commit, mapVars, countVars
<1>1. PointersMend /\ MapsLeadToRows' /\ \A r \in Regs : Awaited(r) => Awaited(r)'
  BY <1>0 DEF PointersMend, LoadInv, MapsLeadToRows, Awaited
<1>2. ASSUME NEW S, \A r \in Regs \ S : db'[r].ver > 0 => db[r].ver > 0
      PROVE  Lost' \subseteq Lost \cup S
  BY <1>0, <1>1, <1>2, LostWithin
<1>3. CASE TouchRelated
  <2>1. UNCHANGED db
    BY <1>3 DEF TouchRelated
  <2>2. Lost' \subseteq Lost /\ RowsRegistered'
    BY <1>0, <1>2, <2>1 DEF LoadInv, RowsRegistered
  <2>3. failures' = 0 /\ mEventId' # None => Cardinality(Lost') <= changes'
    BY <1>0, <2>2, LostKept
  <2> QED
    BY <1>0, <1>1, <2>2, <2>3, LoadKept
<1>4. ASSUME NEW r \in Regs, InsertRegistration(r) \/ CheckInElsewhere(r) PROVE LoadInv'
  <2>1. \A s \in Regs : db'[s].ver = IF s = r THEN db[r].ver + 1 ELSE db[s].ver
    BY <1>0, <1>4 DEF InsertRegistration, CheckInElsewhere, Write, TypeOK
  <2>2. mEventRegistrations \subseteq Regs /\ \A s \in Regs : db[s].ver \in Nat
    BY <1>0, VersionTypes DEF TypeOK
  <2>3. RowsRegistered'
    BY <1>0, <2>1, <2>2 DEF LoadInv, RowsRegistered
  <2>4. failures' = 0 /\ mEventId' # None => Cardinality(Lost') <= changes'
    <3>1. ASSUME failures = 0, mEventId # None PROVE Cardinality(Lost') <= changes'
      <4>1. Lost' \in SUBSET (Lost \cup {r})
        BY <1>2, <2>1
      <4>2. /\ IsFiniteSet(Lost) /\ Cardinality(Lost) \in Nat /\ Cardinality(Lost) <= changes
        BY <1>0, <3>1, LostFinite DEF LoadInv
      <4>3. /\ IsFiniteSet(Lost \cup {r})
            /\ \/ Cardinality(Lost \cup {r}) = Cardinality(Lost) + 1
               \/ Cardinality(Lost \cup {r}) = Cardinality(Lost)
        BY <4>2, FS_AddElement
      <4>4. IsFiniteSet(Lost') /\ Cardinality(Lost') <= Cardinality(Lost \cup {r})
        BY <4>1, <4>3, FS_Subset
      <4>5. Cardinality(Lost') \in Nat
        BY <4>4, FS_CardinalityType
      <4> QED
        BY <1>0, <4>2, <4>3, <4>4, <4>5
    <3> QED
      BY <1>0, <3>1
  <2> QED
    BY <1>0, <1>1, <2>3, <2>4, LoadKept
<1> QED
  BY <1>3, <1>4

LEMMA ReadLoad ==
  ASSUME CountInv, CountInv', LoadInv, ReadRegistrations PROVE LoadInv'
<1> USE DEF mapVars, countVars
<1>0. TypeOK /\ TypeOK' /\ changes \in Nat
  BY RegistrationAssumption DEF CountInv, TypeOK
<1>1. PICK j \in jobs : \E snapshot \in {OfEvent(j.event), [r \in Regs |-> NoRow]} :
        /\ j.kind = "registrations" /\ ~j.read
        /\ Outcome(snapshot, OfEvent(j.event), [r \in Regs |-> NoRow])
        /\ jobs' = (jobs \ {j}) \cup {[j EXCEPT !.read = TRUE, !.data = snapshot]}
  BY DEF ReadRegistrations
<1>2. PICK snapshot \in {OfEvent(j.event), [r \in Regs |-> NoRow]} :
        /\ Outcome(snapshot, OfEvent(j.event), [r \in Regs |-> NoRow])
        /\ jobs' = (jobs \ {j}) \cup {[j EXCEPT !.read = TRUE, !.data = snapshot]}
  BY <1>1
<1> DEFINE k == [j EXCEPT !.read = TRUE, !.data = snapshot]
<1>3. j \in Job /\ k.kind = j.kind /\ k.event = j.event /\ k.read = TRUE /\ k.data = snapshot
  BY <1>0, <1>1 DEF TypeOK, Job
<1>4. jobs' = (jobs \ {j}) \cup {k}
  BY <1>2
<1> HIDE DEF k
<1>5. UNCHANGED <<db, changes, mEventId, mEventRegistrations, item, mDrivers, mCars,
                  mCarClasses>>
  BY DEF ReadRegistrations
<1>6. failures \in Nat /\ (failures' = failures \/ failures' = failures + 1)
  BY <1>0, <1>2, VersionTypes DEF Outcome
<1>7. \A i \in jobs : \E l \in jobs' : l.kind = i.kind /\ l.event = i.event
  <2>1. ASSUME NEW i \in jobs PROVE \E l \in jobs' : l.kind = i.kind /\ l.event = i.event
    <3>1. CASE i = j
      BY <1>3, <1>4, <3>1
    <3>2. CASE i # j
      BY <1>4, <3>2
    <3> QED
      BY <3>1, <3>2
  <2> QED
    BY <2>1
<1>8. ASSUME failures' = 0 PROVE failures = 0 /\ Lost' \subseteq Lost
  <2>1. snapshot = OfEvent(j.event) /\ failures = 0
    BY <1>2, <1>6, <1>8 DEF Outcome
  <2>2. ASSUME NEW r \in Registered(mEventId), Awaited(r) PROVE Awaited(r)'
    <3>1. r \in Regs /\ db[r].ver > 0 /\ RegEvent[r] = mEventId
      BY DEF Registered
    <3>2. PICK i \in jobs : /\ i.kind = "registrations" /\ i.event = mEventId
                            /\ ~i.read \/ i.data[r].ver > 0
      BY <2>2 DEF Awaited
    <3>3. CASE i = j
      <4>1. k.data[r] = db[r] /\ k \in jobs'
        BY <1>3, <1>4, <2>1, <3>1, <3>2, <3>3 DEF OfEvent
      <4> QED
        BY <1>1, <1>3, <1>5, <3>1, <3>2, <3>3, <4>1 DEF Awaited
    <3>4. CASE i # j
      BY <1>4, <1>5, <3>2, <3>4 DEF Awaited
    <3> QED
      BY <3>3, <3>4
  <2> QED
    BY <1>5, <2>1, <2>2 DEF Lost, Registered
<1>9. failures' = 0 /\ mEventId' # None => Cardinality(Lost') <= changes'
  BY <1>0, <1>5, <1>8, LostKept
<1>10. PointersMend /\ MapsLeadToRows' /\ RowsRegistered'
  BY <1>5 DEF PointersMend, LoadInv, MapsLeadToRows, RowsRegistered
<1> QED
  BY <1>0, <1>5, <1>7, <1>8, <1>9, <1>10, LoadKept

LEMMA SelectLoad ==
  ASSUME CountInv, CountInv', LoadInv, NEW e \in Events, setEventId(e) PROVE LoadInv'
<1> DEFINE k == Ask("registrations", selections', e)
<1>0. changes' = changes /\ changes \in Nat
  BY RegistrationAssumption DEF CountInv, TypeOK, setEventId, clientVars
<1>1. /\ mEventId' = e /\ mEventRegistrations' = {} /\ jobs' = jobs \cup {k}
      /\ \A d \in Drivers : mDrivers'[d] = None
      /\ \A c \in Cars : mCars'[c] = None
      /\ \A r \in Regs : item'[r].driver = None /\ item'[r].car = None
  BY DEF setEventId, reset, NoItem
<1>2. k.kind = "registrations" /\ k.event = e /\ ~k.read
  BY DEF Ask
<1> HIDE DEF k
<1>3. \A r \in Regs : Awaited(r)'
  BY <1>1, <1>2 DEF Awaited
<1>4. Lost' = {}
  BY <1>3 DEF Lost, Registered
<1>5. Cardinality(Lost') <= changes'
  BY <1>0, <1>4, FS_EmptySet
<1> QED
  BY <1>1, <1>5 DEF LoadInv, RowsRegistered, MapsLeadToRows, ItemsShowTheirOwn

(* updateEventRegistration: the maps lead to rows again.                   *)
LEMMA UpdateMaps ==
  ASSUME TypeOK, MapsLeadToRows, NEW regs \in SUBSET Regs, NEW rows \in [Regs -> Row],
         updateRegistrations(regs, rows)
  PROVE  MapsLeadToRows' /\ PointersMend
<1> DEFINE touched == OfThisEvent(regs)
<1>1. touched = OfThisEvent(regs)
  OBVIOUS
<1> HIDE DEF touched
<1>2. /\ touched \in SUBSET Regs /\ mEventRegistrations' = mEventRegistrations \cup touched
      /\ \A r \in Regs : /\ item'[r].driver = item[r].driver /\ item'[r].car = item[r].car
                         /\ item'[r].class = item[r].class
      /\ \A d \in Drivers : IF \E r \in touched : RegDriver[r] = d
           THEN mDrivers'[d] \in touched /\ RegDriver[mDrivers'[d]] = d
           ELSE mDrivers'[d] = mDrivers[d]
      /\ \A c \in Cars : IF \E r \in touched : RegCar[r] = c
           THEN mCars'[c] \in touched /\ RegCar[mCars'[c]] = c
           ELSE mCars'[c] = mCars[c]
  BY <1>1, UpdateEffect
<1>3. PointersMend
  BY <1>2 DEF PointersMend
<1>4. /\ \A r \in Regs : RegDriver[r] \in Drivers /\ RegCar[r] \in Cars /\ r # None
      /\ mEventRegistrations \subseteq Regs
  BY RegistrationAssumption DEF TypeOK
<1>5. \A d \in Drivers : mDrivers'[d] # None =>
        mDrivers'[d] \in mEventRegistrations' /\ RegDriver[mDrivers'[d]] = d
  BY <1>2 DEF MapsLeadToRows
<1>6. \A c \in Cars : mCars'[c] # None =>
        mCars'[c] \in mEventRegistrations' /\ RegCar[mCars'[c]] = c
  BY <1>2 DEF MapsLeadToRows
<1>7. ASSUME NEW r \in mEventRegistrations'
      PROVE  mDrivers'[RegDriver[r]] # None /\ mCars'[RegCar[r]] # None
  <2>1. r \in Regs /\ RegDriver[r] \in Drivers /\ RegCar[r] \in Cars
    BY <1>2, <1>4
  <2>2. r \notin touched => mDrivers[RegDriver[r]] # None /\ mCars[RegCar[r]] # None
    BY <1>2 DEF MapsLeadToRows
  <2>3. mDrivers'[RegDriver[r]] # None
    BY <1>2, <1>4, <2>1, <2>2
  <2>4. mCars'[RegCar[r]] # None
    BY <1>2, <1>4, <2>1, <2>2
  <2> QED
    BY <2>3, <2>4
<1>8. MapsLeadToRows'
  BY <1>5, <1>6, <1>7 DEF MapsLeadToRows
<1> QED
  BY <1>3, <1>8

LEMMA SetRegistrationsLoad ==
  ASSUME CountInv, CountInv', FreshInv, LoadInv, NEW j \in jobs, setEventRegistrations(j),
         UNCHANGED <<db, changes, edits, notifs, selections, mEventId>>
  PROVE  LoadInv'
<1> DEFINE regs == {r \in Regs : j.data[r].ver > 0}
           touched == OfThisEvent(regs)
<1>0. TypeOK /\ TypeOK' /\ changes \in Nat
  BY RegistrationAssumption DEF CountInv, TypeOK
<1>1. /\ j.data \in [Regs -> Row] /\ regs \in SUBSET Regs /\ touched = OfThisEvent(regs)
      /\ updateRegistrations(regs, j.data)
      /\ j.kind = "registrations" /\ j.read /\ UNCHANGED failures
  BY <1>0, VersionTypes DEF setEventRegistrations
<1>2. \A r \in Regs : r \in touched <=> j.data[r].ver > 0 /\ RegEvent[r] = mEventId
  BY DEF OfThisEvent
<1>3. \A k \in {"drivers", "cars", "classes"} : Ask(k, j.sel, mEventId) \in jobs'
  BY DEF setEventRegistrations
<1>4. \A i \in jobs \ {j} : i \in jobs'
  BY DEF setEventRegistrations
<1> HIDE DEF touched, regs
<1>5. touched \in SUBSET Regs /\ mEventRegistrations' = mEventRegistrations \cup touched
  BY <1>0, <1>1, UpdateEffect
<1>6. MapsLeadToRows' /\ PointersMend
  BY <1>0, <1>1, UpdateMaps DEF LoadInv
<1>7. ItemsShowTheirOwn'
  BY <1>6 DEF LoadInv, ItemsShowTheirOwn, PointersMend
<1>8. RowsRegistered'
  <2>1. \A r \in touched : j.data[r].ver > 0 /\ j.data[r].ver <= db[r].ver
    BY <1>2, <1>5 DEF FreshInv, NothingNewer, AsInDb
  <2>2. \A r \in touched : j.data[r].ver \in Nat /\ db[r].ver \in Nat
    BY <1>0, <1>5, VersionTypes
  <2>3. \A r \in touched : db[r].ver > 0
    BY <2>1, <2>2
  <2> QED
    BY <1>5, <2>3 DEF LoadInv, RowsRegistered
<1>9. Lost' \subseteq Lost
  <2>1. ASSUME NEW r \in Registered(mEventId), Awaited(r), r \notin mEventRegistrations'
        PROVE  Awaited(r)'
    <3>1. r \in Regs /\ RegEvent[r] = mEventId
      BY DEF Registered
    <3>2. PICK i \in jobs : /\ i.kind = "registrations" /\ i.event = mEventId
                            /\ ~i.read \/ i.data[r].ver > 0
      BY <2>1 DEF Awaited
    <3>3. i # j
      BY <1>1, <1>2, <1>5, <2>1, <3>1, <3>2
    <3> QED
      BY <1>4, <3>2, <3>3 DEF Awaited
  <2> QED
    BY <1>5, <2>1 DEF Lost, Registered
<1>10. failures' = 0 /\ mEventId' # None => Cardinality(Lost') <= changes'
  BY <1>0, <1>1, <1>9, LostKept
<1>11. Coming({"drivers"})' /\ Coming({"cars"})' /\ Coming({"classes"})'
         /\ Coming({"cars", "classes"})'
  <2>1. \A k \in {"drivers", "cars", "classes"} :
          \E i \in jobs' : i.kind = k /\ i.event = mEventId
    BY <1>3 DEF Ask
  <2> QED
    BY <2>1 DEF Coming
<1>12. \A r \in mEventRegistrations' : RowComplete(r)'
  BY <1>11 DEF RowComplete
<1> QED
  BY <1>6, <1>7, <1>8, <1>10, <1>12 DEF LoadInv

(* The row that the map of a driver or a car leads to is the only one of   *)
(* that driver or car.                                                     *)
LEMMA MapsLeadToAlone ==
  ASSUME TypeOK, MapsLeadToRows, NEW r \in mEventRegistrations, Alone(r)
  PROVE  mDrivers[RegDriver[r]] = r /\ mCars[RegCar[r]] = r
<1>1. RegDriver[r] \in Drivers /\ RegCar[r] \in Cars
  BY RegistrationAssumption DEF TypeOK
<1>2. /\ mDrivers[RegDriver[r]] \in mEventRegistrations
      /\ RegDriver[mDrivers[RegDriver[r]]] = RegDriver[r]
      /\ mCars[RegCar[r]] \in mEventRegistrations
      /\ RegCar[mCars[RegCar[r]]] = RegCar[r]
  BY <1>1 DEF MapsLeadToRows
<1> QED
  BY <1>2 DEF Alone

(* The drivers, cars or classes that a query found: a row that waited for  *)
(* them is in Registered, so they are what the query found.                *)
LEMMA SetRelatedResultLoad ==
  ASSUME CountInv, CountInv', LoadInv, NEW j \in jobs, SetRelatedResult(j),
         UNCHANGED <<db, changes, edits, notifs, selections, mEventId>>
  PROVE  LoadInv'
<1>0. /\ TypeOK /\ TypeOK' /\ changes \in Nat /\ MapsLeadToRows /\ ItemsShowTheirOwn
      /\ item \in [Regs -> DataItem] /\ mCarClasses \in SUBSET Classes
      /\ mEventRegistrations \subseteq Regs
  BY RegistrationAssumption DEF CountInv, TypeOK, LoadInv
<1>1. /\ failures' = 0 => failures = 0
      /\ jobs' = jobs \ {j} /\ j.kind # "registrations"
      /\ UNCHANGED <<mDrivers, mCars, mEventRegistrations>>
  BY <1>0, RelatedResultEffect DEF countVars
<1>2. Lost' \subseteq Lost
  <2>1. \A r \in Regs : Awaited(r) => Awaited(r)'
    BY <1>1 DEF Awaited
  <2> QED
    BY <1>1, <2>1 DEF Lost, Registered
<1>3. failures' = 0 /\ mEventId' # None => Cardinality(Lost') <= changes'
  BY <1>0, <1>1, <1>2, LostKept
<1>4. MapsLeadToRows' /\ RowsRegistered'
  BY <1>1 DEF LoadInv, MapsLeadToRows, RowsRegistered
<1>5. ASSUME NEW kinds, j.kind \notin kinds \/ j.event # mEventId, Coming(kinds)
      PROVE  Coming(kinds)'
  BY <1>1, <1>5 DEF Coming
<1>6. ASSUME NEW r \in mEventRegistrations
      PROVE  /\ RegDriver[r] \in {RegDriver[s] : s \in Registered(mEventId)}
             /\ RegCar[r] \in {RegCar[s] : s \in Registered(mEventId)}
             /\ ClassOf[RegCar[r]] \in {ClassOf[RegCar[s]] : s \in Registered(mEventId)}
             /\ ClassOf[RegCar[r]] \in Classes
             /\ Alone(r) => mDrivers[RegDriver[r]] = r /\ mCars[RegCar[r]] = r
             /\ Alone(r)' <=> Alone(r)
             /\ RegDriver[r] \in Drivers /\ RegCar[r] \in Cars
  <2>1. r \in Registered(mEventId)
    BY <1>0 DEF Registered, LoadInv, RowsRegistered, CountInv, RowsOfEvent
  <2>2. Alone(r)' <=> Alone(r)
    BY <1>1 DEF Alone
  <2>3. RegDriver[r] \in Drivers /\ RegCar[r] \in Cars /\ ClassOf[RegCar[r]] \in Classes
    BY <1>0, RegistrationAssumption
  <2> QED
    BY <1>0, <2>1, <2>2, <2>3, MapsLeadToAlone
<1>7. ASSUME NEW r \in mEventRegistrations, failures = 0
      PROVE  /\ ClassOf[RegCar[r]] \in mCarClasses \/ Coming({"classes"})
             /\ Alone(r) =>
                  /\ item[r].driver = RegDriver[r] \/ Coming({"drivers"})
                  /\ item[r].car = RegCar[r] \/ Coming({"cars"})
                  /\ item[r].class = ClassOf[RegCar[r]] \/ Coming({"cars", "classes"})
  BY <1>7 DEF LoadInv, RowComplete
<1> DEFINE Done == /\ PointersMend
                   /\ failures' = 0 => \A r \in mEventRegistrations : RowComplete(r)'
<1>8. ASSUME NEW drivers \in SUBSET Drivers, setDrivers(j, drivers) PROVE Done
  <2>1. /\ item' = WithDrivers(drivers) /\ UNCHANGED mCarClasses /\ j.kind = "drivers"
        /\ Outcome(drivers, {RegDriver[r] : r \in Registered(j.event)}, {})
    BY <1>8 DEF setDrivers, mapVars
  <2>2. /\ PointersMend
        /\ \A r \in Regs : RegDriver[r] \in drivers /\ mDrivers[RegDriver[r]] = r =>
             item'[r].driver = RegDriver[r]
    BY <1>0, <2>1, DriversMend
  <2>3. ASSUME failures' = 0, NEW r \in mEventRegistrations PROVE RowComplete(r)'
    <3>0. r \in Regs /\ failures = 0
      BY <1>0, <1>1, <2>3
    <3>1. drivers = {RegDriver[s] : s \in Registered(j.event)}
      BY <1>0, <2>1, <2>3, VersionTypes DEF Outcome
    <3>2. ClassOf[RegCar[r]] \in mCarClasses' \/ Coming({"classes"})'
      BY <1>5, <1>7, <2>1, <3>0
    <3>3. ASSUME Alone(r) PROVE item'[r].driver = RegDriver[r] \/ Coming({"drivers"})'
      <4>1. CASE j.event = mEventId
        BY <1>6, <2>2, <3>0, <3>1, <3>3, <4>1
      <4>2. CASE j.event # mEventId
        BY <1>5, <1>7, <2>2, <3>0, <3>3, <4>2 DEF PointersMend
      <4> QED
        BY <4>1, <4>2
    <3>4. ASSUME Alone(r) PROVE item'[r].car = RegCar[r] \/ Coming({"cars"})'
      BY <1>5, <1>7, <2>1, <2>2, <3>0, <3>4 DEF PointersMend
    <3>5. ASSUME Alone(r)
          PROVE  item'[r].class = ClassOf[RegCar[r]] \/ Coming({"cars", "classes"})'
      BY <1>5, <1>7, <2>1, <2>2, <3>0, <3>5 DEF PointersMend
    <3> QED
      BY <1>6, <3>2, <3>3, <3>4, <3>5 DEF RowComplete
  <2> QED
    BY <2>2, <2>3
<1>9. ASSUME NEW cars \in SUBSET Cars, setCars(j, cars) PROVE Done
  <2> DEFINE items == WithCars(cars)
  <2>1. /\ item' = WithClasses(items, mCarClasses) /\ UNCHANGED mCarClasses /\ j.kind = "cars"
        /\ Outcome(cars, {RegCar[r] : r \in Registered(j.event)}, {})
    BY <1>9 DEF setCars, mapVars
  <2>2. /\ items \in [Regs -> DataItem]
        /\ \A r \in Regs : /\ items[r].driver = item[r].driver
                           /\ items[r].class = item[r].class
                           /\ items[r].car \in {item[r].car, RegCar[r]}
                           /\ items[r].car \in {None, RegCar[r]}
                           /\ RegCar[r] \in cars /\ mCars[RegCar[r]] = r =>
                                items[r].car = RegCar[r]
    <3>1. /\ items \in [Regs -> DataItem]
          /\ \A r \in Regs : items[r].driver = item[r].driver /\ items[r].class = item[r].class
      BY <1>0, WithCarsEffect
    <3>2. \A r \in Regs : /\ items[r].car \in {item[r].car, RegCar[r]}
                          /\ RegCar[r] \in cars /\ mCars[RegCar[r]] = r =>
                                items[r].car = RegCar[r]
      BY <1>0, CarsMend
    <3> HIDE DEF items
    <3> QED
      BY <1>0, <3>1, <3>2 DEF ItemsShowTheirOwn
  <2> HIDE DEF items
  <2>3. /\ PointersMend
        /\ \A r \in Regs : item'[r].driver = items[r].driver /\ item'[r].car = items[r].car
        /\ \A r \in Regs : /\ mCars[RegCar[r]] = r /\ items[r].car = RegCar[r]
                           /\ ClassOf[RegCar[r]] \in mCarClasses
                           => item'[r].class = ClassOf[RegCar[r]]
    BY <1>0, <2>1, <2>2, ClassesMend
  <2>4. ASSUME failures' = 0, NEW r \in mEventRegistrations PROVE RowComplete(r)'
    <3>0. r \in Regs /\ failures = 0
      BY <1>0, <1>1, <2>4
    <3>1. cars = {RegCar[s] : s \in Registered(j.event)}
      BY <1>0, <2>1, <2>4, VersionTypes DEF Outcome
    <3>2. ClassOf[RegCar[r]] \in mCarClasses' \/ Coming({"classes"})'
      BY <1>5, <1>7, <2>1, <3>0
    <3>3. ASSUME Alone(r) PROVE item'[r].driver = RegDriver[r] \/ Coming({"drivers"})'
      BY <1>5, <1>7, <2>1, <2>3, <3>0, <3>3 DEF PointersMend
    <3>4. ASSUME Alone(r) PROVE item'[r].car = RegCar[r] \/ Coming({"cars"})'
      <4>1. CASE j.event = mEventId
        BY <1>6, <2>2, <2>3, <3>0, <3>1, <3>4, <4>1
      <4>2. CASE j.event # mEventId
        BY <1>5, <1>7, <2>3, <3>0, <3>4, <4>2 DEF PointersMend
      <4> QED
        BY <4>1, <4>2
    <3>5. ASSUME Alone(r)
          PROVE  item'[r].class = ClassOf[RegCar[r]] \/ Coming({"cars", "classes"})'
      <4>1. CASE j.event = mEventId
        <5>1. CASE ClassOf[RegCar[r]] \in mCarClasses
          BY <1>6, <2>2, <2>3, <3>0, <3>1, <3>5, <4>1, <5>1
        <5>2. CASE Coming({"classes"})
          <6>1. Coming({"classes"})'
            BY <1>5, <2>1, <5>2
          <6> QED
            BY <6>1 DEF Coming
        <5> QED
          BY <1>7, <3>0, <5>1, <5>2
      <4>2. CASE j.event # mEventId
        BY <1>5, <1>7, <2>3, <3>0, <3>5, <4>2 DEF PointersMend
      <4> QED
        BY <4>1, <4>2
    <3> QED
      BY <1>6, <3>2, <3>3, <3>4, <3>5 DEF RowComplete
  <2> QED
    BY <2>3, <2>4
<1>10. ASSUME NEW carClasses \in SUBSET Classes, setCarClasses(j, carClasses) PROVE Done
  <2>1. /\ item' = WithClasses(item, mCarClasses') /\ j.kind = "classes"
        /\ mCarClasses' = mCarClasses \cup carClasses /\ mCarClasses' \in SUBSET Classes
        /\ Outcome(carClasses, {ClassOf[RegCar[r]] : r \in Registered(j.event)}, {})
    BY <1>0, <1>10 DEF setCarClasses
  <2>2. /\ PointersMend
        /\ \A r \in Regs : item'[r].driver = item[r].driver /\ item'[r].car = item[r].car
        /\ \A r \in Regs : /\ mCars[RegCar[r]] = r /\ item[r].car = RegCar[r]
                           /\ ClassOf[RegCar[r]] \in mCarClasses'
                           => item'[r].class = ClassOf[RegCar[r]]
    BY <1>0, <2>1, ClassesMend DEF ItemsShowTheirOwn
  <2>3. ASSUME failures' = 0, NEW r \in mEventRegistrations PROVE RowComplete(r)'
    <3>0. r \in Regs /\ failures = 0
      BY <1>0, <1>1, <2>3
    <3>1. carClasses = {ClassOf[RegCar[s]] : s \in Registered(j.event)}
      BY <1>0, <2>1, <2>3, VersionTypes DEF Outcome
    <3>2. ClassOf[RegCar[r]] \in mCarClasses' \/ Coming({"classes"})'
      <4>1. CASE j.event = mEventId
        BY <1>6, <2>1, <3>1, <4>1
      <4>2. CASE j.event # mEventId
        BY <1>5, <1>7, <2>1, <3>0, <4>2
      <4> QED
        BY <4>1, <4>2
    <3>3. ASSUME Alone(r) PROVE item'[r].driver = RegDriver[r] \/ Coming({"drivers"})'
      BY <1>5, <1>7, <2>1, <2>2, <3>0, <3>3
    <3>4. ASSUME Alone(r) PROVE item'[r].car = RegCar[r] \/ Coming({"cars"})'
      BY <1>5, <1>7, <2>1, <2>2, <3>0, <3>4
    <3>5. ASSUME Alone(r)
          PROVE  item'[r].class = ClassOf[RegCar[r]] \/ Coming({"cars", "classes"})'
      <4>1. CASE j.event = mEventId
        <5>1. ClassOf[RegCar[r]] \in mCarClasses' /\ mCars[RegCar[r]] = r
          BY <1>6, <2>1, <3>1, <3>5, <4>1
        <5>2. CASE item[r].car = RegCar[r]
          BY <2>2, <3>0, <5>1, <5>2
        <5>3. CASE Coming({"cars"})
          <6>1. Coming({"cars"})'
            BY <1>5, <2>1, <5>3
          <6> QED
            BY <6>1 DEF Coming
        <5> QED
          BY <1>7, <3>0, <3>5, <5>2, <5>3
      <4>2. CASE j.event # mEventId
        BY <1>5, <1>7, <2>2, <3>0, <3>5, <4>2 DEF PointersMend
      <4> QED
        BY <4>1, <4>2
    <3> QED
      BY <1>6, <3>2, <3>3, <3>4, <3>5 DEF RowComplete
  <2> QED
    BY <2>2, <2>3
<1>11. Done
  BY <1>8, <1>9, <1>10 DEF SetRelatedResult
<1> HIDE DEF Done
<1>12. PointersMend /\ (failures' = 0 => \A r \in mEventRegistrations : RowComplete(r)')
  BY <1>11 DEF Done
<1>13. ItemsShowTheirOwn'
  BY <1>0, <1>12 DEF ItemsShowTheirOwn, PointersMend
<1> QED
  BY <1>1, <1>3, <1>4, <1>12, <1>13 DEF LoadInv

LEMMA NotificationLoad ==
  ASSUME CountInv, CountInv', LoadInv, DeliverNotification PROVE LoadInv'
<1> DEFINE n == Head(notifs)
<1>0. /\ TypeOK /\ TypeOK' /\ changes \in Nat /\ MapsLeadToRows /\ ItemsShowTheirOwn
      /\ item \in [Regs -> DataItem] /\ mCarClasses \in SUBSET Classes
      /\ mEventRegistrations \subseteq Regs /\ notifs # <<>>
      /\ UNCHANGED <<db, changes, edits, failures, jobs, selections, mEventId>>
  BY RegistrationAssumption
     DEF CountInv, TypeOK, LoadInv, DeliverNotification, clientVars
<1>1. /\ n.table = "registration" => n.id \in Regs /\ n.row \in Row
      /\ n.table = "driver" => n.id \in Drivers
      /\ n.table = "car" => n.id \in Cars
  BY <1>0, HeadType
<1>2. eventRegistrationNotification(n) \/ RelatedNotification(n)
  BY DEF DeliverNotification, RelatedNotification
<1> HIDE DEF n
<1>3. CASE eventRegistrationNotification(n)
  <2> DEFINE regs == {n.id} \cap mEventRegistrations
             rows == [r \in Regs |-> n.row]
  <2>1. /\ regs \in SUBSET Regs /\ regs \subseteq mEventRegistrations
        /\ rows \in [Regs -> Row] /\ updateRegistrations(regs, rows)
        /\ UNCHANGED mCarClasses
    BY <1>1, <1>3 DEF eventRegistrationNotification
  <2> HIDE DEF regs, rows
  <2>2. MapsLeadToRows' /\ PointersMend
    BY <1>0, <2>1, UpdateMaps
  <2>3. mEventRegistrations' = mEventRegistrations
    <3> DEFINE touched == OfThisEvent(regs)
    <3>1. touched = OfThisEvent(regs) /\ touched \subseteq mEventRegistrations
      BY <2>1 DEF OfThisEvent
    <3> HIDE DEF touched
    <3>2. mEventRegistrations' = mEventRegistrations \cup touched
      BY <1>0, <2>1, <3>1, UpdateEffect
    <3> QED
      BY <3>1, <3>2
  <2>4. Lost' \subseteq Lost /\ RowsRegistered'
    BY <1>0, <2>3 DEF Lost, Registered, Awaited, LoadInv, RowsRegistered
  <2>5. failures' = 0 /\ mEventId' # None => Cardinality(Lost') <= changes'
    BY <1>0, <2>4, LostKept
  <2> QED
    BY <1>0, <2>1, <2>2, <2>3, <2>4, <2>5, LoadKept
<1>4. CASE RelatedNotification(n)
  <2>1. UNCHANGED <<mDrivers, mCars, mCarClasses, mEventRegistrations>>
    BY <1>0, <1>4, RelatedNotificationEffect DEF n, countVars
  <2>2. PointersMend
    <3>1. CASE driverNotification(n)
      <4>1. {n.id} \in SUBSET Drivers /\ item' = WithDrivers({n.id})
        BY <1>1, <3>1 DEF driverNotification
      <4> QED
        BY <1>0, <4>1, DriversMend
    <3>2. CASE carNotification(n)
      <4>1. {n.id} \in SUBSET Cars /\ item' = WithCars({n.id})
        BY <1>1, <3>2 DEF carNotification
      <4>2. \A r \in Regs : /\ WithCars({n.id})[r].driver = item[r].driver
                            /\ WithCars({n.id})[r].class = item[r].class
        BY <1>0, <4>1, WithCarsEffect
      <4>3. \A r \in Regs : WithCars({n.id})[r].car \in {item[r].car, RegCar[r]}
        BY <1>0, <4>1, CarsMend
      <4> QED
        BY <4>1, <4>2, <4>3 DEF PointersMend
    <3>3. CASE carClassNotification(n)
      <4>1. item' = item \/ item' = WithClasses(item, mCarClasses)
        BY <3>3 DEF carClassNotification
      <4>2. CASE item' = item
        BY <4>2 DEF PointersMend
      <4>3. CASE item' = WithClasses(item, mCarClasses)
        BY <1>0, <4>3, ClassesMend DEF ItemsShowTheirOwn
      <4> QED
        BY <4>1, <4>2, <4>3
    <3> QED
      BY <1>4, <3>1, <3>2, <3>3 DEF RelatedNotification
  <2>3. MapsLeadToRows' /\ RowsRegistered'
    BY <1>0, <2>1 DEF LoadInv, MapsLeadToRows, RowsRegistered
  <2>4. Lost' \subseteq Lost
    BY <1>0, <2>1 DEF Lost, Registered, Awaited
  <2>5. failures' = 0 /\ mEventId' # None => Cardinality(Lost') <= changes'
    BY <1>0, <2>4, LostKept
  <2> QED
    BY <1>0, <2>1, <2>2, <2>3, <2>5, LoadKept
<1> QED
  BY <1>2, <1>3, <1>4

LEMMA EditLoad ==
  ASSUME CountInv, CountInv', LoadInv, NEW r \in Regs, setCheckedIn(r) \/ setRelated(r)
  PROVE  LoadInv'
<1>a. /\ UNCHANGED <<changes, jobs, mEventId, mDrivers, mCars, mCarClasses,
                     mEventRegistrations>>
      /\ r \in mEventRegistrations
  BY DEF setCheckedIn, setRelated, Edit, mapVars
<1>0. /\ TypeOK /\ TypeOK' /\ changes \in Nat /\ item \in [Regs -> DataItem]
      /\ mEventRegistrations \subseteq Regs
      /\ UNCHANGED <<changes, jobs, mEventId, mDrivers, mCars, mCarClasses,
                     mEventRegistrations>>
      /\ r \in mEventRegistrations
  BY <1>a, RegistrationAssumption DEF CountInv, TypeOK
<1>b. db' \in [Regs -> Row]
  BY <1>0 DEF TypeOK
<1>1. /\ failures \in Nat
      /\ \A s \in Regs : db[s].ver \in Nat /\ db'[s].ver \in Nat /\ item[s] \in DataItem
  BY <1>0, <1>b, VersionTypes DEF Row, Versions
<1>2. /\ \A s \in Regs : db'[s].ver = db[s].ver \/ (s = r /\ db'[s].ver = db[s].ver + 1)
      /\ PointersMend
      /\ failures' = 0 => failures = 0
  <2>1. CASE setCheckedIn(r)
    <3> DEFINE in == ~item[r].in
    <3>1. \/ /\ db' = [db EXCEPT ![r] = [ver |-> db[r].ver + 1, in |-> in]]
             /\ item' = [item EXCEPT ![r].ver = db'[r].ver, ![r].in = in]
             /\ UNCHANGED failures
          \/ /\ failures' = failures + 1
             /\ item' = [item EXCEPT ![r].in = in]
             /\ UNCHANGED db
      BY <1>0, <2>1 DEF setCheckedIn, Write, TypeOK
    <3> HIDE DEF in
    <3>2. \A s \in Regs : /\ item'[s].driver = item[s].driver /\ item'[s].car = item[s].car
                          /\ item'[s].class = item[s].class
      BY <1>0, <1>1, <3>1 DEF DataItem
    <3>3. \A s \in Regs : db'[s].ver = db[s].ver \/ (s = r /\ db'[s].ver = db[s].ver + 1)
      BY <1>0, <3>1 DEF TypeOK
    <3> QED
      BY <1>1, <3>1, <3>2, <3>3 DEF PointersMend
  <2>2. CASE setRelated(r)
    BY <2>2 DEF setRelated, PointersMend
  <2> QED
    BY <2>1, <2>2
<1>3. MapsLeadToRows'
  BY <1>0 DEF LoadInv, MapsLeadToRows
<1>4. RowsRegistered'
  BY <1>0, <1>1, <1>2 DEF LoadInv, RowsRegistered
<1>5. Lost' \subseteq Lost
  BY <1>0, <1>1, <1>2 DEF Lost, Registered, Awaited
<1>6. failures' = 0 /\ mEventId' # None => Cardinality(Lost') <= changes'
  BY <1>0, <1>2, <1>5, LostKept
<1> QED
  BY <1>0, <1>2, <1>3, <1>4, <1>6, LoadKept

LEMMA NextLoad ==
  ASSUME CountInv, CountInv', FreshInv, LoadInv, Next PROVE LoadInv'
<1>1. ASSUME NEW r \in Regs, InsertRegistration(r) \/ CheckInElsewhere(r) PROVE LoadInv'
  BY <1>1, ClientLoad DEF InsertRegistration, CheckInElsewhere
<1>2. CASE TouchRelated
  BY <1>2, ClientLoad DEF TouchRelated
<1>3. CASE ReadRegistrations
  BY <1>3, ReadLoad
<1>4. ASSUME NEW e \in Events, setEventId(e) PROVE LoadInv'
  BY <1>4, SelectLoad
<1>5. CASE DeliverResult
  <2>1. PICK j \in jobs : setEventRegistrations(j) \/ SetRelatedResult(j)
    BY <1>5 DEF DeliverResult, SetRelatedResult
  <2>2. UNCHANGED <<db, changes, edits, notifs, selections, mEventId>>
    BY <1>5 DEF DeliverResult
  <2> QED
    BY <2>1, <2>2, SetRegistrationsLoad, SetRelatedResultLoad
<1>6. CASE DeliverNotification
  BY <1>6, NotificationLoad
<1>7. ASSUME NEW r \in Regs, setCheckedIn(r) \/ setRelated(r) PROVE LoadInv'
  BY <1>7, EditLoad
<1> QED
  BY <1>1, <1>2, <1>3, <1>4, <1>5, <1>6, <1>7 DEF Next

(* What a row still lacks is asked for by a query on its way, and a        *)
(* registration without a row that no query will bring was inserted by     *)
(* another client, while nothing failed.                                   *)
THEOREM LoadInvariant == Spec => []LoadInv
<1>1. Init => LoadInv
  BY InitLoadInv
<1>2. CountInv /\ CountInv' /\ FreshInv /\ LoadInv /\ [Next]_vars => LoadInv'
  <2>1. ASSUME CountInv, CountInv', LoadInv, UNCHANGED vars PROVE LoadInv'
    <3>1. /\ PointersMend /\ MapsLeadToRows' /\ RowsRegistered' /\ Lost' \subseteq Lost
          /\ changes \in Nat
      BY <2>1, RegistrationAssumption
         DEF vars, PointersMend, LoadInv, MapsLeadToRows, RowsRegistered, Lost, Registered,
             Awaited, CountInv, TypeOK
    <3>2. failures' = 0 /\ mEventId' # None => Cardinality(Lost') <= changes'
      BY <2>1, <3>1, LostKept DEF vars, CountInv
    <3> QED
      BY <2>1, <3>1, <3>2, LoadKept DEF vars, CountInv
  <2> QED
    BY <2>1, NextLoad
<1> QED
  BY <1>1, <1>2, CountInvariant, FreshInvariant, PTL DEF Spec

(* LoadedTableComplete: with nothing on its way, a row lacks nothing, and  *)
(* no more registrations are missing than other clients made changes.      *)
THEOREM LoadedTableIsComplete == Spec => []LoadedTableComplete
<1>1. CountInv /\ LoadInv => LoadedTableComplete
  <2> SUFFICES ASSUME CountInv, LoadInv PROVE LoadedTableComplete
    OBVIOUS
  <2>1. ASSUME jobs = {}, failures = 0, mEventId # None
        PROVE  Cardinality(Registered(mEventId) \ mEventRegistrations) <= changes
    <3>1. Lost = Registered(mEventId) \ mEventRegistrations
      BY <2>1 DEF Lost, Awaited
    <3>2. Cardinality(Lost) <= changes
      BY <2>1 DEF LoadInv
    <3> QED
      BY <3>1, <3>2
  <2>2. ASSUME jobs = {}, failures = 0, NEW r \in mEventRegistrations, Alone(r)
        PROVE  /\ item[r].driver = RegDriver[r] /\ item[r].car = RegCar[r]
               /\ item[r].class = ClassOf[RegCar[r]]
    <3>1. RowComplete(r)
      BY <2>2 DEF LoadInv
    <3>2. \A kinds : ~Coming(kinds)
      BY <2>2 DEF Coming
    <3> QED
      BY <2>2, <3>1, <3>2 DEF RowComplete
  <2> QED
    BY <2>1, <2>2 DEF LoadedTableComplete, Quiet, Alone, CountInv, RowsOfEvent
<1> QED
  BY <1>1, CountInvariant, LoadInvariant, PTL
=============================================================================
