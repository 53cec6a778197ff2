-------------------------- MODULE EventImportProofs --------------------------
(***************************************************************************)
(* Theorems about EventImport: whatever is found, created, refused or lost *)
(* in the four tables, and whoever else imports, rows refer to rows, a     *)
(* registration is for a car of its driver, a duplicate is the trace of a  *)
(* race, and an import without a failed query registers everybody it can.  *)
(***************************************************************************)
EXTENDS EventImport, FiniteSetTheorems, SequenceTheorems, TLAPS

-----------------------------------------------------------------------------
(* Facts about numbers, sets and sequences.                                *)

(* What a queue holds after something is appended, or its head taken.      *)
LEMMA AppendElements ==
  ASSUME NEW S, NEW q \in Seq(S), NEW x \in S
  PROVE  ToSet(Append(q, x)) = ToSet(q) \cup {x}
<1>1. /\ DOMAIN Append(q, x) = 1..(Len(q) + 1) /\ DOMAIN q = 1..Len(q) /\ Len(q) \in Nat
      /\ \A i \in 1..Len(q) : Append(q, x)[i] = q[i]
      /\ Append(q, x)[Len(q) + 1] = x
  BY AppendProperties
<1>2. \A i \in 1..(Len(q) + 1) : i \in 1..Len(q) \/ i = Len(q) + 1
  BY <1>1
<1>3. \A i \in 1..Len(q) : i \in 1..(Len(q) + 1)
  BY <1>1
<1>4. Len(q) + 1 \in 1..(Len(q) + 1)
  BY <1>1
<1> QED
  BY <1>1, <1>2, <1>3, <1>4 DEF ToSet

-----------------------------------------------------------------------------
(* The messages.                                                           *)

IdFields ==
  {"driver_id", "car_class_id", "car_id", "event_registration_id", "organization_id", "event_id"}

LEMMA TableIds ==
  /\ \A t \in Tables : PrimaryKey[t] \in IdFields
  /\ \A t, u \in Tables : PrimaryKey[t] = PrimaryKey[u] => t = u
BY DEF Tables, PrimaryKey, IdFields

LEMMA SecondOfPair == \A a, b : <<a, b>>[2] = b
OBVIOUS

(* A file sets no field of any table that is an ID.                        *)
LEMMA EntryFields ==
  ASSUME NEW row, NEW t \in Tables
  PROVE  /\ DOMAIN Entry(row)[t] \cap IdFields = {}
         /\ t = "event_registration" => DOMAIN Entry(row)[t] = {}
<1>1. COLUMN_MAP["event_registration"] = {}
  BY DEF COLUMN_MAP
<1>2. \A m \in COLUMN_MAP[t] : m[2] \notin IdFields
  <2>1. \A m \in COLUMN_MAP["driver"] : m[2] \notin IdFields
    <3>1. \A m \in COLUMN_MAP["driver"] :
            m[2] \in {"first_name", "last_name", "scca_id", "email", "phone_number"}
      <4> SUFFICES ASSUME NEW m \in COLUMN_MAP["driver"]
                   PROVE  m[2] \in {"first_name", "last_name", "scca_id", "email", "phone_number"}
        OBVIOUS
      <4>1. \/ m = <<"First Name", "first_name">> \/ m = <<"Last Name", "last_name">>
            \/ m = <<"Member #", "scca_id">> \/ m = <<"Email #1", "email">>
            \/ m = <<"Cell", "phone_number">>
        BY DEF COLUMN_MAP
      <4> QED
        BY ONLY <4>1, SecondOfPair, ZenonT(30)
    <3> QED
      BY <3>1 DEF IdFields
  <2>2. \A m \in COLUMN_MAP["car"] : m[2] \notin IdFields
    <3>1. \A m \in COLUMN_MAP["car"] : m[2] \in {"car_number", "model", "color"}
      <4> SUFFICES ASSUME NEW m \in COLUMN_MAP["car"]
                   PROVE  m[2] \in {"car_number", "model", "color"}
        OBVIOUS
      <4>1. \/ m = <<"Number", "car_number">> \/ m = <<"Car Model", "model">>
            \/ m = <<"Car Color", "color">>
        BY DEF COLUMN_MAP
      <4> QED
        BY ONLY <4>1, SecondOfPair, Zenon
    <3> QED
      BY <3>1 DEF IdFields
  <2>3. \A m \in COLUMN_MAP["car_class"] : m[2] \notin IdFields
    <3>1. \A m \in COLUMN_MAP["car_class"] : m[2] = "name"
      BY DEF COLUMN_MAP
    <3> QED
      BY <3>1 DEF IdFields
  <2> QED
    BY <1>1, <2>1, <2>2, <2>3 DEF Tables
<1>3. DOMAIN Parsed(t, row) \subseteq {m[2] : m \in COLUMN_MAP[t]}
  BY DEF Parsed
<1>4. DOMAIN ParsedClass(row) \cap IdFields = {}
  <2>1. DOMAIN <<>> = {}
    OBVIOUS
  <2> QED
    BY <2>1 DEF ParsedClass, IdFields
<1>5. Entry(row)[t] = IF t = "car_class" THEN ParsedClass(row) ELSE Parsed(t, row)
  BY DEF Entry
<1> QED
  BY <1>1, <1>2, <1>3, <1>4, <1>5

(* The IDs that the messages have, and what else they have.                *)
IdsOf(t) ==
  CASE t = "car_class" -> {"organization_id"}
    [] t = "car" -> {"organization_id", "car_class_id", "driver_id"}
    [] t = "event_registration" -> {"event_id", "driver_id", "car_id"}
    [] OTHER -> {}

MessageOK(t, entry, event, ids, msg) ==
  /\ DOMAIN msg = DOMAIN entry[t] \cup IdsOf(t)
  /\ \A f \in DOMAIN entry[t] : msg[f] = entry[t][f]
  /\ t = "car" => msg["car_class_id"] = ids["car_class"] /\ msg["driver_id"] = ids["driver"]
  /\ t = "event_registration" =>
       msg["event_id"] = event /\ msg["driver_id"] = ids["driver"] /\ msg["car_id"] = ids["car"]

LEMMA MessageFields ==
  ASSUME NEW row, NEW event, NEW ids, NEW t \in Tables
  PROVE  MessageOK(t, Entry(row), event, ids, Message(t, Entry(row), event, ids))
<1> DEFINE msg == Message(t, Entry(row), event, ids)
           e == Entry(row)[t]
<1>1. DOMAIN e \cap IdFields = {}
  BY EntryFields
<1>2. \A f \in DOMAIN e : f \notin {"organization_id", "car_class_id", "driver_id", "event_id", "car_id"}
  BY <1>1 DEF IdFields
<1> HIDE DEF e, msg
<1>3. CASE t = "driver"
  <2>1. msg = e
    BY <1>3 DEF Message, e, msg
  <2> QED
    BY <1>3, <2>1 DEF e, msg, IdsOf, MessageOK
<1>4. CASE t = "car_class"
  <2>1. msg = Merge([organization_id |-> OrganizationOf[event]], e)
    BY <1>4 DEF Message, e, msg
  <2>2. /\ DOMAIN msg = {"organization_id"} \cup DOMAIN e
        /\ \A f \in DOMAIN e : msg[f] = e[f]
    BY <1>2, <2>1 DEF Merge
  <2> QED
    BY <1>4, <2>2 DEF e, msg, IdsOf, MessageOK
<1>5. CASE t = "car"
  <2>1. msg = Merge([organization_id |-> OrganizationOf[event],
                     car_class_id |-> ids.car_class, driver_id |-> ids.driver], e)
    BY <1>5 DEF Message, e, msg
  <2>2. /\ DOMAIN msg = {"organization_id", "car_class_id", "driver_id"} \cup DOMAIN e
        /\ \A f \in DOMAIN e : msg[f] = e[f]
        /\ msg["car_class_id"] = ids.car_class /\ msg["driver_id"] = ids.driver
    BY <1>2, <2>1 DEF Merge
  <2> QED
    BY <1>5, <2>2 DEF e, msg, IdsOf, MessageOK
<1>6. CASE t = "event_registration"
  <2>1. msg = Merge([event_id |-> event, driver_id |-> ids.driver, car_id |-> ids.car], e)
    BY <1>6 DEF Message, e, msg
  <2>2. /\ DOMAIN msg = {"event_id", "driver_id", "car_id"} \cup DOMAIN e
        /\ \A f \in DOMAIN e : msg[f] = e[f]
        /\ msg["event_id"] = event /\ msg["driver_id"] = ids.driver /\ msg["car_id"] = ids.car
    BY <1>2, <2>1 DEF Merge
  <2> QED
    BY <1>6, <2>2 DEF e, msg, IdsOf, MessageOK
<1> QED
  BY <1>3, <1>4, <1>5, <1>6 DEF Tables

(* The keys of a car and of a registration, when their IDs are not known,  *)
(* and one that finds every driver who has a name.                         *)
LEMMA KeyFields ==
  ASSUME NEW t \in Tables, NEW msg, NEW F \in Lookups(t, msg)
  PROVE  /\ F \subseteq DOMAIN msg
         /\ t = "car" /\ "car_id" \notin DOMAIN msg => {"model", "driver_id"} \subseteq F
         /\ t = "event_registration" /\ "event_registration_id" \notin DOMAIN msg =>
              F = {"event_id", "driver_id", "car_id"}
<1>1. F \in ToSet(Keys(t, msg)) /\ F \subseteq DOMAIN msg
  BY DEF Lookups
<1>2. ToSet(CarKeys(msg)) =
        {{"car_id"}, {"model", "car_class_id", "driver_id"} \cup ({"color"} \cap DOMAIN msg)}
  BY DEF CarKeys, ToSet
<1>3. ToSet(EventRegistrationKeys) = {{"event_registration_id"}, {"event_id", "driver_id", "car_id"}}
  BY DEF EventRegistrationKeys, ToSet
<1>4. /\ t = "car" => Keys(t, msg) = CarKeys(msg)
      /\ t = "event_registration" => Keys(t, msg) = EventRegistrationKeys
  BY DEF Keys
<1> QED
  BY <1>1, <1>2, <1>3, <1>4

LEMMA DriverHasKey ==
  ASSUME NEW msg, {"first_name", "last_name"} \subseteq DOMAIN msg
  PROVE  {"first_name", "last_name"} \in Lookups("driver", msg)
<1>1. {"first_name", "last_name"} \in ToSet(DriverKeys)
  BY DEF DriverKeys, ToSet
<1>2. Keys("driver", msg) = DriverKeys
  BY DEF Keys
<1> QED
  BY <1>1, <1>2 DEF Lookups

LEMMA EntryRead ==
  ASSUME NEW file \in Files, NEW n \in DOMAIN file
  PROVE  readFile[file][n] = Entry(file[n])
BY DEF readFile

(* A row that a lookup finds agrees with the message on the key, and on    *)
(* numbers exactly.                                                        *)
LEMMA FoundAgrees ==
  ASSUME NEW row, NEW msg, NEW F, wherePrototype(row, Restrict(msg, F))
  PROVE  /\ SameKey(row, msg, F)
         /\ \A f \in F \ StringFields : row[f] = msg[f]
<1>1. DOMAIN Restrict(msg, F) = F /\ \A f \in F : Restrict(msg, F)[f] = msg[f]
  BY DEF Restrict
<1>2. \A f \in F : f \in DOMAIN row /\ Like(f, row[f], msg[f])
  BY <1>1 DEF wherePrototype
<1>3. \A f \in F \ StringFields : row[f] = msg[f]
  BY <1>2 DEF Like
<1> QED
  BY <1>2, <1>3 DEF SameKey

(* Two rows with the same key, by a text that finds itself.                *)
Twin(row, msg, F) ==
  /\ SameKey(row, msg, F)
  /\ \A f \in F : Misread(f, msg[f]) => row[f] # msg[f]

(* A lookup that can be executed and finds nothing has seen no twin.       *)
LEMMA NotFoundNoTwin ==
  ASSUME NEW row, NEW msg, NEW F, ~ wherePrototype(row, Restrict(msg, F)),
         WellFormed(Restrict(msg, F))
  PROVE  ~ Twin(row, msg, F)
<1> SUFFICES ASSUME Twin(row, msg, F) PROVE FALSE
  OBVIOUS
<1>1. DOMAIN Restrict(msg, F) = F /\ \A f \in F : Restrict(msg, F)[f] = msg[f]
  BY DEF Restrict
<1>2. PICK f \in F : ~ (f \in DOMAIN row /\ Like(f, row[f], msg[f]))
  BY <1>1 DEF wherePrototype
<1>3. f \in DOMAIN row /\ (row[f] = msg[f] \/ Like(f, row[f], msg[f]))
  BY DEF Twin, SameKey
<1>4. row[f] = msg[f] /\ ~ Like(f, msg[f], msg[f])
  BY <1>2, <1>3
<1>5. f \in StringFields /\ msg[f] \in DOMAIN Likes /\ msg[f] \notin Likes[msg[f]]
  BY <1>4 DEF Like
<1>6. Likes[msg[f]] # {}
  BY <1>1, <1>5 DEF WellFormed
<1> QED
  BY <1>4, <1>5, <1>6 DEF Twin, Misread

-----------------------------------------------------------------------------
(* The invariant, of tables d with the history s.                          *)

RowOK(d, t, row) ==
  /\ NotNull[t] \subseteq DOMAIN row
  /\ \A u \in Tables \ {t} : PrimaryKey[u] \in DOMAIN row => row[PrimaryKey[u]] \in DOMAIN d[u]

TablesOK(d, s) ==
  /\ DOMAIN d = Tables /\ DOMAIN s = Tables
  /\ \A t \in Tables :
       /\ d[t] \in Seq(ToSet(d[t])) /\ s[t] \in Seq(ToSet(s[t])) /\ Len(s[t]) = Len(d[t])
       /\ \A i \in DOMAIN d[t] : /\ RowOK(d, t, d[t][i])
                                 /\ \A F \in DOMAIN s[t][i] : s[t][i][F] \in Nat

(* The cars of the registrations are their drivers'.                       *)
CarsOwned(d) ==
  \A i \in DOMAIN d["event_registration"] :
    d["car"][d["event_registration"][i].car_id].driver_id = d["event_registration"][i].driver_id

(* Each row with a twin before it was created by one who had not seen it.  *)
TwinsUnseen(d, s) ==
  \A t \in Tables : \A j \in DOMAIN d[t] : \A i \in 1..(j - 1) : \A F \in Lookups(t, d[t][j]) :
    Twin(d[t][i], d[t][j], F) => F \in DOMAIN s[t][j] /\ s[t][j][F] < i

RegisteredIn(d, entry, event) ==
  \E i \in DOMAIN d["event_registration"] :
    /\ d["event_registration"][i].event_id = event
    /\ \E F \in Lookups("driver", entry["driver"]) :
         SameKey(d["driver"][d["event_registration"][i].driver_id], entry["driver"], F)
    /\ "model" \in DOMAIN entry["car"] =>
         SameKey(d["car"][d["event_registration"][i].car_id], entry["car"], {"model"})

FinishedOK(d, done) ==
  /\ done \subseteq Files \X Events \X BOOLEAN
  /\ \A file \in Files, event \in Events \ {EventOfNoRow} :
       <<file, event, TRUE>> \in done =>
         \A n \in DOMAIN file :
           Complete(readFile[file][n]) => RegisteredIn(d, readFile[file][n], event)

(* An import: what it is at, and what it has.                              *)
JobTyped(d, j) ==
  /\ DOMAIN j = {"file", "event", "n", "table", "ids", "msg", "lookups", "seen", "failed", "again"}
  /\ j.file \in Files /\ j.event \in Events /\ j.n \in DOMAIN j.file /\ j.table \in Tables
  /\ j.ids \in [Tables -> Int] /\ j.failed \in BOOLEAN
  /\ \A t \in Tables : j.ids[t] \in {NoId} \cup DOMAIN d[t]
  /\ j.msg = Message(j.table, readFile[j.file][j.n], j.event, j.ids)
  /\ j.lookups \subseteq Lookups(j.table, j.msg)

(* The lookups done saw no twin in the rows they read.                     *)
LookedUp(d, j) ==
  /\ \A F \in DOMAIN j.seen : j.seen[F] \in 0..Len(d[j.table])
  /\ \A F \in Lookups(j.table, j.msg) \ j.lookups :
       /\ F \in DOMAIN j.seen
       /\ \A i \in DOMAIN d[j.table] : i <= j.seen[F] => ~ Twin(d[j.table][i], j.msg, F)

OwnCar(d, ids) == ids["car"] \in DOMAIN d["car"] => d["car"][ids["car"]].driver_id = ids["driver"]

DriverOf(d, entry, id) ==
  /\ id \in DOMAIN d["driver"]
  /\ \E F \in Lookups("driver", entry["driver"]) : SameKey(d["driver"][id], entry["driver"], F)

CarOf(d, entry, id) ==
  /\ id \in DOMAIN d["car"]
  /\ "model" \in DOMAIN entry["car"] => SameKey(d["car"][id], entry["car"], {"model"})

(* What an import knows of an entry that is complete when it looks in t,   *)
(* and no query has failed.                                                *)
Obtained(d, entry, ids, t) ==
  /\ t # "driver" => DriverOf(d, entry, ids["driver"])
  /\ t \in {"car", "event_registration"} => ids["car_class"] \in DOMAIN d["car_class"]
  /\ t = "event_registration" => CarOf(d, entry, ids["car"])

(* The entries before entry n of the file are registered.                  *)
DoneBefore(d, file, event, n) ==
  event # EventOfNoRow =>
    \A m \in DOMAIN file :
      m < n /\ Complete(readFile[file][m]) => RegisteredIn(d, readFile[file][m], event)

JobOK(d, j) ==
  /\ JobTyped(d, j) /\ LookedUp(d, j)
  /\ j.table = "event_registration" => OwnCar(d, j.ids)
  /\ ~ j.failed =>
       /\ Complete(readFile[j.file][j.n]) => Obtained(d, readFile[j.file][j.n], j.ids, j.table)
       /\ DoneBefore(d, j.file, j.event, j.n)

ImportInv ==
  /\ TablesOK(db, seen) /\ CarsOwned(db) /\ TwinsUnseen(db, seen)
  /\ FinishedOK(db, finished)
  /\ DOMAIN job = Clients
  /\ \A c \in Clients : job[c] # None => JobOK(db, job[c])
  /\ imports \in 0..MaxImports /\ failures \in 0..MaxFailures

-----------------------------------------------------------------------------
(* Rows are only added, so nothing known of an import is lost.             *)

Grows(d, e) ==
  \A t \in Tables : /\ Len(d[t]) \in Nat /\ Len(e[t]) \in Nat /\ Len(d[t]) <= Len(e[t])
                    /\ DOMAIN d[t] = 1..Len(d[t]) /\ DOMAIN e[t] = 1..Len(e[t])
                    /\ \A i \in DOMAIN d[t] : i \in DOMAIN e[t] /\ e[t][i] = d[t][i]

LEMMA RegisteredGrows ==
  ASSUME NEW d, NEW e, Grows(d, e), NEW s, TablesOK(d, s),
         NEW entry, NEW event, RegisteredIn(d, entry, event)
  PROVE  RegisteredIn(e, entry, event)
<1>1. PICK i \in DOMAIN d["event_registration"] :
        /\ d["event_registration"][i].event_id = event
        /\ \E F \in Lookups("driver", entry["driver"]) :
             SameKey(d["driver"][d["event_registration"][i].driver_id], entry["driver"], F)
        /\ "model" \in DOMAIN entry["car"] =>
             SameKey(d["car"][d["event_registration"][i].car_id], entry["car"], {"model"})
  BY DEF RegisteredIn
<1> DEFINE r == d["event_registration"][i]
<1>2. RowOK(d, "event_registration", r)
  BY DEF TablesOK, Tables
<1>3. r.driver_id \in DOMAIN d["driver"] /\ r.car_id \in DOMAIN d["car"]
  BY <1>2 DEF RowOK, NotNull, PrimaryKey, Tables
<1>4. /\ i \in DOMAIN e["event_registration"] /\ e["event_registration"][i] = r
      /\ e["driver"][r.driver_id] = d["driver"][r.driver_id]
      /\ e["car"][r.car_id] = d["car"][r.car_id]
  BY <1>3 DEF Grows, Tables
<1> QED
  BY <1>1, <1>4 DEF RegisteredIn

LEMMA FinishedGrows ==
  ASSUME NEW d, NEW e, Grows(d, e), NEW s, TablesOK(d, s), NEW done, FinishedOK(d, done)
  PROVE  FinishedOK(e, done)
BY RegisteredGrows DEF FinishedOK

LEMMA JobGrows ==
  ASSUME NEW d, NEW e, Grows(d, e), NEW s, TablesOK(d, s), NEW j, JobOK(d, j)
  PROVE  JobOK(e, j)
<1>1. JobTyped(d, j) /\ JobTyped(e, j)
  BY DEF JobOK, JobTyped, Grows
<1>2. j.table \in Tables
  BY <1>1 DEF JobTyped
<1>3. LookedUp(e, j)
  <2> DEFINE n == Len(d[j.table])  m == Len(e[j.table])
  <2>1. /\ n \in Nat /\ m \in Nat /\ n <= m
        /\ DOMAIN d[j.table] = 1..n /\ DOMAIN e[j.table] = 1..m
        /\ \A i \in 1..n : e[j.table][i] = d[j.table][i]
    BY <1>2 DEF Grows
  <2>2. \A F \in DOMAIN j.seen : j.seen[F] \in 0..n
    BY DEF JobOK, LookedUp
  <2>3. \A F \in Lookups(j.table, j.msg) \ j.lookups :
          /\ F \in DOMAIN j.seen
          /\ \A i \in 1..n : i <= j.seen[F] => ~ Twin(d[j.table][i], j.msg, F)
    BY <2>1 DEF JobOK, LookedUp
  <2> HIDE DEF n, m
  <2>4. \A F \in DOMAIN j.seen : j.seen[F] \in 0..m
    BY <2>1, <2>2
  <2>5. ASSUME NEW F \in Lookups(j.table, j.msg) \ j.lookups, NEW i \in 1..m, i <= j.seen[F]
        PROVE  ~ Twin(e[j.table][i], j.msg, F)
    <3>1. F \in DOMAIN j.seen
      BY <2>3, <2>5
    <3>2. j.seen[F] \in 0..n
      BY <2>2, <3>1
    <3>3. i \in 1..n
      BY <2>1, <2>5, <3>2
    <3> QED
      BY <2>1, <2>3, <2>5, <3>3
  <2> QED
    BY <2>1, <2>3, <2>4, <2>5 DEF LookedUp, m
<1>4. j.table = "event_registration" => OwnCar(e, j.ids)
  <2>1. j.ids["car"] = NoId \/ j.ids["car"] \in DOMAIN d["car"]
    BY <1>1 DEF JobTyped, Tables
  <2>2. NoId \notin DOMAIN e["car"]
    BY DEF Grows, Tables, NoId
  <2> QED
    BY <2>1, <2>2 DEF JobOK, OwnCar, Grows, Tables
<1>5. ASSUME NEW entry, NEW ids, NEW t, Obtained(d, entry, ids, t) PROVE Obtained(e, entry, ids, t)
  <2>1. ASSUME NEW id, DriverOf(d, entry, id) PROVE DriverOf(e, entry, id)
    BY <2>1 DEF DriverOf, Grows, Tables
  <2>2. ASSUME NEW id, CarOf(d, entry, id) PROVE CarOf(e, entry, id)
    BY <2>2 DEF CarOf, Grows, Tables
  <2> QED
    BY <1>5, <2>1, <2>2 DEF Obtained, Grows, Tables
<1>6. ASSUME NEW file, NEW event, NEW n, DoneBefore(d, file, event, n)
      PROVE  DoneBefore(e, file, event, n)
  BY <1>6, RegisteredGrows DEF DoneBefore
<1> QED
  BY <1>1, <1>3, <1>4, <1>5, <1>6 DEF JobOK

-----------------------------------------------------------------------------
(* A row is inserted.                                                      *)

Longer(q, x, p) ==
  /\ Len(q) \in Nat /\ DOMAIN q = 1..Len(q)
  /\ p \in Seq(ToSet(p)) /\ Len(p) = Len(q) + 1 /\ DOMAIN p = 1..(Len(q) + 1)
  /\ \A i \in DOMAIN q : p[i] = q[i]
  /\ p[Len(q) + 1] = x

LEMMA OneMore ==
  ASSUME NEW q, q \in Seq(ToSet(q)), NEW x
  PROVE  Longer(q, x, Append(q, x))
<1> DEFINE S == ToSet(q) \cup {x}
<1>1. q \in Seq(S) /\ x \in S
  BY SeqMonotonic
<1> HIDE DEF S
<1>2. ToSet(Append(q, x)) = S
  BY <1>1, AppendElements DEF S
<1> QED
  BY <1>1, <1>2, AppendProperties DEF Longer

(* The message of an import is one of these.                               *)
LEMMA JobMessage ==
  ASSUME NEW d, NEW j, JobTyped(d, j)
  PROVE  /\ MessageOK(j.table, Entry(j.file[j.n]), j.event, j.ids, j.msg)
         /\ readFile[j.file][j.n] = Entry(j.file[j.n])
         /\ DOMAIN Entry(j.file[j.n])[j.table] \cap IdFields = {}
<1>1. j.table \in Tables /\ readFile[j.file][j.n] = Entry(j.file[j.n])
      /\ j.msg = Message(j.table, readFile[j.file][j.n], j.event, j.ids)
  BY EntryRead DEF JobTyped
<1> QED
  BY <1>1, MessageFields, EntryFields

(* All IDs of a message that name rows of another table are references.    *)
LEMMA MessageReferences ==
  ASSUME NEW d, NEW j, JobTyped(d, j), NEW u \in Tables \ {j.table}, PrimaryKey[u] \in DOMAIN j.msg
  PROVE  u \in References(j.table)
<1>1. PrimaryKey[u] \in IdFields
  BY TableIds
<1>2. PrimaryKey[u] \in IdsOf(j.table)
  BY <1>1, JobMessage DEF MessageOK
<1>3. j.table \in Tables
  BY DEF JobTyped
<1> QED
  BY <1>2, <1>3 DEF Tables, PrimaryKey, References, IdsOf

(* The message of j can become a row, and makes e and z of d and s.        *)
Inserts(j, d, s, e, z) ==
  /\ j.lookups = {}
  /\ NotNull[j.table] \subseteq DOMAIN j.msg
  /\ \A u \in References(j.table) : j.msg[PrimaryKey[u]] \in DOMAIN d[u]
  /\ e = [d EXCEPT ![j.table] = Append(@, j.msg)]
  /\ z = [s EXCEPT ![j.table] = Append(@, j.seen)]

LEMMA RowInserted ==
  ASSUME NEW d, NEW s, TablesOK(d, s), CarsOwned(d), TwinsUnseen(d, s),
         NEW j, JobOK(d, j), NEW e, NEW z, Inserts(j, d, s, e, z)
  PROVE  /\ TablesOK(e, z) /\ CarsOwned(e) /\ TwinsUnseen(e, z) /\ Grows(d, e)
         /\ Len(e[j.table]) \in DOMAIN e[j.table] /\ e[j.table][Len(e[j.table])] = j.msg
<1> USE DEF Inserts
<1> DEFINE t == j.table  n == Len(d[j.table])
<1>1. t \in Tables /\ JobTyped(d, j) /\ LookedUp(d, j)
  BY DEF JobOK, JobTyped
<1>2. DOMAIN e = Tables /\ DOMAIN z = Tables
  BY DEF TablesOK
<1>3. /\ e[t] = Append(d[t], j.msg) /\ z[t] = Append(s[t], j.seen)
      /\ \A u \in Tables \ {t} : e[u] = d[u] /\ z[u] = s[u]
  BY <1>1 DEF TablesOK
<1>4. /\ \A u \in Tables : d[u] \in Seq(ToSet(d[u])) /\ s[u] \in Seq(ToSet(s[u])) /\ Len(s[u]) = Len(d[u])
      /\ \A u \in Tables : /\ Len(d[u]) \in Nat /\ DOMAIN d[u] = 1..Len(d[u])
                           /\ DOMAIN s[u] = 1..Len(d[u])
  BY DEF TablesOK
<1>5. /\ n \in Nat /\ DOMAIN d[t] = 1..n /\ DOMAIN s[t] = 1..n
      /\ e[t] \in Seq(ToSet(e[t])) /\ Len(e[t]) = n + 1 /\ DOMAIN e[t] = 1..(n + 1)
      /\ z[t] \in Seq(ToSet(z[t])) /\ Len(z[t]) = n + 1 /\ DOMAIN z[t] = 1..(n + 1)
      /\ \A i \in 1..n : e[t][i] = d[t][i] /\ z[t][i] = s[t][i]
      /\ e[t][n + 1] = j.msg /\ z[t][n + 1] = j.seen
  <2>1. /\ n \in Nat /\ DOMAIN d[t] = 1..n /\ DOMAIN s[t] = 1..n /\ Len(s[t]) = n
        /\ d[t] \in Seq(ToSet(d[t])) /\ s[t] \in Seq(ToSet(s[t]))
    BY <1>1, <1>4
  <2> HIDE DEF n, t
  <2>2. /\ e[t] \in Seq(ToSet(e[t])) /\ Len(e[t]) = n + 1 /\ DOMAIN e[t] = 1..(n + 1)
        /\ \A i \in 1..n : e[t][i] = d[t][i]
        /\ e[t][n + 1] = j.msg
    <3>1. Longer(d[t], j.msg, e[t])
      BY <1>3, <2>1, OneMore
    <3> QED
      BY <2>1, <3>1 DEF Longer, n
  <2>3. /\ z[t] \in Seq(ToSet(z[t])) /\ Len(z[t]) = n + 1 /\ DOMAIN z[t] = 1..(n + 1)
        /\ \A i \in 1..n : z[t][i] = s[t][i]
        /\ z[t][n + 1] = j.seen
    <3>1. Longer(s[t], j.seen, z[t])
      BY <1>3, <2>1, OneMore
    <3> QED
      BY <2>1, <3>1 DEF Longer
  <2> QED
    BY <2>1, <2>2, <2>3
<1> HIDE DEF t, n
<1>6. Grows(d, e)
  <2>1. ASSUME NEW u \in Tables
        PROVE  /\ Len(d[u]) \in Nat /\ Len(e[u]) \in Nat /\ Len(d[u]) <= Len(e[u])
               /\ DOMAIN d[u] = 1..Len(d[u]) /\ DOMAIN e[u] = 1..Len(e[u])
               /\ \A i \in DOMAIN d[u] : i \in DOMAIN e[u] /\ e[u][i] = d[u][i]
    <3>1. CASE u = t
      BY <1>5, <3>1 DEF n, t
    <3>2. CASE u # t
      BY <1>3, <1>4, <3>2
    <3> QED
      BY <3>1, <3>2
  <2> QED
    BY <2>1 DEF Grows
<1>7. \A u \in Tables : \A i \in DOMAIN d[u] : RowOK(e, u, d[u][i])
  BY <1>6 DEF TablesOK, RowOK, Grows
<1>8. RowOK(e, t, j.msg)
  <2>1. ASSUME NEW u \in Tables \ {t}, PrimaryKey[u] \in DOMAIN j.msg
        PROVE  j.msg[PrimaryKey[u]] \in DOMAIN e[u]
    <3>1. u \in References(j.table)
      BY <1>1, <2>1, MessageReferences DEF t
    <3> QED
      BY <1>3, <3>1
  <2> QED
    BY <2>1 DEF RowOK, t
<1>9. TablesOK(e, z)
  <2>1. ASSUME NEW u \in Tables
        PROVE  /\ e[u] \in Seq(ToSet(e[u])) /\ z[u] \in Seq(ToSet(z[u])) /\ Len(z[u]) = Len(e[u])
               /\ \A i \in DOMAIN e[u] : /\ RowOK(e, u, e[u][i])
                                         /\ \A F \in DOMAIN z[u][i] : z[u][i][F] \in Nat
    <3>1. CASE u # t
      BY <1>3, <1>4, <1>7, <3>1 DEF TablesOK
    <3>2. CASE u = t
      <4>1. ASSUME NEW i \in 1..(n + 1)
            PROVE  /\ RowOK(e, t, e[t][i])
                   /\ \A F \in DOMAIN z[t][i] : z[t][i][F] \in Nat
        <5>1. CASE i = n + 1
          <6>1. \A F \in DOMAIN j.seen : j.seen[F] \in 0..n
            BY <1>1 DEF LookedUp, n
          <6> QED
            BY <1>5, <1>8, <5>1, <6>1
        <5>2. CASE i # n + 1
          <6>1. i \in 1..n /\ i \in DOMAIN d[t]
            BY <1>5, <5>2
          <6>2. RowOK(e, t, d[t][i])
            BY <1>1, <1>7, <6>1
          <6>3. \A F \in DOMAIN s[t][i] : s[t][i][F] \in Nat
            BY <1>1, <6>1 DEF TablesOK
          <6> QED
            BY <1>5, <6>1, <6>2, <6>3
        <5> QED
          BY <5>1, <5>2
      <4> QED
        BY <1>5, <3>2, <4>1
    <3> QED
      BY <3>1, <3>2
  <2> QED
    BY <1>2, <2>1 DEF TablesOK
<1>10. CarsOwned(e)
  <2>1. ASSUME NEW i \in DOMAIN d["event_registration"]
        PROVE  /\ e["event_registration"][i] = d["event_registration"][i]
               /\ e["car"][d["event_registration"][i].car_id].driver_id =
                    d["event_registration"][i].driver_id
    <3>1. RowOK(d, "event_registration", d["event_registration"][i])
      BY DEF TablesOK, Tables
    <3>2. d["event_registration"][i].car_id \in DOMAIN d["car"]
      BY <3>1 DEF RowOK, NotNull, PrimaryKey, Tables
    <3> QED
      BY <1>6, <3>2 DEF CarsOwned, Grows, Tables
  <2>2. CASE t # "event_registration"
    BY <1>3, <2>1, <2>2 DEF CarsOwned, Tables
  <2>3. CASE t = "event_registration"
    <3>1. j.msg["car_id"] = j.ids["car"] /\ j.msg["driver_id"] = j.ids["driver"]
      <4>1. MessageOK(t, Entry(j.file[j.n]), j.event, j.ids, j.msg)
        BY <1>1, JobMessage DEF t
      <4> QED
        BY <2>3, <4>1 DEF MessageOK
    <3>2. j.msg["car_id"] \in DOMAIN d["car"]
      BY <2>3 DEF References, PrimaryKey, t
    <3>3. d["car"][j.ids["car"]].driver_id = j.ids["driver"]
      BY <2>3, <3>1, <3>2 DEF JobOK, OwnCar, t
    <3>4. e["car"] = d["car"]
      BY <1>3, <2>3 DEF Tables
    <3>5. e["car"][e[t][n + 1].car_id].driver_id = e[t][n + 1].driver_id
      BY <1>5, <3>1, <3>3, <3>4
    <3>6. \A i \in DOMAIN e[t] : i \in DOMAIN d[t] \/ i = n + 1
      BY <1>5
    <3> QED
      BY <2>1, <2>3, <3>5, <3>6 DEF CarsOwned
  <2> QED
    BY <2>2, <2>3
<1>11. TwinsUnseen(e, z)
  <2> SUFFICES ASSUME NEW u \in Tables, NEW k \in DOMAIN e[u], NEW i \in 1..(k - 1),
                      NEW F \in Lookups(u, e[u][k]), Twin(e[u][i], e[u][k], F)
               PROVE  F \in DOMAIN z[u][k] /\ z[u][k][F] < i
    BY DEF TwinsUnseen
  <2>1. CASE u # t
    BY <1>3, <2>1 DEF TwinsUnseen
  <2>2. CASE u = t /\ k \in 1..n
    <3>1. i \in 1..n /\ k \in DOMAIN d[t]
      BY <1>5, <2>2
    <3>2. e[t][i] = d[t][i] /\ e[t][k] = d[t][k] /\ z[t][k] = s[t][k]
      BY <1>5, <2>2, <3>1
    <3> QED
      BY <1>1, <2>2, <3>1, <3>2 DEF TwinsUnseen
  <2>3. CASE u = t /\ k = n + 1
    <3>1. i \in 1..n
      BY <1>5, <2>3
    <3>2. e[u][i] = d[t][i] /\ e[u][k] = j.msg /\ z[u][k] = j.seen
      BY <1>5, <2>3, <3>1
    <3>3. F \in DOMAIN j.seen /\ ~ (i <= j.seen[F])
      BY <1>1, <1>5, <2>3, <3>1, <3>2 DEF LookedUp, t
    <3>4. j.seen[F] \in 0..n
      BY <1>1, <3>3 DEF LookedUp, n
    <3>5. j.seen[F] < i
      BY <1>5, <3>1, <3>3, <3>4
    <3> QED
      BY <3>2, <3>3, <3>5
  <2>4. k \in 1..n \/ k = n + 1 \/ u # t
    BY <1>5
  <2> QED
    BY <2>1, <2>2, <2>3, <2>4
<1>12. Len(e[t]) \in DOMAIN e[t] /\ e[t][Len(e[t])] = j.msg
  BY <1>5
<1> QED
  BY <1>6, <1>9, <1>10, <1>11, <1>12 DEF t

-----------------------------------------------------------------------------
(* What createIfNotExists returns for the import j, failed or not.         *)

Got(d, j, id, failed) ==
  LET entry == readFile[j.file][j.n]
  IN  /\ id \in {NoId} \cup DOMAIN d[j.table] /\ failed \in BOOLEAN /\ (j.failed => failed)
      /\ j.table = "car" /\ id \in DOMAIN d["car"] => d["car"][id].driver_id = j.ids["driver"]
      /\ ~ failed /\ Complete(entry) =>
           /\ j.table = "driver" => DriverOf(d, entry, id)
           /\ j.table = "car_class" => id \in DOMAIN d["car_class"]
           /\ j.table = "car" => CarOf(d, entry, id)
           /\ j.table = "event_registration" /\ j.event # EventOfNoRow =>
                RegisteredIn(d, entry, j.event)

(* A row that agrees with the message on its IDs, and on a key by which    *)
(* its entry is known, is as good as any.                                  *)
LEMMA RowGot ==
  ASSUME NEW d, NEW j, JobOK(d, j), NEW i \in DOMAIN d[j.table],
         NEW row, row = d[j.table][i],
         j.table = "driver" /\ Complete(readFile[j.file][j.n]) =>
           \E F \in Lookups("driver", j.msg) : SameKey(row, j.msg, F),
         j.table = "car" => /\ row["driver_id"] = j.msg["driver_id"]
                            /\ "model" \in DOMAIN j.msg => SameKey(row, j.msg, {"model"}),
         j.table = "event_registration" =>
           \A f \in {"event_id", "driver_id", "car_id"} : row[f] = j.msg[f],
         NEW failed \in BOOLEAN, j.failed => failed
  PROVE  Got(d, j, i, failed)
<1> DEFINE entry == readFile[j.file][j.n]
<1>1. JobTyped(d, j)
  BY DEF JobOK
<1>2. MessageOK(j.table, entry, j.event, j.ids, j.msg)
  BY <1>1, JobMessage
<1> HIDE DEF entry
<1>3. CASE j.table = "driver"
  <2>1. j.msg = entry["driver"]
    BY <1>1, <1>3 DEF JobTyped, Message, entry
  <2> QED
    BY <1>3, <2>1 DEF Got, DriverOf, entry
<1>4. CASE j.table = "car_class"
  BY <1>4 DEF Got
<1>5. CASE j.table = "car"
  <2>1. j.msg["driver_id"] = j.ids["driver"]
    BY <1>2, <1>5 DEF MessageOK
  <2>2. "model" \in DOMAIN entry["car"] =>
          "model" \in DOMAIN j.msg /\ j.msg["model"] = entry["car"]["model"]
    BY <1>2, <1>5 DEF MessageOK
  <2>3. "model" \in DOMAIN entry["car"] => SameKey(row, entry["car"], {"model"})
    BY <1>5, <2>2 DEF SameKey
  <2> QED
    BY <1>5, <2>1, <2>3 DEF Got, CarOf, entry
<1>6. CASE j.table = "event_registration"
  <2>1. row["event_id"] = j.event /\ row["driver_id"] = j.ids["driver"] /\ row["car_id"] = j.ids["car"]
    BY <1>2, <1>6 DEF MessageOK
  <2>2. ASSUME ~ failed, Complete(entry) PROVE RegisteredIn(d, entry, j.event)
    <3>1. Obtained(d, entry, j.ids, j.table)
      BY <2>2 DEF JobOK, entry
    <3>2. DriverOf(d, entry, j.ids["driver"]) /\ CarOf(d, entry, j.ids["car"])
      BY <1>6, <3>1 DEF Obtained
    <3> QED
      BY <1>6, <2>1, <3>2 DEF RegisteredIn, DriverOf, CarOf
  <2> QED
    BY <1>6, <2>2 DEF Got, entry
<1> QED
  BY <1>1, <1>3, <1>4, <1>5, <1>6 DEF JobTyped, Tables

(* A lookup finds a row.                                                   *)
LEMMA FoundGot ==
  ASSUME NEW d, NEW j, JobOK(d, j), NEW F \in j.lookups, NEW i \in DOMAIN d[j.table],
         wherePrototype(d[j.table][i], Restrict(j.msg, F))
  PROVE  Got(d, j, i, j.failed)
<1> DEFINE row == d[j.table][i]
<1>1. JobTyped(d, j)
  BY DEF JobOK
<1>2. F \in Lookups(j.table, j.msg) /\ j.table \in Tables /\ j.failed \in BOOLEAN
  BY <1>1 DEF JobTyped
<1>3. SameKey(row, j.msg, F) /\ \A f \in F \ StringFields : row[f] = j.msg[f]
  BY FoundAgrees
<1>4. /\ MessageOK(j.table, Entry(j.file[j.n]), j.event, j.ids, j.msg)
      /\ DOMAIN Entry(j.file[j.n])[j.table] \cap IdFields = {}
  BY <1>1, JobMessage
<1>5. {"driver_id", "car_id", "event_id"} \cap StringFields = {}
  BY DEF StringFields
<1>6. j.table = "car" => /\ row["driver_id"] = j.msg["driver_id"]
                         /\ "model" \in DOMAIN j.msg => SameKey(row, j.msg, {"model"})
  <2> SUFFICES ASSUME j.table = "car"
               PROVE  row["driver_id"] = j.msg["driver_id"] /\ SameKey(row, j.msg, {"model"})
    OBVIOUS
  <2>1. "car_id" \notin DOMAIN j.msg
    BY <1>4 DEF MessageOK, IdsOf, IdFields
  <2>2. {"model", "driver_id"} \subseteq F
    BY <1>2, <2>1, KeyFields
  <2> QED
    BY <1>3, <1>5, <2>2 DEF SameKey
<1>7. j.table = "event_registration" =>
        \A f \in {"event_id", "driver_id", "car_id"} : row[f] = j.msg[f]
  <2> SUFFICES ASSUME j.table = "event_registration"
               PROVE  \A f \in {"event_id", "driver_id", "car_id"} : row[f] = j.msg[f]
    OBVIOUS
  <2>1. "event_registration_id" \notin DOMAIN j.msg
    BY <1>4 DEF MessageOK, IdsOf, IdFields
  <2>2. F = {"event_id", "driver_id", "car_id"}
    BY <1>2, <2>1, KeyFields
  <2> QED
    BY <1>3, <1>5, <2>2
<1> HIDE DEF row
<1>8. row = d[j.table][i]
  BY DEF row
<1> QED
  BY <1>2, <1>3, <1>6, <1>7, <1>8, RowGot

(* The message itself has become a row.                                    *)
LEMMA CreatedGot ==
  ASSUME NEW d, NEW j, JobOK(d, j), NEW i \in DOMAIN d[j.table], d[j.table][i] = j.msg,
         NEW failed \in BOOLEAN, j.failed => failed
  PROVE  Got(d, j, i, failed)
<1> DEFINE row == d[j.table][i]
<1>1. \A F \in SUBSET DOMAIN row : SameKey(row, j.msg, F)
  BY DEF SameKey
<1>2. j.table = "driver" /\ Complete(readFile[j.file][j.n]) =>
        \E F \in Lookups("driver", j.msg) : SameKey(row, j.msg, F)
  <2> SUFFICES ASSUME j.table = "driver", Complete(readFile[j.file][j.n])
               PROVE  \E F \in Lookups("driver", j.msg) : SameKey(row, j.msg, F)
    OBVIOUS
  <2>1. j.msg = readFile[j.file][j.n]["driver"]
    BY DEF JobOK, JobTyped, Message
  <2>2. {"first_name", "last_name"} \subseteq DOMAIN j.msg
    BY <2>1 DEF Complete, NotNull
  <2> QED
    BY <1>1, <2>2, DriverHasKey
<1>3. "model" \in DOMAIN j.msg => SameKey(row, j.msg, {"model"})
  BY <1>1
<1>4. row = j.msg
  OBVIOUS
<1>5. row = d[j.table][i]
  OBVIOUS
<1> HIDE DEF row
<1> QED
  BY <1>2, <1>3, <1>4, <1>5, RowGot

(* Of what is complete, the constraints refuse nothing but a registration  *)
(* for an event that is not stored.                                        *)
Refused(d, j) ==
  ~ /\ NotNull[j.table] \subseteq DOMAIN j.msg
    /\ \A u \in References(j.table) : j.msg[PrimaryKey[u]] \in DOMAIN d[u]
    /\ j.table = "event_registration" => j.msg["event_id"] \in Events \ {EventOfNoRow}

LEMMA CompleteRefused ==
  ASSUME NEW d, NEW j, JobOK(d, j), Refused(d, j),
         ~ j.failed, Complete(readFile[j.file][j.n])
  PROVE  j.table = "event_registration" /\ j.event = EventOfNoRow
<1> USE DEF Refused
<1> DEFINE entry == readFile[j.file][j.n]
<1>1. JobTyped(d, j) /\ j.table \in Tables /\ j.failed \in BOOLEAN /\ j.event \in Events
  BY DEF JobOK, JobTyped
<1>2. MessageOK(j.table, entry, j.event, j.ids, j.msg) /\ Complete(entry)
  BY <1>1, JobMessage
<1> HIDE DEF entry
<1>3. Obtained(d, entry, j.ids, j.table)
  BY DEF JobOK, entry
<1>4. CASE j.table = "driver"
  BY <1>2, <1>4 DEF MessageOK, Complete, NotNull, References
<1>5. CASE j.table = "car_class"
  BY <1>2, <1>5 DEF MessageOK, Complete, NotNull, References, IdsOf
<1>6. CASE j.table = "car"
  <2>1. j.ids["driver"] \in DOMAIN d["driver"] /\ j.ids["car_class"] \in DOMAIN d["car_class"]
    BY <1>3, <1>6 DEF Obtained, DriverOf
  <2>2. NotNull[j.table] \subseteq DOMAIN j.msg
    BY <1>2, <1>6 DEF MessageOK, Complete, NotNull, IdsOf
  <2>3. \A u \in References(j.table) : j.msg[PrimaryKey[u]] \in DOMAIN d[u]
    BY <1>2, <1>6, <2>1 DEF MessageOK, References, PrimaryKey
  <2> QED
    BY <1>6, <2>2, <2>3
<1>7. CASE j.table = "event_registration"
  <2>1. j.ids["driver"] \in DOMAIN d["driver"] /\ j.ids["car"] \in DOMAIN d["car"]
    BY <1>3, <1>7 DEF Obtained, DriverOf, CarOf
  <2>2. NotNull[j.table] \subseteq DOMAIN j.msg
    BY <1>2, <1>7 DEF MessageOK, NotNull, IdsOf
  <2>3. \A u \in References(j.table) : j.msg[PrimaryKey[u]] \in DOMAIN d[u]
    BY <1>2, <1>7, <2>1 DEF MessageOK, References, PrimaryKey
  <2>4. j.msg["event_id"] = j.event
    BY <1>2, <1>7 DEF MessageOK
  <2> QED
    BY <1>1, <1>7, <2>2, <2>3, <2>4
<1> QED
  BY <1>1, <1>4, <1>5, <1>6, <1>7 DEF Tables

(* What the constraints refuse is not complete, or has lost an ID.         *)
LEMMA RefusedGot ==
  ASSUME NEW d, NEW j, JobOK(d, j), Refused(d, j), NoId \notin DOMAIN d["car"]
  PROVE  Got(d, j, NoId, j.failed)
<1>1. j.failed \in BOOLEAN
  BY DEF JobOK, JobTyped
<1> QED
  BY <1>1, CompleteRefused DEF Got

-----------------------------------------------------------------------------
(* The import goes on.                                                     *)

LEMMA StageOK ==
  ASSUME NEW d, NEW file \in Files, NEW event \in Events, NEW n \in DOMAIN file,
         NEW t \in Tables, NEW ids \in [Tables -> Int],
         \A u \in Tables : ids[u] \in {NoId} \cup DOMAIN d[u],
         NEW failed \in BOOLEAN, NEW again, Len(d[t]) \in Nat,
         t = "event_registration" => OwnCar(d, ids),
         ~ failed => /\ Complete(readFile[file][n]) => Obtained(d, readFile[file][n], ids, t)
                     /\ DoneBefore(d, file, event, n)
  PROVE  JobOK(d, Stage(file, event, n, t, ids, failed, again))
<1> DEFINE msg == Message(t, readFile[file][n], event, ids)
           j == [file |-> file, event |-> event, n |-> n, table |-> t, ids |-> ids, msg |-> msg,
                 lookups |-> Lookups(t, msg), seen |-> <<>>, failed |-> failed, again |-> again]
<1>1. Stage(file, event, n, t, ids, failed, again) = j
  BY DEF Stage
<1>2. /\ DOMAIN j = {"file", "event", "n", "table", "ids", "msg", "lookups", "seen", "failed", "again"}
      /\ j.file = file /\ j.event = event /\ j.n = n /\ j.table = t /\ j.ids = ids
      /\ j.msg = msg /\ j.lookups = Lookups(t, msg) /\ j.seen = <<>> /\ j.failed = failed
  OBVIOUS
<1>3. msg = Message(t, readFile[file][n], event, ids)
  OBVIOUS
<1> HIDE DEF j, msg
<1>4. JobTyped(d, j)
  BY <1>2, <1>3 DEF JobTyped
<1>5. DOMAIN j.seen = {}
  BY <1>2
<1>6. LookedUp(d, j)
  BY <1>2, <1>5 DEF LookedUp
<1> QED
  BY <1>1, <1>2, <1>4, <1>6 DEF JobOK

LEMMA NextTableOK ==
  ASSUME NEW d, NEW s, TablesOK(d, s), NEW j, JobOK(d, j), NEW id, NEW failed, Got(d, j, id, failed),
         j.table # "event_registration"
  PROVE  JobOK(d, Stage(j.file, j.event, j.n, NextTable[j.table], [j.ids EXCEPT ![j.table] = id],
                        failed, j.again))
<1> DEFINE ids == [j.ids EXCEPT ![j.table] = id]
           t == NextTable[j.table]
           entry == readFile[j.file][j.n]
<1>1. /\ j.file \in Files /\ j.event \in Events /\ j.n \in DOMAIN j.file /\ j.table \in Tables
      /\ j.ids \in [Tables -> Int] /\ \A u \in Tables : j.ids[u] \in {NoId} \cup DOMAIN d[u]
  BY DEF JobOK, JobTyped
<1>2. \A u \in Tables : Len(d[u]) \in Nat /\ DOMAIN d[u] = 1..Len(d[u])
  BY DEF TablesOK
<1>3. id \in {NoId} \cup DOMAIN d[j.table] /\ failed \in BOOLEAN /\ (j.failed => failed)
  BY DEF Got
<1>4. id \in Int
  BY <1>1, <1>2, <1>3 DEF NoId
<1>5. /\ ids \in [Tables -> Int] /\ ids[j.table] = id
      /\ \A u \in Tables \ {j.table} : ids[u] = j.ids[u]
  BY <1>1, <1>4
<1>6. \A u \in Tables : ids[u] \in {NoId} \cup DOMAIN d[u]
  BY <1>1, <1>3, <1>5
<1>7. t \in Tables /\ (t = "event_registration" => j.table = "car") /\ t # "driver"
      /\ (t = "car_class" => j.table = "driver") /\ (t = "car" => j.table = "car_class")
  BY <1>1 DEF NextTable, Tables
<1> HIDE DEF ids, t, entry
<1>8. t = "event_registration" => OwnCar(d, ids)
  BY <1>5, <1>7 DEF OwnCar, Got, Tables
<1>9. ASSUME ~ failed, Complete(entry) PROVE Obtained(d, entry, ids, t)
  <2>1. Obtained(d, entry, j.ids, j.table)
    BY <1>3, <1>9 DEF JobOK, entry
  <2>2. /\ j.table = "driver" => DriverOf(d, entry, id)
        /\ j.table = "car_class" => id \in DOMAIN d["car_class"]
        /\ j.table = "car" => CarOf(d, entry, id)
    BY <1>9 DEF Got, entry
  <2>3. CASE j.table = "driver"
    BY <1>5, <1>7, <2>2, <2>3 DEF Obtained, Tables
  <2>4. CASE j.table = "car_class"
    BY <1>5, <1>7, <2>1, <2>2, <2>4 DEF Obtained, Tables
  <2>5. CASE j.table = "car"
    BY <1>5, <1>7, <2>1, <2>2, <2>5 DEF Obtained, Tables
  <2> QED
    BY <1>1, <2>3, <2>4, <2>5 DEF Tables
<1>10. ~ failed => DoneBefore(d, j.file, j.event, j.n)
  BY <1>3 DEF JobOK
<1>11. JobOK(d, Stage(j.file, j.event, j.n, t, ids, failed, j.again))
  BY <1>1, <1>2, <1>3, <1>5, <1>6, <1>7, <1>8, <1>9, <1>10, StageOK DEF entry
<1> QED
  BY <1>11 DEF ids, t

(* Entry n of the file is done.                                            *)
LEMMA EntryDone ==
  ASSUME NEW d, NEW j, JobOK(d, j), NEW id, NEW failed, Got(d, j, id, failed), ~ failed,
         j.table = "event_registration"
  PROVE  DoneBefore(d, j.file, j.event, j.n + 1)
<1>1. /\ j.file \in Files /\ j.n \in DOMAIN j.file /\ ~ j.failed
      /\ Len(j.file) \in Nat /\ DOMAIN j.file = 1..Len(j.file)
  BY ImportAssumption DEF JobOK, JobTyped, Got
<1> SUFFICES ASSUME j.event # EventOfNoRow, NEW m \in DOMAIN j.file, m < j.n + 1,
                    Complete(readFile[j.file][m])
             PROVE  RegisteredIn(d, readFile[j.file][m], j.event)
  BY DEF DoneBefore
<1>2. m = j.n \/ m < j.n
  BY <1>1
<1>3. CASE m = j.n
  BY <1>3 DEF Got
<1>4. CASE m < j.n
  BY <1>1, <1>4 DEF JobOK, DoneBefore
<1> QED
  BY <1>2, <1>3, <1>4

LEMMA NextEntryOK ==
  ASSUME NEW d, NEW s, TablesOK(d, s), NEW j, JobOK(d, j), NEW id, NEW failed, Got(d, j, id, failed),
         j.table = "event_registration", j.n < Len(j.file)
  PROVE  JobOK(d, Stage(j.file, j.event, j.n + 1, "driver", NoIds, failed, j.again))
<1>1. /\ j.file \in Files /\ j.event \in Events /\ j.n \in DOMAIN j.file
      /\ Len(j.file) \in Nat /\ DOMAIN j.file = 1..Len(j.file) /\ failed \in BOOLEAN
  BY ImportAssumption DEF JobOK, JobTyped, Got
<1> DEFINE n == j.n + 1
<1>2. n \in DOMAIN j.file
  BY <1>1
<1>3. NoIds \in [Tables -> Int] /\ \A u \in Tables : NoIds[u] \in {NoId} \cup DOMAIN d[u]
  BY DEF NoIds, NoId
<1>4. "driver" \in Tables /\ Len(d["driver"]) \in Nat
  BY DEF Tables, TablesOK
<1>5. ~ failed => DoneBefore(d, j.file, j.event, n)
  BY EntryDone
<1> HIDE DEF n
<1>6. \A entry : Obtained(d, entry, NoIds, "driver")
  BY DEF Obtained
<1>7. JobOK(d, Stage(j.file, j.event, n, "driver", NoIds, failed, j.again))
  BY <1>1, <1>2, <1>3, <1>4, <1>5, <1>6, StageOK
<1> QED
  BY <1>7 DEF n

LEMMA LastEntryOK ==
  ASSUME NEW d, NEW done, FinishedOK(d, done),
         NEW j, JobOK(d, j), NEW id, NEW failed, Got(d, j, id, failed),
         j.table = "event_registration", ~ (j.n < Len(j.file))
  PROVE  FinishedOK(d, done \cup {<<j.file, j.event, ~ failed>>})
<1>1. /\ j.file \in Files /\ j.event \in Events /\ j.n \in DOMAIN j.file
      /\ Len(j.file) \in Nat /\ DOMAIN j.file = 1..Len(j.file) /\ failed \in BOOLEAN
  BY ImportAssumption DEF JobOK, JobTyped, Got
<1>2. done \cup {<<j.file, j.event, ~ failed>>} \subseteq Files \X Events \X BOOLEAN
  <2>1. <<j.file, j.event, ~ failed>> \in Files \X Events \X BOOLEAN
    BY <1>1
  <2>2. done \subseteq Files \X Events \X BOOLEAN
    BY DEF FinishedOK
  <2> QED
    BY <2>1, <2>2
<1>3. ASSUME NEW file \in Files, NEW event \in Events \ {EventOfNoRow}, NEW m \in DOMAIN file,
             <<file, event, TRUE>> = <<j.file, j.event, ~ failed>>, Complete(readFile[file][m])
      PROVE  RegisteredIn(d, readFile[file][m], event)
  <2>1. file = j.file /\ event = j.event /\ ~ failed
    BY <1>1, <1>3
  <2>2. DoneBefore(d, j.file, j.event, j.n + 1)
    BY <2>1, EntryDone
  <2>3. m < j.n + 1
    BY <1>1, <2>1
  <2> QED
    BY <1>3, <2>1, <2>2, <2>3 DEF DoneBefore
<1> QED
  BY <1>2, <1>3 DEF FinishedOK

(* Whatever createIfNotExists returned to client c, after db has become d. *)
LEMMA ContinueOK ==
  ASSUME TablesOK(db, seen)', FinishedOK(db', finished), DOMAIN job = Clients,
         \A k \in Clients : job[k] # None => JobOK(db', job[k]),
         NEW c \in Clients, job[c] # None,
         NEW id, NEW failed, Got(db', job[c], id, failed), Continue(c, id, failed)
  PROVE  /\ FinishedOK(db', finished') /\ DOMAIN job' = Clients
         /\ \A k \in Clients : job'[k] # None => JobOK(db', job'[k])
<1> DEFINE j == job[c]
           ids == [j.ids EXCEPT ![j.table] = id]
<1>1. JobOK(db', j)
  OBVIOUS
<1>2. CASE j.table # "event_registration"
  <2>1. /\ job' = [job EXCEPT ![c] = Stage(j.file, j.event, j.n, NextTable[j.table],
                                           ids, failed, j.again)]
        /\ UNCHANGED finished
    BY <1>2 DEF Continue
  <2>2. JobOK(db', Stage(j.file, j.event, j.n, NextTable[j.table], ids, failed, j.again))
    BY <1>1, <1>2, NextTableOK
  <2> QED
    BY <2>1, <2>2
<1>3. CASE j.table = "event_registration" /\ j.n < Len(j.file)
  <2>1. /\ job' = [job EXCEPT ![c] = Stage(j.file, j.event, j.n + 1, "driver", NoIds, failed, j.again)]
        /\ UNCHANGED finished
    BY <1>3 DEF Continue
  <2>2. JobOK(db', Stage(j.file, j.event, j.n + 1, "driver", NoIds, failed, j.again))
    BY <1>1, <1>3, NextEntryOK
  <2> QED
    BY <2>1, <2>2
<1>4. CASE j.table = "event_registration" /\ ~ (j.n < Len(j.file))
  <2>1. /\ job' = [job EXCEPT ![c] = None]
        /\ finished' = finished \cup {<<j.file, j.event, ~ failed>>}
    BY <1>4 DEF Continue
  <2>2. FinishedOK(db', finished \cup {<<j.file, j.event, ~ failed>>})
    BY <1>1, <1>4, LastEntryOK
  <2> QED
    BY <2>1, <2>2
<1> QED
  BY <1>2, <1>3, <1>4

-----------------------------------------------------------------------------
(* The steps.                                                              *)

LEMMA InitImport == Init => ImportInv
<1> SUFFICES ASSUME Init PROVE ImportInv
  OBVIOUS
<1> USE DEF Init
<1>1. <<>> \in Seq(ToSet(<<>>)) /\ Len(<<>>) = 0 /\ DOMAIN <<>> = {}
  OBVIOUS
<1>2. \A t \in Tables : db[t] = <<>> /\ seen[t] = <<>>
  OBVIOUS
<1>3. TablesOK(db, seen)
  BY <1>1, <1>2 DEF TablesOK
<1>4. CarsOwned(db)
  BY <1>1, <1>2 DEF CarsOwned, Tables
<1>5. TwinsUnseen(db, seen)
  BY <1>1, <1>2 DEF TwinsUnseen
<1>6. FinishedOK(db, finished)
  BY DEF FinishedOK
<1>7. imports \in 0..MaxImports /\ failures \in 0..MaxFailures
  BY ImportAssumption
<1> QED
  BY <1>3, <1>4, <1>5, <1>6, <1>7 DEF ImportInv

LEMMA SameGrows == ASSUME NEW d, NEW s, TablesOK(d, s) PROVE Grows(d, d)
BY DEF TablesOK, Grows

LEMMA NoIdIsNone ==
  ASSUME NEW d, NEW s, TablesOK(d, s) PROVE \A t \in Tables : NoId \notin DOMAIN d[t]
BY DEF TablesOK, NoId

LEMMA FailCounts == ASSUME ImportInv, Fail PROVE failures' \in 0..MaxFailures
BY ImportAssumption DEF ImportInv, Fail

LEMMA BrowseStep ==
  ASSUME ImportInv, NEW c \in Clients, NEW file \in Files, NEW event \in Events,
         browseClicked(c, file, event)
  PROVE  ImportInv'
<1> DEFINE again == <<file, event, TRUE>> \in finished
<1>1. /\ job' = [job EXCEPT ![c] = Stage(file, event, 1, "driver", NoIds, FALSE, again)]
      /\ UNCHANGED <<db, seen, finished, failures>>
      /\ imports' = imports + 1 + Cardinality({b \in Clients : job[b] # None})
      /\ imports' <= MaxImports
  BY DEF browseClicked
<1>2. imports' \in 0..MaxImports
  <2>1. IsFiniteSet({b \in Clients : job[b] # None})
    BY ImportAssumption, FS_Subset
  <2>2. Cardinality({b \in Clients : job[b] # None}) \in Nat
    BY <2>1, FS_CardinalityType
  <2>3. imports \in Nat /\ MaxImports \in Nat
    BY ImportAssumption DEF ImportInv
  <2> QED
    BY <1>1, <2>2, <2>3
<1>3. 1 \in DOMAIN file
  BY ImportAssumption
<1>4. NoIds \in [Tables -> Int] /\ \A u \in Tables : NoIds[u] \in {NoId} \cup DOMAIN db[u]
  BY DEF NoIds, NoId
<1>5. "driver" \in Tables /\ Len(db["driver"]) \in Nat
  BY DEF Tables, ImportInv, TablesOK
<1>6. DoneBefore(db, file, event, 1)
  BY ImportAssumption DEF DoneBefore
<1>7. \A entry : Obtained(db, entry, NoIds, "driver")
  BY DEF Obtained
<1> HIDE DEF again
<1>8. JobOK(db, Stage(file, event, 1, "driver", NoIds, FALSE, again))
  BY <1>3, <1>4, <1>5, <1>6, <1>7, StageOK
<1>9. DOMAIN job' = Clients /\ \A k \in Clients : job'[k] # None => JobOK(db, job'[k])
  BY <1>1, <1>8 DEF ImportInv
<1> QED
  BY <1>1, <1>2, <1>9 DEF ImportInv

(* The job, and nothing else but a failure, has changed: j is looked up by *)
(* one key less.                                                           *)
LEMMA LookupOK ==
  ASSUME NEW d, NEW s, TablesOK(d, s), NEW j, JobOK(d, j), NEW F \in j.lookups,
         NEW read \in 0..Len(d[j.table]),
         \A i \in DOMAIN d[j.table] : i <= read => ~ Twin(d[j.table][i], j.msg, F),
         NEW failed \in BOOLEAN, j.failed => failed
  PROVE  JobOK(d, [NextLookup(j, F, read) EXCEPT !.failed = failed])
<1> DEFINE l == [NextLookup(j, F, read) EXCEPT !.failed = failed]
           old == j.seen
           new == Merge([G \in {F} |-> read], old)
<1>1. JobTyped(d, j) /\ LookedUp(d, j)
  BY DEF JobOK
<1>2. DOMAIN j = {"file", "event", "n", "table", "ids", "msg", "lookups", "seen", "failed", "again"}
  BY <1>1 DEF JobTyped
<1>3. /\ DOMAIN l = DOMAIN j
      /\ l.file = j.file /\ l.event = j.event /\ l.n = j.n /\ l.table = j.table
      /\ l.ids = j.ids /\ l.msg = j.msg
      /\ l.lookups = j.lookups \ {F} /\ l.failed = failed /\ l.seen = new
  BY <1>2 DEF NextLookup
<1>4. /\ DOMAIN new = {F} \cup DOMAIN old /\ new[F] = read
      /\ \A G \in DOMAIN old : G # F => new[G] = old[G]
  BY DEF Merge
<1> HIDE DEF l, new
<1>5. JobTyped(d, l)
  BY <1>1, <1>2, <1>3 DEF JobTyped
<1>6. LookedUp(d, l)
  <2>1. \A G \in DOMAIN l.seen : l.seen[G] \in 0..Len(d[j.table])
    BY <1>1, <1>3, <1>4 DEF LookedUp
  <2>2. ASSUME NEW G \in Lookups(j.table, j.msg) \ (j.lookups \ {F})
        PROVE  /\ G \in DOMAIN l.seen
               /\ \A i \in DOMAIN d[j.table] : i <= l.seen[G] => ~ Twin(d[j.table][i], j.msg, G)
    <3>1. CASE G = F
      BY <1>3, <1>4, <3>1
    <3>2. CASE G # F
      BY <1>1, <1>3, <1>4, <3>2 DEF LookedUp
    <3> QED
      BY <3>1, <3>2
  <2> QED
    BY <1>3, <2>1, <2>2 DEF LookedUp
<1>7. JobOK(d, l)
  BY <1>3, <1>5, <1>6 DEF JobOK
<1> QED
  BY <1>7 DEF l

LEMMA FindStep ==
  ASSUME ImportInv, NEW c \in Clients, Find(c) PROVE ImportInv'
<1> DEFINE j == job[c]
<1>1. /\ job[c] # None /\ JobOK(db, j) /\ TablesOK(db, seen)
      /\ UNCHANGED <<db, seen, imports>> /\ Len(db[j.table]) \in Nat
  BY DEF Find, ImportInv, JobOK, JobTyped, TablesOK
<1>2. PICK F \in j.lookups :
        \/ /\ \E i \in Found(j.table, Restrict(j.msg, F)) : Continue(c, i, j.failed)
           /\ UNCHANGED failures
        \/ /\ Found(j.table, Restrict(j.msg, F)) = {}
           /\ job' = [job EXCEPT ![c] =
                        NextLookup(j, F, IF WellFormed(Restrict(j.msg, F)) THEN Len(db[j.table]) ELSE 0)]
           /\ UNCHANGED <<finished, failures>>
        \/ /\ Fail
           /\ job' = [job EXCEPT ![c] = [NextLookup(j, F, 0) EXCEPT !.failed = TRUE]]
           /\ UNCHANGED finished
  BY DEF Find
<1>3. ASSUME NEW l, JobOK(db, l), job' = [job EXCEPT ![c] = l], UNCHANGED finished,
             failures' \in 0..MaxFailures
      PROVE  ImportInv'
  BY <1>1, <1>3 DEF ImportInv
<1>4. CASE /\ \E i \in Found(j.table, Restrict(j.msg, F)) : Continue(c, i, j.failed)
           /\ UNCHANGED failures
  <2>1. PICK i \in Found(j.table, Restrict(j.msg, F)) : Continue(c, i, j.failed)
    BY <1>4
  <2>2. i \in DOMAIN db[j.table] /\ wherePrototype(db[j.table][i], Restrict(j.msg, F))
    BY DEF Found
  <2>3. Got(db, j, i, j.failed)
    BY <1>1, <2>2, FoundGot
  <2>4. db' = db /\ seen' = seen /\ imports' = imports /\ failures' = failures
    BY <1>1, <1>4
  <2>5. /\ TablesOK(db, seen)' /\ FinishedOK(db', finished) /\ DOMAIN job = Clients
        /\ \A k \in Clients : job[k] # None => JobOK(db', job[k])
        /\ Got(db', job[c], i, j.failed)
    BY <2>3, <2>4 DEF ImportInv
  <2> HIDE DEF j
  <2>6. /\ FinishedOK(db', finished') /\ DOMAIN job' = Clients
        /\ \A k \in Clients : job'[k] # None => JobOK(db', job'[k])
    BY <1>1, <2>1, <2>5, ContinueOK
  <2> QED
    BY <2>4, <2>5, <2>6 DEF ImportInv
<1>5. CASE /\ Found(j.table, Restrict(j.msg, F)) = {}
           /\ job' = [job EXCEPT ![c] =
                        NextLookup(j, F, IF WellFormed(Restrict(j.msg, F)) THEN Len(db[j.table]) ELSE 0)]
           /\ UNCHANGED <<finished, failures>>
  <2> DEFINE read == IF WellFormed(Restrict(j.msg, F)) THEN Len(db[j.table]) ELSE 0
             l == NextLookup(j, F, read)
  <2>1. \A i \in DOMAIN db[j.table] : ~ wherePrototype(db[j.table][i], Restrict(j.msg, F))
    BY <1>5 DEF Found
  <2>2. read \in 0..Len(db[j.table])
    BY <1>1
  <2>3. DOMAIN db[j.table] = 1..Len(db[j.table])
    BY <1>1 DEF JobOK, JobTyped, TablesOK
  <2>4. \A i \in DOMAIN db[j.table] : i <= read => ~ Twin(db[j.table][i], j.msg, F)
    BY <2>1, <2>3, NotFoundNoTwin
  <2> HIDE DEF read
  <2>5. j.failed \in BOOLEAN /\ l.failed = j.failed /\ [l EXCEPT !.failed = j.failed] = l
    BY <1>1 DEF JobOK, JobTyped, NextLookup
  <2>6. JobOK(db, [l EXCEPT !.failed = j.failed])
    BY <1>1, <2>2, <2>4, <2>5, LookupOK
  <2>7. JobOK(db, l) /\ job' = [job EXCEPT ![c] = l]
    BY <1>5, <2>5, <2>6 DEF read
  <2>8. failures' \in 0..MaxFailures /\ UNCHANGED finished
    BY <1>5 DEF ImportInv
  <2> QED
    BY <1>3, <2>7, <2>8
<1>6. CASE /\ Fail
           /\ job' = [job EXCEPT ![c] = [NextLookup(j, F, 0) EXCEPT !.failed = TRUE]]
           /\ UNCHANGED finished
  <2>1. \A i \in DOMAIN db[j.table] : ~ (i <= 0)
    BY <1>1 DEF JobOK, JobTyped, TablesOK
  <2>2. 0 \in 0..Len(db[j.table])
    BY <1>1
  <2>3. JobOK(db, [NextLookup(j, F, 0) EXCEPT !.failed = TRUE])
    BY <1>1, <2>1, <2>2, LookupOK
  <2> QED
    BY <1>3, <1>6, <2>3, FailCounts
<1> QED
  BY <1>2, <1>4, <1>5, <1>6

(* A row may have been added; the imports and their results stay true.     *)
TablesStep ==
  /\ TablesOK(db, seen)' /\ CarsOwned(db)' /\ TwinsUnseen(db, seen)'
  /\ FinishedOK(db', finished)
  /\ \A k \in Clients : job[k] # None => JobOK(db', job[k])

LEMMA InsertStep ==
  ASSUME ImportInv, NEW c \in Clients, job[c] # None, job[c].lookups = {},
         InsertRow(job[c].table, job[c].msg, job[c].seen)
  PROVE  /\ TablesStep /\ Grows(db, db')
         /\ Len(db'[job[c].table]) \in DOMAIN db'[job[c].table]
         /\ db'[job[c].table][Len(db'[job[c].table])] = job[c].msg
<1> DEFINE j == job[c]
<1>1. JobOK(db, j) /\ TablesOK(db, seen) /\ CarsOwned(db) /\ TwinsUnseen(db, seen)
  BY DEF ImportInv
<1>2. /\ NotNull[j.table] \subseteq DOMAIN j.msg
      /\ \A u \in References(j.table) : j.msg[PrimaryKey[u]] \in DOMAIN db[u]
      /\ db' = [db EXCEPT ![j.table] = Append(@, j.msg)]
      /\ seen' = [seen EXCEPT ![j.table] = Append(@, j.seen)]
  BY DEF InsertRow, Insertable
<1>3. Inserts(j, db, seen, db', seen')
  BY <1>2 DEF Inserts
<1> HIDE DEF j
<1>4. /\ TablesOK(db', seen') /\ CarsOwned(db') /\ TwinsUnseen(db', seen') /\ Grows(db, db')
      /\ Len(db'[j.table]) \in DOMAIN db'[j.table] /\ db'[j.table][Len(db'[j.table])] = j.msg
  BY <1>1, <1>3, RowInserted
<1>5. FinishedOK(db', finished)
  BY <1>1, <1>4, FinishedGrows DEF ImportInv
<1>6. \A k \in Clients : job[k] # None => JobOK(db', job[k])
  BY <1>1, <1>4, JobGrows DEF ImportInv
<1> QED
  BY <1>4, <1>5, <1>6 DEF TablesStep, j

LEMMA ContinueStep ==
  ASSUME ImportInv, TablesStep, NEW c \in Clients, job[c] # None,
         NEW id, NEW failed, Got(db', job[c], id, failed), Continue(c, id, failed),
         failures' \in 0..MaxFailures, UNCHANGED imports
  PROVE  ImportInv'
<1>1. /\ FinishedOK(db', finished') /\ DOMAIN job' = Clients
      /\ \A k \in Clients : job'[k] # None => JobOK(db', job'[k])
  BY ContinueOK DEF TablesStep, ImportInv
<1> QED
  BY <1>1 DEF TablesStep, ImportInv

LEMMA CreateStep ==
  ASSUME ImportInv, NEW c \in Clients, Create(c) PROVE ImportInv'
<1> DEFINE j == job[c]
<1>1. /\ job[c] # None /\ job[c].lookups = {} /\ UNCHANGED imports
      /\ JobOK(db, j) /\ j.failed \in BOOLEAN /\ j.table \in Tables
  BY DEF Create, ImportInv, JobOK, JobTyped
<1>2. UNCHANGED <<db, seen>> => TablesStep
  BY DEF ImportInv, TablesStep
<1>3. CASE /\ InsertRow(j.table, j.msg, j.seen)
           /\ Continue(c, Len(db'[j.table]), j.failed)
           /\ UNCHANGED failures
  <2>1. /\ TablesStep /\ Len(db'[j.table]) \in DOMAIN db'[j.table]
        /\ db'[j.table][Len(db'[j.table])] = j.msg
    BY <1>1, <1>3, InsertStep
  <2>2. JobOK(db', j)
    BY <1>1, <2>1 DEF TablesStep
  <2>3. Got(db', j, Len(db'[j.table]), j.failed)
    BY <1>1, <2>1, <2>2, CreatedGot
  <2>4. failures' \in 0..MaxFailures
    BY <1>3 DEF ImportInv
  <2> QED
    BY <1>1, <1>3, <2>1, <2>3, <2>4, ContinueStep
<1>4. CASE /\ ~ Insertable(j.table, j.msg)
           /\ Continue(c, NoId, j.failed)
           /\ UNCHANGED <<db, seen, failures>>
  <2>1. NoId \notin DOMAIN db["car"]
    BY NoIdIsNone DEF ImportInv, Tables
  <2>2. Refused(db, j)
    BY <1>4 DEF Insertable, Refused
  <2>3. Got(db, j, NoId, j.failed)
    BY <1>1, <2>1, <2>2, RefusedGot
  <2>4. TablesStep /\ failures' \in 0..MaxFailures /\ Got(db', j, NoId, j.failed)
    BY <1>2, <1>4, <2>3 DEF ImportInv
  <2> QED
    BY <1>1, <1>4, <2>4, ContinueStep
<1>5. CASE /\ Fail
           /\ Continue(c, NoId, TRUE)
           /\ \/ InsertRow(j.table, j.msg, j.seen)
              \/ UNCHANGED <<db, seen>>
  <2>1. TablesStep
    BY <1>1, <1>2, <1>5, InsertStep
  <2>2. NoId \notin DOMAIN db'["car"]
    BY <2>1, NoIdIsNone DEF TablesStep, Tables
  <2>3. Got(db', j, NoId, TRUE)
    BY <1>1, <2>2 DEF Got
  <2> QED
    BY <1>1, <1>5, <2>1, <2>3, FailCounts, ContinueStep
<1> QED
  BY <1>1, <1>3, <1>4, <1>5 DEF Create

LEMMA NextImport ==
  ASSUME ImportInv, [Next]_vars PROVE ImportInv'
<1>1. CASE UNCHANGED vars
  BY <1>1 DEF ImportInv, vars
<1> QED
  BY <1>1, BrowseStep, FindStep, CreateStep DEF Next

(* In every state that can be reached, ImportInv holds.                    *)
THEOREM ImportInvariant == Spec => []ImportInv
BY InitImport, NextImport, PTL DEF Spec

(* Tables, imports and history keep their types: a row refers to rows that *)
(* are stored, and an import has IDs of stored rows, or none.              *)
THEOREM TypeCorrect == Spec => []TypeOK
<1>1. ASSUME ImportInv PROVE TypeOK
  <2>1. TablesOK(db, seen)
    BY <1>1 DEF ImportInv
  <2>2. ASSUME NEW t \in Tables
        PROVE  /\ Len(seen[t]) = Len(db[t])
               /\ \A i \in DOMAIN db[t] : \A F \in DOMAIN seen[t][i] : seen[t][i][F] \in Nat
               /\ \A row \in ToSet(db[t]) :
                    /\ NotNull[t] \subseteq DOMAIN row
                    /\ \A u \in Tables \ {t} :
                         PrimaryKey[u] \in DOMAIN row => row[PrimaryKey[u]] \in DOMAIN db[u]
    BY <2>1 DEF TablesOK, RowOK, ToSet
  <2>3. ASSUME NEW c \in Clients, job[c] # None
        PROVE  /\ job[c].file \in Files /\ job[c].event \in Events
               /\ job[c].n \in DOMAIN job[c].file /\ job[c].table \in Tables
               /\ \A t \in Tables : job[c].ids[t] \in {NoId} \cup DOMAIN db[t]
    BY <1>1, <2>3 DEF ImportInv, JobOK, JobTyped
  <2>4. DOMAIN db = Tables /\ DOMAIN seen = Tables
    BY <2>1 DEF TablesOK
  <2>5. /\ finished \subseteq Files \X Events \X BOOLEAN
        /\ imports \in 0..MaxImports /\ failures \in 0..MaxFailures
    BY <1>1 DEF ImportInv, FinishedOK
  <2> QED
    BY <2>2, <2>3, <2>4, <2>5 DEF TypeOK
<1> QED
  BY <1>1, ImportInvariant, PTL

(* browseClicked: a registration is for a car of its driver, because the   *)
(* car was looked up, or created, with the driver's ID.                    *)
THEOREM CarsAreTheDrivers == Spec => []RegistrationsOwnTheirCar
<1>1. ImportInv => RegistrationsOwnTheirCar
  BY DEF ImportInv, CarsOwned, RegistrationsOwnTheirCar, ToSet
<1> QED
  BY <1>1, ImportInvariant, PTL

(* createIfNotExists: there is no way to a second row with the key of an   *)
(* earlier one but a race of two imports, a failed lookup, or a text that  *)
(* does not find itself.                                                   *)
THEOREM NoOtherDuplicates == Spec => []DuplicatesAreRaces
<1>1. ASSUME ImportInv PROVE DuplicatesAreRaces
  <2>1. TwinsUnseen(db, seen)
    BY <1>1 DEF ImportInv
  <2>2. ASSUME NEW t \in Tables, NEW j \in DOMAIN db[t], NEW i \in 1..(j - 1),
               NEW F \in Lookups(t, db[t][j]), SameKey(db[t][i], db[t][j], F),
               \A f \in F : Misread(f, db[t][j][f]) => db[t][i][f] # db[t][j][f]
        PROVE  F \in DOMAIN seen[t][j] /\ seen[t][j][F] < i
    <3>1. Twin(db[t][i], db[t][j], F)
      BY <2>2 DEF Twin
    <3> QED
      BY <2>1, <2>2, <3>1 DEF TwinsUnseen
  <2> QED
    BY <2>2 DEF DuplicatesAreRaces
<1> QED
  BY <1>1, ImportInvariant, PTL

(* browseClicked: when no query failed, every row of the file that has the *)
(* mandatory fields is registered, whoever else imports at the same time.  *)
THEOREM CleanImportRegistersAll == Spec => []EveryRowRegistered
<1>1. ASSUME ImportInv PROVE EveryRowRegistered
  <2> SUFFICES ASSUME NEW file \in Files, NEW event \in Events \ {EventOfNoRow},
                      <<file, event, TRUE>> \in finished,
                      NEW entry \in ToSet(readFile[file]), Complete(entry)
               PROVE  Registered(entry, event)
    BY DEF EveryRowRegistered
  <2>1. PICK n \in DOMAIN file : entry = readFile[file][n]
    <3>1. DOMAIN readFile[file] = DOMAIN file
      BY DEF readFile
    <3> QED
      BY <3>1 DEF ToSet
  <2>2. RegisteredIn(db, entry, event)
    BY <1>1, <2>1 DEF ImportInv, FinishedOK
  <2> QED
    BY <2>2 DEF RegisteredIn, Registered, ToSet
<1> QED
  BY <1>1, ImportInvariant, PTL

-----------------------------------------------------------------------------
(* Where the rows come from, and what earlier imports have got: with it,   *)
(* an import of a file that was imported before finds what that one got.   *)

(* Every row was the message of an entry.                                  *)
FromEntries(d, entries) ==
  \A t \in Tables : \A i \in DOMAIN d[t] :
    \E o \in entries, event \in Events, ids \in [Tables -> Int] : d[t][i] = Message(t, o, event, ids)

(* Row id of table t is the message, or one that its lookups find.         *)
Gets(d, t, msg, id) ==
  /\ id \in DOMAIN d[t]
  /\ d[t][id] = msg \/ \E F \in Lookups(t, msg) : wherePrototype(d[t][id], Restrict(msg, F))

Preceding ==
  [driver |-> {}, car_class |-> {"driver"}, car |-> {"driver", "car_class"},
   event_registration |-> {"driver", "car_class", "car"}]

(* The tables that an entry of the event gets rows in.                     *)
Storing(event) == IF event = EventOfNoRow THEN Tables \ {"event_registration"} ELSE Tables

GetsAll(d, entry, event, ids, tables) ==
  \A t \in tables : Gets(d, t, Message(t, entry, event, ids), ids[t])

(* Somebody got rows for entry n.                                          *)
Stored(d, file, event, n) ==
  Complete(readFile[file][n]) =>
    \E ids \in [Tables -> Int] : GetsAll(d, readFile[file][n], event, ids, Storing(event))

FinishedStored(d, done) ==
  \A file \in Files, event \in Events :
    <<file, event, TRUE>> \in done => \A n \in DOMAIN file : Stored(d, file, event, n)

(* The rows that were got for the entry before, and that the lookups done  *)
(* did not find.                                                           *)
NotFound(d, j, ids) ==
  j.table \in Storing(j.event) =>
    \A F \in Lookups(j.table, j.msg) \ j.lookups :
      ~ wherePrototype(d[j.table][ids[j.table]], Restrict(j.msg, F))

JobTrace(d, done, j) ==
  /\ j.again => <<j.file, j.event, TRUE>> \in done
  /\ ~ j.failed =>
       LET entry == readFile[j.file][j.n]
       IN  /\ Complete(entry) => GetsAll(d, entry, j.event, j.ids, Preceding[j.table])
           /\ \A m \in DOMAIN j.file : m < j.n => Stored(d, j.file, j.event, m)
           /\ j.again /\ Complete(entry) =>
                \E ids \in [Tables -> Int] :
                  GetsAll(d, entry, j.event, ids, Storing(j.event)) /\ NotFound(d, j, ids)

TraceInv ==
  /\ FromEntries(db, ImportedEntries)
  /\ FinishedStored(db, finished)
  /\ \A c \in Clients : job[c] # None => JobTrace(db, finished, job[c])

Imported(o, done, jobs) ==
  \/ \E x \in done : o \in ToSet(readFile[x[1]])
  \/ \E c \in Clients : jobs[c] # None /\ o \in ToSet(readFile[jobs[c].file])

LEMMA ImportsMade ==
  ASSUME NEW o
  PROVE  /\ o \in ImportedEntries <=> Imported(o, finished, job)
         /\ o \in ImportedEntries' <=> Imported(o, finished', job')
BY DEF ImportedEntries, Imported

LEMMA StageIsImport ==
  ASSUME NEW file, NEW event, NEW n, NEW t, NEW ids, NEW failed, NEW again
  PROVE  /\ Stage(file, event, n, t, ids, failed, again).file = file
         /\ Stage(file, event, n, t, ids, failed, again) # None
<1> DEFINE j == Stage(file, event, n, t, ids, failed, again)
<1>1. j.file = file /\ "file" \in DOMAIN j
  BY DEF Stage
<1>2. "file" \notin DOMAIN None
  BY DEF None
<1> QED
  BY <1>1, <1>2

(* An import that comes to its end is a finished one.                      *)
ImportKept(done, j, l) ==
  (\E x \in done : x[1] = j.file) \/ (l # None /\ l.file = j.file)

LEMMA EntriesKept ==
  ASSUME finished \subseteq finished',
         \A k \in Clients : job[k] # None => ImportKept(finished', job[k], job'[k])
  PROVE  ImportedEntries \subseteq ImportedEntries'
<1> SUFFICES ASSUME NEW o, Imported(o, finished, job) PROVE Imported(o, finished', job')
  BY ImportsMade
<1> QED
  BY DEF Imported, ImportKept

LEMMA ContinueKept ==
  ASSUME NEW c \in Clients, NEW id, NEW failed, Continue(c, id, failed), DOMAIN job = Clients
  PROVE  ImportedEntries \subseteq ImportedEntries'
<1> DEFINE j == job[c]
           next == Stage(j.file, j.event, j.n, NextTable[j.table], [j.ids EXCEPT ![j.table] = id],
                         failed, j.again)
           first == Stage(j.file, j.event, j.n + 1, "driver", NoIds, failed, j.again)
<1>1. \/ job' = [job EXCEPT ![c] = next] /\ finished' = finished
      \/ job' = [job EXCEPT ![c] = first] /\ finished' = finished
      \/ job' = [job EXCEPT ![c] = None] /\ finished' = finished \cup {<<j.file, j.event, ~ failed>>}
  BY DEF Continue
<1>2. next.file = j.file /\ next # None /\ first.file = j.file /\ first # None
  BY StageIsImport
<1> HIDE DEF next, first
<1>3. finished \subseteq finished'
  BY <1>1
<1>4. ImportKept(finished', j, job'[c])
  <2>1. <<j.file, j.event, ~ failed>>[1] = j.file
    OBVIOUS
  <2> QED
    BY <1>1, <1>2, <2>1 DEF ImportKept
<1>5. \A k \in Clients \ {c} : job'[k] = job[k]
  BY <1>1
<1> QED
  BY <1>3, <1>4, <1>5, EntriesKept DEF ImportKept

LEMMA EntryOfFile ==
  ASSUME NEW file \in Files, NEW n \in DOMAIN file
  PROVE  readFile[file][n] \in ToSet(readFile[file])
<1>1. DOMAIN readFile[file] = DOMAIN file
  BY DEF readFile
<1> QED
  BY <1>1 DEF ToSet

LEMMA SameMessage ==
  ASSUME NEW t \in Tables, NEW entry, NEW event, NEW ids, NEW other,
         \A u \in Preceding[t] : ids[u] = other[u]
  PROVE  Message(t, entry, event, ids) = Message(t, entry, event, other)
BY DEF Message, Preceding, Tables

LEMMA PrecedingTables ==
  /\ \A t \in Tables : Preceding[t] \subseteq Tables /\ t \notin Preceding[t]
  /\ \A t \in Tables : \A u \in Preceding[t] : t \notin Preceding[u]
  /\ \A t \in Tables \ {"event_registration"} :
       Preceding[NextTable[t]] = Preceding[t] \cup {t} /\ NextTable[t] \in Tables
  /\ Tables = Preceding["event_registration"] \cup {"event_registration"}
  /\ Preceding["driver"] = {}
BY DEF Preceding, NextTable, Tables

-----------------------------------------------------------------------------
(* Rows are only added.                                                    *)

LEMMA GetsGrows ==
  ASSUME NEW d, NEW e, Grows(d, e), NEW t \in Tables, NEW msg, NEW id, Gets(d, t, msg, id)
  PROVE  Gets(e, t, msg, id)
BY DEF Gets, Grows

LEMMA StoringTables == \A event : Storing(event) \subseteq Tables
BY DEF Storing

LEMMA StoredGrows ==
  ASSUME NEW d, NEW e, Grows(d, e), NEW file, NEW event, NEW n, Stored(d, file, event, n)
  PROVE  Stored(e, file, event, n)
BY GetsGrows, StoringTables DEF Stored, GetsAll

LEMMA TraceGrows ==
  ASSUME NEW d, NEW e, Grows(d, e), NEW done, NEW more, done \subseteq more,
         NEW j, j.table \in Tables, JobTrace(d, done, j)
  PROVE  JobTrace(e, more, j)
<1> DEFINE entry == readFile[j.file][j.n]
<1>1. ASSUME ~ j.failed, Complete(entry) PROVE GetsAll(e, entry, j.event, j.ids, Preceding[j.table])
  <2>1. GetsAll(d, entry, j.event, j.ids, Preceding[j.table])
    BY <1>1 DEF JobTrace
  <2> QED
    BY <2>1, GetsGrows, PrecedingTables DEF GetsAll
<1>2. ASSUME ~ j.failed, NEW m \in DOMAIN j.file, m < j.n PROVE Stored(e, j.file, j.event, m)
  BY <1>2, StoredGrows DEF JobTrace
<1>3. ASSUME ~ j.failed, j.again, Complete(entry)
      PROVE  \E ids \in [Tables -> Int] :
               GetsAll(e, entry, j.event, ids, Storing(j.event)) /\ NotFound(e, j, ids)
  <2>1. PICK ids \in [Tables -> Int] :
          GetsAll(d, entry, j.event, ids, Storing(j.event)) /\ NotFound(d, j, ids)
    BY <1>3 DEF JobTrace
  <2>2. GetsAll(e, entry, j.event, ids, Storing(j.event))
    BY <2>1, GetsGrows, StoringTables DEF GetsAll
  <2>3. j.table \in Storing(j.event) =>
          ids[j.table] \in DOMAIN d[j.table] /\ e[j.table][ids[j.table]] = d[j.table][ids[j.table]]
    BY <2>1 DEF GetsAll, Gets, Grows
  <2>4. NotFound(e, j, ids)
    BY <2>1, <2>3 DEF NotFound
  <2> QED
    BY <2>2, <2>4
<1>4. j.again => <<j.file, j.event, TRUE>> \in more
  BY DEF JobTrace
<1> QED
  BY <1>1, <1>2, <1>3, <1>4 DEF JobTrace

(* A message that becomes a row was that of an entry.                      *)
LEMMA FromEntriesGrows ==
  ASSUME NEW d, NEW entries, FromEntries(d, entries), NEW more, entries \subseteq more,
         NEW j, JobTyped(d, j), readFile[j.file][j.n] \in more,
         NEW e, \A t \in Tables : \A i \in DOMAIN e[t] :
                  \/ i \in DOMAIN d[t] /\ e[t][i] = d[t][i]
                  \/ t = j.table /\ e[t][i] = j.msg
  PROVE  FromEntries(e, more)
<1>1. /\ j.msg = Message(j.table, readFile[j.file][j.n], j.event, j.ids)
      /\ j.event \in Events /\ j.ids \in [Tables -> Int]
  BY DEF JobTyped
<1> SUFFICES ASSUME NEW t \in Tables, NEW i \in DOMAIN e[t]
             PROVE  \E o \in more, event \in Events, ids \in [Tables -> Int] :
                      e[t][i] = Message(t, o, event, ids)
  BY DEF FromEntries
<1>2. CASE i \in DOMAIN d[t] /\ e[t][i] = d[t][i]
  BY <1>2 DEF FromEntries
<1>3. CASE t = j.table /\ e[t][i] = j.msg
  BY <1>1, <1>3
<1> QED
  BY <1>2, <1>3

-----------------------------------------------------------------------------
(* What createIfNotExists returns is the message as a row, or a row that   *)
(* one of its lookups finds.                                               *)

Returned(d, j, id, failed) ==
  /\ id \in Int /\ failed \in BOOLEAN /\ (j.failed => failed)
  /\ ~ failed /\ Complete(readFile[j.file][j.n]) /\ j.table \in Storing(j.event) =>
       Gets(d, j.table, j.msg, id)

LEMMA RefusedReturned ==
  ASSUME NEW d, NEW j, JobOK(d, j), Refused(d, j)
  PROVE  Returned(d, j, NoId, j.failed)
<1>1. j.failed \in BOOLEAN
  BY DEF JobOK, JobTyped
<1>2. NoId \in Int
  BY DEF NoId
<1> QED
  BY <1>1, <1>2, CompleteRefused DEF Returned, Storing

LEMMA StageTrace ==
  ASSUME NEW d, NEW done, FinishedStored(d, done),
         NEW file \in Files, NEW event \in Events, NEW n \in DOMAIN file,
         NEW t \in Tables, NEW ids, NEW failed, NEW again,
         again => <<file, event, TRUE>> \in done,
         ~ failed => /\ Complete(readFile[file][n]) =>
                          GetsAll(d, readFile[file][n], event, ids, Preceding[t])
                     /\ \A m \in DOMAIN file : m < n => Stored(d, file, event, m)
  PROVE  JobTrace(d, done, Stage(file, event, n, t, ids, failed, again))
<1> DEFINE j == Stage(file, event, n, t, ids, failed, again)
           entry == readFile[file][n]
<1>1. /\ j.file = file /\ j.event = event /\ j.n = n /\ j.table = t /\ j.ids = ids
      /\ j.lookups = Lookups(t, j.msg) /\ j.failed = failed /\ j.again = again
  BY DEF Stage
<1> HIDE DEF j
<1>2. ASSUME again, Complete(entry)
      PROVE  \E w \in [Tables -> Int] : GetsAll(d, entry, event, w, Storing(event)) /\ NotFound(d, j, w)
  <2>1. Stored(d, file, event, n)
    BY <1>2 DEF FinishedStored
  <2>2. PICK w \in [Tables -> Int] : GetsAll(d, entry, event, w, Storing(event))
    BY <1>2, <2>1 DEF Stored
  <2>3. NotFound(d, j, w)
    BY <1>1 DEF NotFound
  <2> QED
    BY <2>2, <2>3
<1>3. JobTrace(d, done, j)
  BY <1>1, <1>2 DEF JobTrace
<1> QED
  BY <1>3 DEF j

LEMMA GetsNext ==
  ASSUME NEW d, NEW entry, NEW event, NEW ids \in [Tables -> Int], NEW t \in Tables, NEW id,
         GetsAll(d, entry, event, ids, Preceding[t]), Gets(d, t, Message(t, entry, event, ids), id)
  PROVE  GetsAll(d, entry, event, [ids EXCEPT ![t] = id], Preceding[t] \cup {t})
<1> DEFINE new == [ids EXCEPT ![t] = id]
<1>1. new[t] = id /\ \A u \in Tables \ {t} : new[u] = ids[u]
  OBVIOUS
<1> HIDE DEF new
<1>2. ASSUME NEW u \in Preceding[t] \cup {t}
      PROVE  Gets(d, u, Message(u, entry, event, new), new[u])
  <2>1. u \in Tables /\ \A v \in Preceding[u] : ids[v] = new[v]
    BY <1>1, PrecedingTables
  <2>2. Message(u, entry, event, new) = Message(u, entry, event, ids)
    BY <2>1, SameMessage
  <2> QED
    BY <1>1, <2>1, <2>2, PrecedingTables DEF GetsAll
<1> QED
  BY <1>2 DEF GetsAll, new

LEMMA NextTableTrace ==
  ASSUME NEW d, NEW done, FinishedStored(d, done), NEW j, JobTyped(d, j), JobTrace(d, done, j),
         NEW id, NEW failed, Returned(d, j, id, failed), j.table # "event_registration"
  PROVE  JobTrace(d, done, Stage(j.file, j.event, j.n, NextTable[j.table],
                                 [j.ids EXCEPT ![j.table] = id], failed, j.again))
<1> DEFINE entry == readFile[j.file][j.n]
           t == NextTable[j.table]
           ids == [j.ids EXCEPT ![j.table] = id]
<1>1. /\ j.file \in Files /\ j.event \in Events /\ j.n \in DOMAIN j.file /\ j.table \in Tables
      /\ j.ids \in [Tables -> Int] /\ j.msg = Message(j.table, entry, j.event, j.ids)
  BY DEF JobTyped
<1>2. t \in Tables /\ Preceding[t] = Preceding[j.table] \cup {j.table}
  BY <1>1, PrecedingTables
<1>3. ASSUME ~ failed, Complete(entry) PROVE GetsAll(d, entry, j.event, ids, Preceding[t])
  <2>1. GetsAll(d, entry, j.event, j.ids, Preceding[j.table])
    BY <1>3 DEF JobTrace, Returned
  <2>2. j.table \in Storing(j.event)
    BY <1>1 DEF Storing
  <2>3. Gets(d, j.table, j.msg, id)
    BY <1>3, <2>2 DEF Returned
  <2> HIDE DEF entry
  <2> QED
    BY <1>1, <1>2, <2>1, <2>3, GetsNext
<1>4. ~ failed => \A m \in DOMAIN j.file : m < j.n => Stored(d, j.file, j.event, m)
  BY DEF JobTrace, Returned
<1>5. j.again => <<j.file, j.event, TRUE>> \in done
  BY DEF JobTrace
<1> HIDE DEF t, ids
<1>6. JobTrace(d, done, Stage(j.file, j.event, j.n, t, ids, failed, j.again))
  BY <1>1, <1>2, <1>3, <1>4, <1>5, StageTrace
<1> QED
  BY <1>6 DEF t, ids

(* Entry n of the file is done.                                            *)
LEMMA EntryStored ==
  ASSUME NEW d, NEW done, NEW j, JobTyped(d, j), JobTrace(d, done, j),
         NEW id, NEW failed, Returned(d, j, id, failed), ~ failed, j.table = "event_registration"
  PROVE  \A m \in DOMAIN j.file : m < j.n + 1 => Stored(d, j.file, j.event, m)
<1> DEFINE entry == readFile[j.file][j.n]
           ids == [j.ids EXCEPT !["event_registration"] = id]
<1>1. /\ j.file \in Files /\ j.n \in DOMAIN j.file /\ ~ j.failed /\ id \in Int
      /\ DOMAIN j.file = 1..Len(j.file) /\ Len(j.file) \in Nat
      /\ j.ids \in [Tables -> Int] /\ j.msg = Message(j.table, entry, j.event, j.ids)
  BY ImportAssumption DEF JobTyped, Returned
<1>2. ASSUME Complete(entry) PROVE Stored(d, j.file, j.event, j.n)
  <2>1. GetsAll(d, entry, j.event, j.ids, Preceding["event_registration"])
    BY <1>1, <1>2 DEF JobTrace
  <2>2. CASE j.event = EventOfNoRow
    <3>1. Storing(j.event) = Preceding["event_registration"]
      BY <2>2, PrecedingTables DEF Storing
    <3> QED
      BY <1>1, <2>1, <3>1 DEF Stored
  <2>3. CASE j.event # EventOfNoRow
    <3>1. Storing(j.event) = Preceding["event_registration"] \cup {"event_registration"}
          /\ "event_registration" \in Tables
      BY <2>3, PrecedingTables DEF Storing
    <3>2. Gets(d, "event_registration", Message("event_registration", entry, j.event, j.ids), id)
      BY <1>1, <1>2, <3>1 DEF Returned
    <3>3. ids \in [Tables -> Int]
      BY <1>1
    <3>4. GetsAll(d, entry, j.event, ids, Storing(j.event))
      BY <1>1, <2>1, <3>1, <3>2, GetsNext
    <3> HIDE DEF ids
    <3> QED
      BY <3>3, <3>4 DEF Stored
  <2> QED
    BY <2>2, <2>3
<1> SUFFICES ASSUME NEW m \in DOMAIN j.file, m < j.n + 1 PROVE Stored(d, j.file, j.event, m)
  OBVIOUS
<1>3. CASE m = j.n
  BY <1>2, <1>3 DEF Stored
<1>4. CASE m < j.n
  BY <1>1, <1>4 DEF JobTrace
<1> QED
  BY <1>1, <1>3, <1>4

LEMMA NextEntryTrace ==
  ASSUME NEW d, NEW done, FinishedStored(d, done), NEW j, JobTyped(d, j), JobTrace(d, done, j),
         NEW id, NEW failed, Returned(d, j, id, failed),
         j.table = "event_registration", j.n < Len(j.file)
  PROVE  JobTrace(d, done, Stage(j.file, j.event, j.n + 1, "driver", NoIds, failed, j.again))
<1> DEFINE n == j.n + 1
<1>1. /\ j.file \in Files /\ j.event \in Events /\ n \in DOMAIN j.file /\ "driver" \in Tables
  BY ImportAssumption DEF JobTyped, Tables
<1>2. ~ failed => \A m \in DOMAIN j.file : m < n => Stored(d, j.file, j.event, m)
  BY EntryStored
<1>3. j.again => <<j.file, j.event, TRUE>> \in done
  BY DEF JobTrace
<1>4. \A entry : GetsAll(d, entry, j.event, NoIds, Preceding["driver"])
  BY PrecedingTables DEF GetsAll
<1> HIDE DEF n
<1>5. JobTrace(d, done, Stage(j.file, j.event, n, "driver", NoIds, failed, j.again))
  BY <1>1, <1>2, <1>3, <1>4, StageTrace
<1> QED
  BY <1>5 DEF n

LEMMA LastEntryStored ==
  ASSUME NEW d, NEW done, FinishedStored(d, done), NEW j, JobTyped(d, j), JobTrace(d, done, j),
         NEW id, NEW failed, Returned(d, j, id, failed),
         j.table = "event_registration", ~ (j.n < Len(j.file))
  PROVE  FinishedStored(d, done \cup {<<j.file, j.event, ~ failed>>})
<1>1. /\ j.file \in Files /\ j.event \in Events /\ j.n \in DOMAIN j.file /\ failed \in BOOLEAN
      /\ Len(j.file) \in Nat /\ DOMAIN j.file = 1..Len(j.file)
  BY ImportAssumption DEF JobTyped, Returned
<1>2. ASSUME NEW file \in Files, NEW event \in Events, NEW m \in DOMAIN file,
             <<file, event, TRUE>> = <<j.file, j.event, ~ failed>>
      PROVE  Stored(d, file, event, m)
  <2>1. file = j.file /\ event = j.event /\ ~ failed
    BY <1>1, <1>2
  <2>2. m < j.n + 1
    BY <1>1, <2>1
  <2> QED
    BY <2>1, <2>2, EntryStored
<1> QED
  BY <1>2 DEF FinishedStored

-----------------------------------------------------------------------------
(* The steps.                                                              *)

Traced(d, done, jobs) == \A k \in Clients : jobs[k] # None => JobTrace(d, done, jobs[k])

LEMMA ContinueTrace ==
  ASSUME TablesOK(db, seen)', FinishedStored(db', finished), DOMAIN job = Clients,
         \A k \in Clients : job[k] # None => JobOK(db', job[k]), Traced(db', finished, job),
         NEW c \in Clients, job[c] # None,
         NEW id, NEW failed, Returned(db', job[c], id, failed), Continue(c, id, failed)
  PROVE  FinishedStored(db', finished') /\ Traced(db', finished', job')
<1> DEFINE j == job[c]
           next == Stage(j.file, j.event, j.n, NextTable[j.table], [j.ids EXCEPT ![j.table] = id],
                         failed, j.again)
           first == Stage(j.file, j.event, j.n + 1, "driver", NoIds, failed, j.again)
<1>1. JobTyped(db', j) /\ JobTrace(db', finished, j)
  BY DEF JobOK, Traced
<1>2. CASE j.table # "event_registration"
  <2>1. job' = [job EXCEPT ![c] = next] /\ finished' = finished
    BY <1>2 DEF Continue
  <2>2. JobTrace(db', finished, next)
    BY <1>1, <1>2, NextTableTrace
  <2> HIDE DEF next
  <2> QED
    BY <2>1, <2>2 DEF Traced
<1>3. CASE j.table = "event_registration" /\ j.n < Len(j.file)
  <2>1. job' = [job EXCEPT ![c] = first] /\ finished' = finished
    BY <1>3 DEF Continue
  <2>2. JobTrace(db', finished, first)
    BY <1>1, <1>3, NextEntryTrace
  <2> HIDE DEF first
  <2> QED
    BY <2>1, <2>2 DEF Traced
<1>4. CASE j.table = "event_registration" /\ ~ (j.n < Len(j.file))
  <2>1. job' = [job EXCEPT ![c] = None] /\ finished' = finished \cup {<<j.file, j.event, ~ failed>>}
    BY <1>4 DEF Continue
  <2>2. FinishedStored(db', finished')
    BY <1>1, <1>4, <2>1, LastEntryStored
  <2>3. Grows(db', db') /\ finished \subseteq finished'
    BY <2>1, SameGrows
  <2>4. ASSUME NEW k \in Clients \ {c}, job[k] # None PROVE JobTrace(db', finished', job[k])
    <3>1. job[k].table \in Tables /\ JobTrace(db', finished, job[k])
      BY <2>4 DEF JobOK, JobTyped, Traced
    <3> QED
      BY <2>3, <3>1, TraceGrows
  <2> QED
    BY <2>1, <2>2, <2>4 DEF Traced
<1> QED
  BY <1>2, <1>3, <1>4

LEMMA InitTrace == Init => TraceInv
<1> SUFFICES ASSUME Init PROVE TraceInv
  OBVIOUS
<1>1. \A t \in Tables : DOMAIN db[t] = {}
  <2>1. DOMAIN <<>> = {}
    OBVIOUS
  <2> QED
    BY <2>1 DEF Init
<1> QED
  BY <1>1 DEF Init, TraceInv, FromEntries, FinishedStored

LEMMA BrowseTrace ==
  ASSUME ImportInv, TraceInv, NEW c \in Clients, NEW file \in Files, NEW event \in Events,
         browseClicked(c, file, event)
  PROVE  TraceInv'
<1> DEFINE again == <<file, event, TRUE>> \in finished
           first == Stage(file, event, 1, "driver", NoIds, FALSE, again)
<1>1. /\ job' = [job EXCEPT ![c] = first] /\ job[c] = None
      /\ db' = db /\ finished' = finished /\ DOMAIN job = Clients
  BY DEF browseClicked, ImportInv
<1>2. 1 \in DOMAIN file /\ \A m \in DOMAIN file : ~ (m < 1)
  BY ImportAssumption
<1>3. \A entry : GetsAll(db, entry, event, NoIds, Preceding["driver"])
  BY PrecedingTables DEF GetsAll
<1>4. "driver" \in Tables /\ (again => <<file, event, TRUE>> \in finished) /\ FinishedStored(db, finished)
  BY DEF Tables, TraceInv
<1> HIDE DEF again
<1>5. JobTrace(db, finished, first)
  BY <1>2, <1>3, <1>4, StageTrace
<1> HIDE DEF first
<1>6. ImportedEntries \subseteq ImportedEntries'
  BY <1>1, EntriesKept DEF ImportKept
<1>7. FromEntries(db', ImportedEntries')
  BY <1>1, <1>6 DEF TraceInv, FromEntries
<1> QED
  BY <1>1, <1>5, <1>7 DEF TraceInv

(* One key less to look j up by: nothing was found, or the query failed.   *)
LEMMA LookupTrace ==
  ASSUME NEW d, NEW done, NEW j, JobTyped(d, j), JobTrace(d, done, j), NEW F, NEW read,
         NEW failed \in BOOLEAN, j.failed => failed,
         \/ failed
         \/ \A i \in DOMAIN d[j.table] : ~ wherePrototype(d[j.table][i], Restrict(j.msg, F))
  PROVE  JobTrace(d, done, [NextLookup(j, F, read) EXCEPT !.failed = failed])
<1> DEFINE l == [NextLookup(j, F, read) EXCEPT !.failed = failed]
           entry == readFile[j.file][j.n]
<1>1. /\ l.file = j.file /\ l.event = j.event /\ l.n = j.n /\ l.table = j.table /\ l.again = j.again
      /\ l.ids = j.ids /\ l.msg = j.msg /\ l.lookups = j.lookups \ {F} /\ l.failed = failed
  BY DEF JobTyped, NextLookup
<1> HIDE DEF l
<1>2. ASSUME ~ failed, j.again, Complete(entry)
      PROVE  \E ids \in [Tables -> Int] :
               GetsAll(d, entry, j.event, ids, Storing(j.event)) /\ NotFound(d, l, ids)
  <2>1. PICK ids \in [Tables -> Int] :
          GetsAll(d, entry, j.event, ids, Storing(j.event)) /\ NotFound(d, j, ids)
    BY <1>2 DEF JobTrace
  <2>2. j.table \in Storing(j.event) => ids[j.table] \in DOMAIN d[j.table]
    BY <2>1 DEF GetsAll, Gets
  <2>3. NotFound(d, l, ids)
    BY <1>1, <1>2, <2>1, <2>2 DEF NotFound
  <2> QED
    BY <2>1, <2>3
<1>3. JobTrace(d, done, l)
  BY <1>1, <1>2 DEF JobTrace
<1> QED
  BY <1>3 DEF l

LEMMA FindTrace ==
  ASSUME ImportInv, TraceInv, NEW c \in Clients, Find(c) PROVE TraceInv'
<1> DEFINE j == job[c]
<1>1. /\ job[c] # None /\ JobOK(db, j) /\ JobTyped(db, j) /\ TablesOK(db, seen)
      /\ db' = db /\ seen' = seen /\ DOMAIN job = Clients
      /\ JobTrace(db, finished, j) /\ Traced(db, finished, job) /\ FinishedStored(db, finished)
      /\ j.failed \in BOOLEAN /\ j.table \in Tables
  BY DEF Find, ImportInv, JobOK, JobTyped, TraceInv, Traced
<1>2. PICK F \in j.lookups :
        \/ \E i \in Found(j.table, Restrict(j.msg, F)) : Continue(c, i, j.failed)
        \/ /\ Found(j.table, Restrict(j.msg, F)) = {}
           /\ job' = [job EXCEPT ![c] =
                        NextLookup(j, F, IF WellFormed(Restrict(j.msg, F)) THEN Len(db[j.table]) ELSE 0)]
           /\ finished' = finished
        \/ /\ job' = [job EXCEPT ![c] = [NextLookup(j, F, 0) EXCEPT !.failed = TRUE]]
           /\ finished' = finished
  BY DEF Find
<1>3. ASSUME ImportedEntries \subseteq ImportedEntries' PROVE FromEntries(db', ImportedEntries')
  BY <1>1, <1>3 DEF TraceInv, FromEntries
<1>4. ASSUME NEW l, JobTrace(db, finished, l), l # None, l.file = j.file,
             job' = [job EXCEPT ![c] = l], finished' = finished
      PROVE  TraceInv'
  <2>1. ImportedEntries \subseteq ImportedEntries'
    BY <1>1, <1>4, EntriesKept DEF ImportKept
  <2> QED
    BY <1>1, <1>3, <1>4, <2>1 DEF TraceInv, Traced
<1>5. CASE \E i \in Found(j.table, Restrict(j.msg, F)) : Continue(c, i, j.failed)
  <2>1. PICK i \in Found(j.table, Restrict(j.msg, F)) : Continue(c, i, j.failed)
    BY <1>5
  <2>2. i \in DOMAIN db[j.table] /\ wherePrototype(db[j.table][i], Restrict(j.msg, F)) /\ i \in Int
    BY <1>1 DEF Found, TablesOK
  <2>3. F \in Lookups(j.table, j.msg)
    BY <1>1 DEF JobTyped
  <2>4. Returned(db', j, i, j.failed)
    BY <1>1, <2>2, <2>3 DEF Returned, Gets
  <2>5. TablesOK(db, seen)' /\ \A k \in Clients : job[k] # None => JobOK(db', job[k])
    BY <1>1 DEF ImportInv
  <2>6. FinishedStored(db', finished) /\ Traced(db', finished, job)
    BY <1>1
  <2> HIDE DEF j
  <2>7. FinishedStored(db', finished') /\ Traced(db', finished', job')
    BY <1>1, <2>1, <2>4, <2>5, <2>6, ContinueTrace DEF j
  <2>8. FromEntries(db', ImportedEntries')
    BY <1>1, <1>3, <2>1, ContinueKept
  <2> QED
    BY <2>7, <2>8 DEF TraceInv, Traced
<1>6. CASE /\ Found(j.table, Restrict(j.msg, F)) = {}
           /\ job' = [job EXCEPT ![c] =
                        NextLookup(j, F, IF WellFormed(Restrict(j.msg, F)) THEN Len(db[j.table]) ELSE 0)]
           /\ finished' = finished
  <2> DEFINE read == IF WellFormed(Restrict(j.msg, F)) THEN Len(db[j.table]) ELSE 0
             l == NextLookup(j, F, read)
  <2>1. \A i \in DOMAIN db[j.table] : ~ wherePrototype(db[j.table][i], Restrict(j.msg, F))
    BY <1>6 DEF Found
  <2> HIDE DEF read
  <2>2. [l EXCEPT !.failed = j.failed] = l /\ l.file = j.file /\ "file" \in DOMAIN l
    BY <1>1 DEF JobTyped, NextLookup
  <2>3. JobTrace(db, finished, l)
    BY <1>1, <2>1, <2>2, LookupTrace
  <2>4. l # None
    BY <2>2 DEF None
  <2>5. job' = [job EXCEPT ![c] = l]
    BY <1>6 DEF read
  <2> HIDE DEF l
  <2> QED
    BY <1>4, <1>6, <2>2, <2>3, <2>4, <2>5
<1>7. CASE /\ job' = [job EXCEPT ![c] = [NextLookup(j, F, 0) EXCEPT !.failed = TRUE]]
           /\ finished' = finished
  <2> DEFINE l == [NextLookup(j, F, 0) EXCEPT !.failed = TRUE]
  <2>1. l.file = j.file /\ "file" \in DOMAIN l
    BY <1>1 DEF JobTyped, NextLookup
  <2>2. JobTrace(db, finished, l)
    BY <1>1, LookupTrace
  <2>3. l # None
    BY <2>1 DEF None
  <2> HIDE DEF l
  <2> QED
    BY <1>4, <1>7, <2>1, <2>2, <2>3 DEF l
<1> QED
  BY <1>2, <1>5, <1>6, <1>7

(* A row may have been added; what is known of the imports stays true.     *)
TraceStep ==
  /\ FinishedStored(db', finished) /\ Traced(db', finished, job)
  /\ ImportedEntries \subseteq ImportedEntries' => FromEntries(db', ImportedEntries')

LEMMA InsertTrace ==
  ASSUME ImportInv, TraceInv, NEW c \in Clients, job[c] # None, job[c].lookups = {},
         InsertRow(job[c].table, job[c].msg, job[c].seen)
  PROVE  TraceStep
<1> DEFINE j == job[c]
<1>1. Grows(db, db') /\ JobTyped(db, j)
  BY InsertStep DEF ImportInv, JobOK
<1>2. FinishedStored(db', finished)
  BY <1>1, StoredGrows DEF TraceInv, FinishedStored
<1>3. ASSUME NEW k \in Clients, job[k] # None PROVE JobTrace(db', finished, job[k])
  <2>1. job[k].table \in Tables /\ JobTrace(db, finished, job[k])
    BY <1>3 DEF ImportInv, JobOK, JobTyped, TraceInv
  <2> QED
    BY <1>1, <2>1, TraceGrows
<1>4. ASSUME NEW t \in Tables, NEW i \in DOMAIN db'[t]
      PROVE  \/ i \in DOMAIN db[t] /\ db'[t][i] = db[t][i]
             \/ t = j.table /\ db'[t][i] = j.msg
  <2>1. /\ DOMAIN db = Tables /\ j.table \in Tables
        /\ db' = [db EXCEPT ![j.table] = Append(@, j.msg)]
        /\ db[t] \in Seq(ToSet(db[t]))
    BY <1>1 DEF InsertRow, ImportInv, TablesOK, JobTyped
  <2> HIDE DEF j
  <2>2. CASE t # j.table
    BY <2>1, <2>2
  <2>3. CASE t = j.table
    <3>1. db'[t] = Append(db[t], j.msg)
      BY <2>1, <2>3
    <3>2. Longer(db[t], j.msg, db'[t])
      BY <2>1, <3>1, OneMore
    <3>3. i \in DOMAIN db[t] \/ i = Len(db[t]) + 1
      BY <3>2 DEF Longer
    <3> QED
      BY <2>3, <3>2, <3>3 DEF Longer
  <2> QED
    BY <2>2, <2>3
<1>5. readFile[j.file][j.n] \in ImportedEntries
  BY <1>1, EntryOfFile, ImportsMade DEF JobTyped, Imported
<1>6. FromEntries(db, ImportedEntries)
  BY DEF TraceInv
<1> HIDE DEF j
<1>7. ASSUME ImportedEntries \subseteq ImportedEntries' PROVE FromEntries(db', ImportedEntries')
  BY <1>1, <1>4, <1>5, <1>6, <1>7, FromEntriesGrows
<1> QED
  BY <1>2, <1>3, <1>7 DEF TraceStep, Traced

LEMMA ReturnTrace ==
  ASSUME ImportInv, TablesStep, TraceStep, NEW c \in Clients, job[c] # None,
         NEW id, NEW failed, Returned(db', job[c], id, failed), Continue(c, id, failed)
  PROVE  TraceInv'
<1>1. DOMAIN job = Clients
  BY DEF ImportInv
<1>2. FinishedStored(db', finished') /\ Traced(db', finished', job')
  BY <1>1, ContinueTrace DEF TablesStep, TraceStep
<1>3. FromEntries(db', ImportedEntries')
  BY <1>1, ContinueKept DEF TraceStep
<1> QED
  BY <1>2, <1>3 DEF TraceInv, Traced

LEMMA CreateTrace ==
  ASSUME ImportInv, TraceInv, NEW c \in Clients, Create(c) PROVE TraceInv'
<1> DEFINE j == job[c]
<1>1. /\ job[c] # None /\ job[c].lookups = {} /\ TablesOK(db, seen)
      /\ JobOK(db, j) /\ j.failed \in BOOLEAN /\ j.table \in Tables
  BY DEF Create, ImportInv, JobOK, JobTyped
<1>2. UNCHANGED <<db, seen>> => TablesStep /\ TraceStep
  BY DEF ImportInv, TraceInv, TablesStep, TraceStep, Traced, FromEntries
<1>3. CASE /\ InsertRow(j.table, j.msg, j.seen)
           /\ Continue(c, Len(db'[j.table]), j.failed)
  <2>1. /\ TablesStep /\ TraceStep /\ Len(db'[j.table]) \in DOMAIN db'[j.table]
        /\ db'[j.table][Len(db'[j.table])] = j.msg /\ Grows(db, db')
    BY <1>1, <1>3, InsertStep, InsertTrace
  <2>2. Len(db'[j.table]) \in Int
    BY <1>1, <2>1 DEF Grows
  <2>3. Returned(db', j, Len(db'[j.table]), j.failed)
    BY <1>1, <2>1, <2>2 DEF Returned, Gets
  <2> QED
    BY <1>1, <1>3, <2>1, <2>3, ReturnTrace
<1>4. CASE /\ ~ Insertable(j.table, j.msg)
           /\ Continue(c, NoId, j.failed)
           /\ UNCHANGED <<db, seen>>
  <2>1. Refused(db, j)
    BY <1>4 DEF Insertable, Refused
  <2>2. Returned(db', j, NoId, j.failed)
    BY <1>1, <1>4, <2>1, RefusedReturned
  <2> QED
    BY <1>1, <1>2, <1>4, <2>2, ReturnTrace
<1>5. CASE /\ Continue(c, NoId, TRUE)
           /\ \/ InsertRow(j.table, j.msg, j.seen)
              \/ UNCHANGED <<db, seen>>
  <2>1. TablesStep /\ TraceStep
    BY <1>1, <1>2, <1>5, InsertStep, InsertTrace
  <2>2. Returned(db', j, NoId, TRUE)
    BY DEF Returned, NoId
  <2> QED
    BY <1>1, <1>5, <2>1, <2>2, ReturnTrace
<1> QED
  BY <1>3, <1>4, <1>5 DEF Create

LEMMA NextTrace ==
  ASSUME ImportInv, TraceInv, [Next]_vars PROVE TraceInv'
<1>1. CASE UNCHANGED vars
  BY <1>1 DEF TraceInv, vars, ImportedEntries
<1> QED
  BY <1>1, BrowseTrace, FindTrace, CreateTrace DEF Next

(* In every state that can be reached, every row was the message of an     *)
(* entry, and imports know what was got for the entries before.            *)
THEOREM TraceInvariant == Spec => [](ImportInv /\ TraceInv)
<1>1. ImportInv /\ TraceInv /\ [Next]_vars => (ImportInv /\ TraceInv)'
  BY NextImport, NextTrace
<1> QED
  BY <1>1, InitImport, InitTrace, PTL DEF Spec

-----------------------------------------------------------------------------
(* Rows that entries identify.                                             *)

(* The key by which a message of t is known.                               *)
KeyOf(t, msg) ==
  CASE t = "driver" -> {"first_name", "last_name"}
    [] t = "car_class" -> {"name"} \cup ({"subclass_name"} \cap DOMAIN msg)
    [] t = "car" -> {"model", "car_class_id", "driver_id"} \cup ({"color"} \cap DOMAIN msg)
    [] OTHER -> {"event_id", "driver_id", "car_id"}

LEMMA KeyIsLookup ==
  ASSUME NEW t \in Tables, NEW msg
  PROVE  /\ KeyOf(t, msg) \subseteq DOMAIN msg => KeyOf(t, msg) \in Lookups(t, msg)
         /\ t # "driver" /\ PrimaryKey[t] \notin DOMAIN msg =>
              \A F \in Lookups(t, msg) : F = KeyOf(t, msg)
<1>1. CASE t = "driver"
  <2>1. {"first_name", "last_name"} \in ToSet(DriverKeys) /\ Keys(t, msg) = DriverKeys
    BY <1>1 DEF DriverKeys, ToSet, Keys
  <2> QED
    BY <1>1, <2>1 DEF KeyOf, Lookups
<1>2. CASE t = "car_class"
  <2>1. Keys(t, msg) = CarClassKeys(msg) /\ PrimaryKey[t] = "car_class_id"
    BY <1>2 DEF Keys, PrimaryKey
  <2>2. ToSet(CarClassKeys(msg)) =
          {{"car_class_id"}, {"name"} \cup ({"subclass_name"} \cap DOMAIN msg)}
    BY DEF CarClassKeys, ToSet
  <2> QED
    BY <1>2, <2>1, <2>2 DEF KeyOf, Lookups
<1>3. CASE t = "car"
  <2>1. Keys(t, msg) = CarKeys(msg) /\ PrimaryKey[t] = "car_id"
    BY <1>3 DEF Keys, PrimaryKey
  <2>2. ToSet(CarKeys(msg)) =
          {{"car_id"}, {"model", "car_class_id", "driver_id"} \cup ({"color"} \cap DOMAIN msg)}
    BY DEF CarKeys, ToSet
  <2> QED
    BY <1>3, <2>1, <2>2 DEF KeyOf, Lookups
<1>4. CASE t = "event_registration"
  <2>1. Keys(t, msg) = EventRegistrationKeys /\ PrimaryKey[t] = "event_registration_id"
    BY <1>4 DEF Keys, PrimaryKey
  <2>2. ToSet(EventRegistrationKeys) = {{"event_registration_id"}, {"event_id", "driver_id", "car_id"}}
    BY DEF EventRegistrationKeys, ToSet
  <2> QED
    BY <1>4, <2>1, <2>2 DEF KeyOf, Lookups
<1> QED
  BY <1>1, <1>2, <1>3, <1>4 DEF Tables

LEMMA LikeNumber ==
  ASSUME NEW f \in IdFields, NEW x, NEW y
  PROVE  f \notin StringFields /\ (Like(f, x, y) <=> x = y)
BY DEF IdFields, StringFields, Like

(* An entry that was read from a file, among others with which it says     *)
(* what it means.                                                          *)
Means(entries, e) ==
  /\ Identifying(entries) /\ e \in entries
  /\ \A o \in entries : \E row : o = Entry(row)

LEMMA Meaning ==
  ASSUME NEW entries, NEW e, Means(entries, e), NEW t \in Tables, NEW event, NEW ids,
         NEW msg, msg = Message(t, e, event, ids)
  PROVE  /\ MessageOK(t, e, event, ids, msg)
         /\ DOMAIN e[t] \cap IdFields = {} /\ IdsOf(t) \subseteq IdFields
         /\ PrimaryKey[t] \notin DOMAIN msg
         /\ KeyOf(t, msg) \in Lookups(t, msg)
         /\ \A f \in DOMAIN msg : Like(f, msg[f], msg[f])
<1>1. PICK row : e = Entry(row)
  BY DEF Means
<1>2. MessageOK(t, e, event, ids, msg) /\ DOMAIN e[t] \cap IdFields = {}
  BY <1>1, MessageFields, EntryFields
<1>3. IdsOf(t) \subseteq IdFields /\ PrimaryKey[t] \in IdFields \ IdsOf(t)
  BY DEF IdsOf, IdFields, PrimaryKey, Tables
<1>4. PrimaryKey[t] \notin DOMAIN msg
  BY <1>2, <1>3 DEF MessageOK
<1>5. Complete(e) /\ "model" \in DOMAIN e.car /\ wherePrototype(e[t], e[t])
  BY DEF Means, Identifying
<1>6. KeyOf(t, msg) \subseteq DOMAIN msg
  BY <1>2, <1>5 DEF MessageOK, KeyOf, Complete, NotNull, IdsOf, Tables
<1>7. ASSUME NEW f \in DOMAIN msg PROVE Like(f, msg[f], msg[f])
  <2>1. CASE f \in DOMAIN e[t]
    BY <1>2, <1>5, <2>1 DEF MessageOK, wherePrototype
  <2>2. CASE f \in IdsOf(t)
    BY <1>3, <2>2, LikeNumber
  <2> QED
    BY <1>2, <2>1, <2>2 DEF MessageOK
<1> QED
  BY <1>2, <1>3, <1>4, <1>6, <1>7, KeyIsLookup

(* Whatever was got can be found.                                          *)
LEMMA GotIsFound ==
  ASSUME NEW entries, NEW e, Means(entries, e), NEW t \in Tables, NEW event, NEW ids,
         NEW msg, msg = Message(t, e, event, ids), NEW d, NEW id, Gets(d, t, msg, id)
  PROVE  \E F \in Lookups(t, msg) : wherePrototype(d[t][id], Restrict(msg, F))
<1>1. CASE d[t][id] = msg
  <2> DEFINE F == KeyOf(t, msg)
  <2>1. F \in Lookups(t, msg) /\ \A f \in DOMAIN msg : Like(f, msg[f], msg[f])
    BY Meaning
  <2> HIDE DEF F
  <2>2. F \subseteq DOMAIN msg
    BY <2>1 DEF Lookups
  <2>3. DOMAIN Restrict(msg, F) = F /\ \A f \in F : Restrict(msg, F)[f] = msg[f]
    BY DEF Restrict
  <2>4. wherePrototype(msg, Restrict(msg, F))
    BY <2>1, <2>2, <2>3 DEF wherePrototype
  <2> QED
    BY <1>1, <2>1, <2>4
<1> QED
  BY <1>1 DEF Gets

(* The row of an entry o that is found for entry e agrees with it on the   *)
(* whole key, and is known by the same one.                                *)
LEMMA FoundByKey ==
  ASSUME NEW entries, NEW e, Means(entries, e), NEW o \in entries,
         NEW t \in Tables \ {"event_registration"},
         NEW event, NEW ids, NEW msg, msg = Message(t, e, event, ids),
         NEW old, NEW others, NEW row, row = Message(t, o, old, others),
         NEW F \in Lookups(t, msg), wherePrototype(row, Restrict(msg, F))
  PROVE  /\ KeyOf(t, msg) \in Lookups(t, row) /\ KeyOf(t, msg) \subseteq DOMAIN row
         /\ \A f \in KeyOf(t, msg) : Like(f, row[f], msg[f])
<1>1. Means(entries, o)
  BY DEF Means
<1>2. /\ MessageOK(t, e, event, ids, msg) /\ DOMAIN e[t] \cap IdFields = {}
      /\ IdsOf(t) \subseteq IdFields /\ PrimaryKey[t] \notin DOMAIN msg
      /\ KeyOf(t, msg) \in Lookups(t, msg) /\ \A f \in DOMAIN msg : Like(f, msg[f], msg[f])
  BY Meaning
<1>3. MessageOK(t, o, old, others, row) /\ KeyOf(t, row) \in Lookups(t, row)
  BY <1>1, Meaning
<1>4. DOMAIN Restrict(msg, F) = F /\ \A f \in F : Restrict(msg, F)[f] = msg[f]
  BY DEF Restrict
<1>5. \A f \in F : f \in DOMAIN row /\ Like(f, row[f], msg[f])
  BY <1>4 DEF wherePrototype
<1>6. F \subseteq DOMAIN msg /\ KeyOf(t, msg) \subseteq DOMAIN msg
  BY <1>2 DEF Lookups
<1>7. /\ \A S \in Lookups("driver", e.driver) :
           wherePrototype(o["driver"], Restrict(e["driver"], S)) =>
             SameKey(o.driver, e.driver, {"first_name", "last_name"})
      /\ wherePrototype(o["car_class"], Restrict(e["car_class"], {"name"})) =>
           DOMAIN e.car_class = DOMAIN o.car_class
      /\ wherePrototype(o["car"], Restrict(e["car"], {"model"})) =>
           ("color" \in DOMAIN e.car <=> "color" \in DOMAIN o.car)
  BY DEF Means, Identifying
<1>8. CASE t = "driver"
  <2>1. msg = e["driver"] /\ row = o["driver"]
    BY <1>8 DEF Message
  <2>2. SameKey(row, msg, {"first_name", "last_name"})
    BY <1>7, <1>8, <2>1
  <2>3. KeyOf(t, msg) = {"first_name", "last_name"} /\ KeyOf(t, row) = KeyOf(t, msg)
    BY <1>8 DEF KeyOf
  <2> QED
    BY <1>2, <1>3, <1>6, <2>2, <2>3 DEF SameKey
<1>9. CASE t = "car_class"
  <2>1. F = KeyOf(t, msg) /\ "name" \in F
    <3>1. F = KeyOf(t, msg)
      BY <1>2, <1>9, KeyIsLookup
    <3> QED
      BY <1>9, <3>1 DEF KeyOf
  <2>2. "name" \in DOMAIN row /\ "name" \in DOMAIN msg /\ Like("name", row["name"], msg["name"])
    BY <1>5, <1>6, <2>1
  <2>3. "name" \in DOMAIN e[t] /\ "name" \in DOMAIN o[t] /\ row["name"] = o[t]["name"] /\ msg["name"] = e[t]["name"]
    BY <1>2, <1>3, <1>9, <2>2 DEF MessageOK, IdsOf
  <2>4. wherePrototype(o[t], Restrict(e[t], {"name"}))
    BY <2>2, <2>3 DEF wherePrototype, Restrict
  <2>5. DOMAIN e[t] = DOMAIN o[t]
    BY <1>7, <1>9, <2>4
  <2>6. KeyOf(t, row) = KeyOf(t, msg)
    BY <1>2, <1>3, <1>9, <2>5 DEF KeyOf, MessageOK
  <2> QED
    BY <1>3, <1>5, <2>1, <2>6
<1>10. CASE t = "car"
  <2>1. F = KeyOf(t, msg) /\ "model" \in F
    <3>1. F = KeyOf(t, msg)
      BY <1>2, <1>10, KeyIsLookup
    <3> QED
      BY <1>10, <3>1 DEF KeyOf
  <2>2. "model" \in DOMAIN row /\ "model" \in DOMAIN msg /\ Like("model", row["model"], msg["model"])
    BY <1>5, <1>6, <2>1
  <2>3. "model" \in DOMAIN e[t] /\ "model" \in DOMAIN o[t] /\ row["model"] = o[t]["model"] /\ msg["model"] = e[t]["model"]
    BY <1>2, <1>3, <1>10, <2>2 DEF MessageOK, IdsOf
  <2>4. wherePrototype(o[t], Restrict(e[t], {"model"}))
    BY <2>2, <2>3 DEF wherePrototype, Restrict
  <2>5. "color" \in DOMAIN e[t] <=> "color" \in DOMAIN o[t]
    BY <1>7, <1>10, <2>4
  <2>6. KeyOf(t, row) = KeyOf(t, msg)
    BY <1>2, <1>3, <1>10, <2>5 DEF KeyOf, MessageOK, IdsOf
  <2> QED
    BY <1>3, <1>5, <2>1, <2>6
<1> QED
  BY <1>8, <1>9, <1>10 DEF Tables

(* Without twins, an entry gets one row.                                   *)
LEMMA OneRow ==
  ASSUME NEW entries, NEW e, Means(entries, e), FromEntries(db, entries), NoTwins,
         NEW t \in Tables \ {"event_registration"},
         NEW event, NEW ids, NEW msg, msg = Message(t, e, event, ids),
         NEW i, NEW k, Gets(db, t, msg, i), Gets(db, t, msg, k)
  PROVE  i = k
<1>1. i \in DOMAIN db[t] /\ k \in DOMAIN db[t]
  BY DEF Gets
<1>2. PICK o \in entries, old \in Events, others \in [Tables -> Int] :
        db[t][i] = Message(t, o, old, others)
  BY <1>1 DEF FromEntries
<1>3. PICK p \in entries, past \in Events, theirs \in [Tables -> Int] :
        db[t][k] = Message(t, p, past, theirs)
  BY <1>1 DEF FromEntries
<1>4. PICK F \in Lookups(t, msg) : wherePrototype(db[t][i], Restrict(msg, F))
  BY GotIsFound
<1>5. PICK G \in Lookups(t, msg) : wherePrototype(db[t][k], Restrict(msg, G))
  BY GotIsFound
<1> DEFINE row == db[t][i]  twin == db[t][k]  K == KeyOf(t, msg)
<1>6. K \in Lookups(t, row) /\ K \subseteq DOMAIN row /\ \A f \in K : Like(f, row[f], msg[f])
  BY <1>2, <1>4, FoundByKey
<1>7. K \in Lookups(t, twin) /\ K \subseteq DOMAIN twin /\ \A f \in K : Like(f, twin[f], msg[f])
  BY <1>3, <1>5, FoundByKey
<1>8. Means(entries, o) /\ Means(entries, p)
  BY DEF Means
<1>9. /\ MessageOK(t, e, event, ids, msg) /\ MessageOK(t, o, old, others, row)
      /\ MessageOK(t, p, past, theirs, twin) /\ IdsOf(t) \subseteq IdFields
  BY <1>2, <1>3, <1>8, Meaning
<1>10. K \subseteq DOMAIN msg
  BY Meaning DEF Lookups
<1>11. \A f \in DOMAIN o[t] \cap DOMAIN p[t] \cap DOMAIN e[t] :
         Like(f, o[t][f], e[t][f]) /\ Like(f, p[t][f], e[t][f]) => Like(f, o[t][f], p[t][f])
  BY DEF Means, Identifying
<1> HIDE DEF row, twin, K
<1>12. ASSUME NEW f \in K PROVE Like(f, row[f], twin[f])
  <2>1. CASE f \in IdsOf(t)
    <3>1. row[f] = msg[f] /\ twin[f] = msg[f]
      BY <1>6, <1>7, <1>9, <2>1, LikeNumber
    <3> QED
      BY <1>9, <2>1, <3>1, LikeNumber
  <2>2. CASE f \notin IdsOf(t)
    <3>1. f \in DOMAIN o[t] \cap DOMAIN p[t] \cap DOMAIN e[t]
      BY <1>6, <1>7, <1>9, <1>10, <2>2 DEF MessageOK
    <3>2. row[f] = o[t][f] /\ twin[f] = p[t][f] /\ msg[f] = e[t][f]
      BY <1>9, <3>1 DEF MessageOK
    <3> QED
      BY <1>6, <1>7, <1>11, <3>1, <3>2
  <2> QED
    BY <2>1, <2>2
<1>13. SameKey(row, twin, K)
  BY <1>6, <1>12 DEF SameKey
<1> QED
  BY <1>1, <1>7, <1>13 DEF NoTwins, row, twin

(* An import of a file again has the IDs of the one before.                *)
LEMMA SameIds ==
  ASSUME NEW entries, NEW e, Means(entries, e), FromEntries(db, entries), NoTwins,
         NEW t \in Tables, NEW event, NEW ids, NEW before,
         GetsAll(db, e, event, ids, Preceding[t]), GetsAll(db, e, event, before, Preceding[t])
  PROVE  \A u \in Preceding[t] : ids[u] = before[u]
<1>1. ASSUME NEW u \in Preceding[t], \A v \in Preceding[u] : ids[v] = before[v]
      PROVE  ids[u] = before[u]
  <2>1. u \in Tables \ {"event_registration"}
    BY DEF Preceding, Tables
  <2>2. Message(u, e, event, ids) = Message(u, e, event, before)
    BY <1>1, <2>1, SameMessage
  <2>3. /\ Gets(db, u, Message(u, e, event, ids), ids[u])
        /\ Gets(db, u, Message(u, e, event, ids), before[u])
    BY <2>2 DEF GetsAll
  <2> QED
    BY <2>1, <2>3, OneRow
<1>2. Preceding["driver"] = {} /\ Preceding["car_class"] = {"driver"}
      /\ Preceding["car"] = {"driver", "car_class"}
  BY DEF Preceding
<1>3. "driver" \in Preceding[t] => ids["driver"] = before["driver"]
  BY <1>1, <1>2
<1>4. /\ Preceding[t] \subseteq {"driver", "car_class", "car"}
      /\ Preceding[t] # {} => "driver" \in Preceding[t]
      /\ "car" \in Preceding[t] => "car_class" \in Preceding[t]
  BY DEF Preceding, Tables
<1>5. "car_class" \in Preceding[t] => ids["car_class"] = before["car_class"]
  BY <1>1, <1>2, <1>3, <1>4
<1>6. "car" \in Preceding[t] => ids["car"] = before["car"]
  BY <1>1, <1>2, <1>3, <1>4, <1>5
<1> QED
  BY <1>3, <1>4, <1>5, <1>6

LEMMA AgainFinds ==
  ASSUME ImportInv, TraceInv, NEW c \in Clients, job[c] # None,
         job[c].again, ~ job[c].failed, job[c].lookups = {},
         Identifying(ImportedEntries), NoTwins
  PROVE  ~ Insertable(job[c].table, job[c].msg)
<1> DEFINE j == job[c]
           e == readFile[j.file][j.n]
<1>1. /\ j.file \in Files /\ j.n \in DOMAIN j.file /\ j.table \in Tables /\ j.event \in Events
      /\ j.msg = Message(j.table, e, j.event, j.ids)
      /\ MessageOK(j.table, Entry(j.file[j.n]), j.event, j.ids, j.msg)
  BY JobMessage DEF ImportInv, JobOK, JobTyped
<1>2. e \in ImportedEntries
  BY <1>1, EntryOfFile, ImportsMade DEF Imported
<1>3. \A o \in ImportedEntries : \E row : o = Entry(row)
  <2> SUFFICES ASSUME NEW o, Imported(o, finished, job) PROVE \E row : o = Entry(row)
    BY ImportsMade
  <2>1. PICK file \in Files : o \in ToSet(readFile[file])
    <3>1. ASSUME NEW x \in finished PROVE x[1] \in Files
      BY DEF ImportInv, FinishedOK
    <3>2. \A k \in Clients : job[k] # None => job[k].file \in Files
      BY DEF ImportInv, JobOK, JobTyped
    <3> QED
      BY <3>1, <3>2 DEF Imported
  <2>2. PICK n \in DOMAIN file : o = readFile[file][n]
    <3>1. DOMAIN readFile[file] = DOMAIN file
      BY DEF readFile
    <3> QED
      BY <2>1, <3>1 DEF ToSet
  <2> QED
    BY <2>2, EntryRead
<1>4. Means(ImportedEntries, e) /\ Complete(e)
  BY <1>2, <1>3 DEF Means, Identifying
<1>5. GetsAll(db, e, j.event, j.ids, Preceding[j.table]) /\ FromEntries(db, ImportedEntries)
  BY <1>4 DEF TraceInv, JobTrace
<1>6. PICK w \in [Tables -> Int] :
        GetsAll(db, e, j.event, w, Storing(j.event)) /\ NotFound(db, j, w)
  BY <1>4 DEF TraceInv, JobTrace
<1>7. Preceding[j.table] \subseteq Storing(j.event)
  BY <1>1 DEF Preceding, Storing, Tables
<1> SUFFICES ASSUME Insertable(j.table, j.msg) PROVE FALSE
  OBVIOUS
<1>8. j.table \in Storing(j.event)
  <2>1. ASSUME j.table = "event_registration" PROVE j.event # EventOfNoRow
    <3>1. j.msg["event_id"] = j.event
      BY <1>1, <2>1 DEF MessageOK
    <3> QED
      BY <2>1, <3>1 DEF Insertable
  <2> QED
    BY <1>1, <2>1 DEF Storing
<1> HIDE DEF e, j
<1>9. GetsAll(db, e, j.event, w, Preceding[j.table])
  BY <1>6, <1>7 DEF GetsAll
<1>10. \A u \in Preceding[j.table] : j.ids[u] = w[u]
  BY <1>1, <1>4, <1>5, <1>9, SameIds
<1>11. Message(j.table, e, j.event, w) = j.msg
  BY <1>1, <1>10, SameMessage
<1>12. Gets(db, j.table, j.msg, w[j.table])
  BY <1>6, <1>8, <1>11 DEF GetsAll
<1>13. PICK F \in Lookups(j.table, j.msg) :
         wherePrototype(db[j.table][w[j.table]], Restrict(j.msg, F))
  BY <1>1, <1>4, <1>12, GotIsFound
<1> QED
  BY <1>6, <1>8, <1>13 DEF NotFound, j

(* browseClicked: an import of a file that was imported into the event     *)
(* before finds, key by key, what that one got, whoever imported what in   *)
(* between, if the rows of the files say what they mean and no race has    *)
(* left twins: it creates nothing.                                         *)
THEOREM AgainCreatesNothing == Spec => ReimportCreatesNothing
<1> DEFINE Nothing ==
      \A c \in Clients :
        /\ job[c] # None /\ job[c].again /\ ~ job[c].failed
        /\ Identifying(ImportedEntries) /\ NoTwins
        /\ job'[c] # job[c]
        => db' = db
<1>1. ASSUME ImportInv, TraceInv, [Next]_vars PROVE [Nothing]_vars
  <2>1. CASE UNCHANGED vars
    BY <2>1 DEF vars
  <2>2. ASSUME NEW k \in Clients, NEW file \in Files, NEW event \in Events, browseClicked(k, file, event)
        PROVE  db' = db
    BY <2>2 DEF browseClicked
  <2>3. ASSUME NEW k \in Clients, Find(k) PROVE db' = db
    BY <2>3 DEF Find
  <2>4. ASSUME NEW k \in Clients, Create(k), NEW c \in Clients,
               job[c] # None, job[c].again, ~ job[c].failed,
               Identifying(ImportedEntries), NoTwins, job'[c] # job[c]
        PROVE  db' = db
    <3>1. k = c
      <4>1. DOMAIN job = Clients
        BY <1>1 DEF ImportInv
      <4>2. \E l : job' = [job EXCEPT ![k] = l]
        BY <2>4 DEF Create, Continue
      <4> QED
        BY <2>4, <4>1, <4>2
    <3>2. ~ Insertable(job[c].table, job[c].msg)
      BY <1>1, <2>4, <3>1, AgainFinds DEF Create
    <3> QED
      BY <2>4, <3>1, <3>2 DEF Create, InsertRow
  <2>5. CASE Next
    BY <2>2, <2>3, <2>4, <2>5 DEF Next
  <2> QED
    BY <1>1, <2>1, <2>5
<1> QED
  BY <1>1, TraceInvariant, PTL DEF Spec, ReimportCreatesNothing
=============================================================================
