---------------------------- MODULE EventImport -----------------------------
(***************************************************************************)
(* ui/EventImportDialog.cpp, codec/MotorsportRegCodec.cpp and the models'  *)
(* createIfNotExists: importing a registration file into an event.  Each   *)
(* entry of the file is looked up, and created if it is not there, in four *)
(* tables in turn; the IDs found go into the next table's message.  Every  *)
(* query is a step of its own: there is no transaction and no unique key,  *)
(* and other programs import at the same time.                             *)
(*                                                                         *)
(* Messages and rows are partial functions from fields to values; a field  *)
(* that is not set, or NULL, is not in the domain.  IDs are numbered in    *)
(* the order of insertion.  Columns that no lookup reads and no constraint *)
(* names (amounts, sponsor, tires) are left out.                           *)
(***************************************************************************)
EXTENDS Integers, Sequences, FiniteSets, SequencesExt, FiniteSetsExt, Functions

CONSTANTS
  Clients,
  Files,           \* CSV files: sequences of rows, functions from columns to cells
  Events,          \* events of the form; EventOfNoRow is one that was never stored
  EventOfNoRow,
  OrganizationOf,  \* the organization of each event
  Numbers,         \* cells that convert to a number
  Empty,           \* an empty cell
  Likes,           \* texts whose ILIKE is not equality, with what they match:
                   \*   nothing, if the statement fails
  MaxImports,      \* bounds: files imported, one that starts during another
                   \*   import counted twice,
  MaxFailures      \*   queries that fail

ASSUME ImportAssumption ==
  /\ IsFiniteSet(Clients)
  /\ OrganizationOf \in [Events -> Nat]
  /\ EventOfNoRow \in Events
  /\ \A f \in Files : Len(f) \in Nat \ {0} /\ DOMAIN f = 1..Len(f)
  /\ {MaxImports, MaxFailures} \subseteq Nat

VARIABLES
  db,        \* db[t]: the rows of table t, in the order of their IDs
  seen,      \* seen[t][i]: when row i was created, how many rows each of the
             \*   lookups before had read (history)
  job,       \* job[c]: the import client c is executing, or None
  imports,   \* files imported so far, counted against MaxImports
  finished,  \* imports that came to their end, and whether no query failed (history)
  failures   \* queries that failed so far

vars == <<db, seen, job, imports, finished, failures>>

NoId == -1

(* No import is under way.                                                 *)
None == [table |-> "none"]

-----------------------------------------------------------------------------
(* The tables.                                                             *)

Tables == {"driver", "car_class", "car", "event_registration"}

PrimaryKey ==
  [driver |-> "driver_id", car_class |-> "car_class_id", car |-> "car_id",
   event_registration |-> "event_registration_id"]

NotNull ==
  [driver |-> {"first_name", "last_name"},
   car_class |-> {"name", "organization_id"},
   car |-> {"car_number", "car_class_id", "driver_id", "organization_id"},
   event_registration |-> {"event_id", "driver_id", "car_id"}]

References(t) ==
  CASE t = "car" -> {"car_class", "driver"}
    [] t = "event_registration" -> {"driver", "car"}
    [] OTHER -> {}

(* Fault of Insertable: car has no foreign keys.                           *)
FaultNoForeignKey(t, row) ==
  /\ NotNull[t] \subseteq DOMAIN row
  /\ t # "car" => \A u \in References(t) : row[PrimaryKey[u]] \in DOMAIN db[u]
  /\ t = "event_registration" => row.event_id \in Events \ {EventOfNoRow}

Insertable(t, row) ==
  /\ NotNull[t] \subseteq DOMAIN row
  /\ \A u \in References(t) : row[PrimaryKey[u]] \in DOMAIN db[u]
  /\ t = "event_registration" => row.event_id \in Events \ {EventOfNoRow}

(* String fields are compared with ILIKE, the text pasted between quotes:  *)
(* case does not count, % and _ are wildcards, and a text with a quote in  *)
(* it makes a statement that fails.  Numbers are compared with =.          *)
StringFields ==
  {"first_name", "last_name", "scca_id", "msr_id", "email", "phone_number",
   "name", "subclass_name", "model", "color"}

Like(field, value, text) ==
  IF field \in StringFields /\ text \in DOMAIN Likes THEN value \in Likes[text]
  ELSE value = text

(* Fault of wherePrototype: the conditions joined by OR.                   *)
FaultWhereAny(row, prototype) ==
  \E f \in DOMAIN prototype \cap DOMAIN row : Like(f, row[f], prototype[f])

wherePrototype(row, prototype) ==
  \A f \in DOMAIN prototype : f \in DOMAIN row /\ Like(f, row[f], prototype[f])

WellFormed(prototype) ==
  \A f \in DOMAIN prototype \cap StringFields :
    prototype[f] \in DOMAIN Likes => Likes[prototype[f]] # {}

Found(t, prototype) == {i \in DOMAIN db[t] : wherePrototype(db[t][i], prototype)}

-----------------------------------------------------------------------------
(* Reading the file.  Columns that are not in COLUMN_MAP are skipped.      *)

COLUMN_MAP ==
  [driver |-> {<<"First Name", "first_name">>, <<"Last Name", "last_name">>,
               <<"Member #", "scca_id">>, <<"Email #1", "email">>, <<"Cell", "phone_number">>},
   car_class |-> {<<"Class", "name">>},
   car |-> {<<"Number", "car_number">>, <<"Car Model", "model">>, <<"Car Color", "color">>},
   event_registration |-> {}]

(* A text that is no number sets a number field to 0.                      *)
setFieldVariant(field, cell) ==
  IF field = "car_number" /\ cell \notin Numbers THEN 0 ELSE cell

(* The fields of table t that the row sets: those with a cell in it.       *)
Parsed(t, row) ==
  LET columns == {m \in COLUMN_MAP[t] : m[1] \in DOMAIN row /\ row[m[1]] # Empty}
      column(f) == (CHOOSE m \in columns : m[2] = f)[1]
  IN  [f \in {m[2] : m \in columns} |-> setFieldVariant(f, row[column(f)])]

(* A cell of Class is the sequence of its parts between the dashes: the    *)
(* first is the name, what follows the first dash the subclass.  The name  *)
(* is set even if it is empty.                                             *)
ParsedClass(row) ==
  IF "Class" \notin DOMAIN row THEN <<>>
  ELSE IF Len(row["Class"]) = 1 THEN [name |-> row["Class"][1]]
  ELSE [name |-> Head(row["Class"]), subclass_name |-> Tail(row["Class"])]

Entry(row) ==
  [t \in Tables |-> IF t = "car_class" THEN ParsedClass(row) ELSE Parsed(t, row)]

(* The entries of each file.                                               *)
readFile == [file \in Files |-> [i \in DOMAIN file |-> Entry(file[i])]]

-----------------------------------------------------------------------------
(* The messages of an entry, with the IDs known so far.                    *)

(* The fields of set, and those of message that are not among them.        *)
Merge(set, message) ==
  [f \in DOMAIN set \cup DOMAIN message |-> IF f \in DOMAIN set THEN set[f] ELSE message[f]]

Message(t, entry, event, ids) ==
  CASE t = "car_class" -> Merge([organization_id |-> OrganizationOf[event]], entry[t])
    [] t = "car" -> Merge([organization_id |-> OrganizationOf[event],
                           car_class_id |-> ids.car_class, driver_id |-> ids.driver], entry[t])
    [] t = "event_registration" -> Merge([event_id |-> event, driver_id |-> ids.driver,
                                          car_id |-> ids.car], entry[t])
    [] OTHER -> entry[t]

(* The fields by which createIfNotExists looks for a message, in order;    *)
(* it skips those of which the message has not all.                        *)
DriverKeys ==
  <<{"driver_id"}, {"scca_id"}, {"msr_id"}, {"first_name", "last_name"},
    {"email"}, {"phone_number"}>>

CarClassKeys(msg) ==
  <<{"car_class_id"}, {"name"} \cup ({"subclass_name"} \cap DOMAIN msg)>>

(* Fault of CarKeys: the car of any driver.                                *)
FaultCarKeys(msg) ==
  <<{"car_id"}, {"model", "car_class_id"} \cup ({"color"} \cap DOMAIN msg)>>

CarKeys(msg) ==
  <<{"car_id"}, {"model", "car_class_id", "driver_id"} \cup ({"color"} \cap DOMAIN msg)>>

(* Fault of EventRegistrationKeys: only the primary key is looked for.     *)
FaultRegistrationKeys == <<{"event_registration_id"}>>

EventRegistrationKeys == <<{"event_registration_id"}, {"event_id", "driver_id", "car_id"}>>

Keys(t, msg) ==
  CASE t = "driver" -> DriverKeys
    [] t = "car_class" -> CarClassKeys(msg)
    [] t = "car" -> CarKeys(msg)
    [] OTHER -> EventRegistrationKeys

Lookups(t, msg) == {fields \in ToSet(Keys(t, msg)) : fields \subseteq DOMAIN msg}

Before(t, msg, fields, others) ==
  \E i, k \in DOMAIN Keys(t, msg) : i <= k /\ Keys(t, msg)[i] = fields /\ Keys(t, msg)[k] = others

-----------------------------------------------------------------------------
(* The import of one client.                                               *)

NoIds == [t \in Tables |-> NoId]

(* The import of file, about to look row n up in table t.                  *)
Stage(file, event, n, t, ids, failed, again) ==
  LET msg == Message(t, readFile[file][n], event, ids)
  IN  [file |-> file, event |-> event, n |-> n, table |-> t, ids |-> ids, msg |-> msg,
       lookups |-> Lookups(t, msg), seen |-> <<>>, failed |-> failed, again |-> again]

NextTable == [driver |-> "car_class", car_class |-> "car", car |-> "event_registration"]

Init ==
  /\ db = [t \in Tables |-> <<>>]
  /\ seen = [t \in Tables |-> <<>>]
  /\ job = [c \in Clients |-> None]
  /\ imports = 0
  /\ finished = {}
  /\ failures = 0

(* A file is chosen in the dialog of an event, and read.                   *)
browseClicked(c, file, event) ==
  /\ job[c] = None
  /\ imports' = imports + 1 + Cardinality({b \in Clients : job[b] # None})
  /\ imports' <= MaxImports
  /\ job' = [job EXCEPT ![c] =
               Stage(file, event, 1, "driver", NoIds, FALSE, <<file, event, TRUE>> \in finished)]
  /\ UNCHANGED <<db, seen, finished, failures>>

(* createIfNotExists returns: the ID is kept, and the next table, or the   *)
(* next entry, follows; an ID that was not obtained stops nothing.         *)
Continue(c, id, failed) ==
  LET j == job[c]
      ids == [j.ids EXCEPT ![j.table] = id]
  IN  IF j.table # "event_registration"
      THEN /\ job' = [job EXCEPT ![c] = Stage(j.file, j.event, j.n, NextTable[j.table],
                                              ids, failed, j.again)]
           /\ UNCHANGED finished
      ELSE IF j.n < Len(j.file)
      THEN /\ job' = [job EXCEPT ![c] = Stage(j.file, j.event, j.n + 1, "driver",
                                              NoIds, failed, j.again)]
           /\ UNCHANGED finished
      ELSE /\ job' = [job EXCEPT ![c] = None]
           /\ finished' = finished \cup {<<j.file, j.event, ~failed>>}

(* Fault of NextLookup: creating as soon as the first key is not found.    *)
FaultFirstKeyOnly(j, fields, read) ==
  [j EXCEPT !.lookups = {}, !.seen = Merge([F \in {fields} |-> read], @)]

(* Nothing was found by these fields; read is how many rows were looked at.*)
NextLookup(j, fields, read) ==
  [j EXCEPT !.lookups = @ \ {fields}, !.seen = Merge([F \in {fields} |-> read], @)]

(* A query may fail at any time.                                           *)
Fail == failures < MaxFailures /\ failures' = failures + 1

(* One find of createIfNotExists.  A caller cannot tell a query that       *)
(* failed from one that found nothing; of several rows any may be first.   *)
Find(c) ==
  /\ job[c] # None
  /\ LET j == job[c] IN
     \E fields \in j.lookups :
       LET prototype == Restrict(j.msg, fields)
           found == Found(j.table, prototype)
       IN  /\ \A others \in j.lookups : Before(j.table, j.msg, fields, others)
           /\ \/ /\ \E i \in found : Continue(c, i, j.failed)
                 /\ UNCHANGED failures
              \/ /\ found = {}
                 /\ job' = [job EXCEPT ![c] =
                              NextLookup(j, fields,
                                         IF WellFormed(prototype) THEN Len(db[j.table]) ELSE 0)]
                 /\ UNCHANGED <<finished, failures>>
              \/ /\ Fail
                 /\ job' = [job EXCEPT ![c] = [NextLookup(j, fields, 0) EXCEPT !.failed = TRUE]]
                 /\ UNCHANGED finished
  /\ UNCHANGED <<db, seen, imports>>

InsertRow(t, msg, read) ==
  /\ Insertable(t, msg)
  /\ db' = [db EXCEPT ![t] = Append(@, msg)]
  /\ seen' = [seen EXCEPT ![t] = Append(@, read)]

(* The create of createIfNotExists, when no lookup found anything.  The    *)
(* constraints may refuse the row, or the query fail with or without the   *)
(* row in the table.                                                       *)
Create(c) ==
  /\ job[c] # None
  /\ job[c].lookups = {}
  /\ LET j == job[c]
     IN  \/ /\ InsertRow(j.table, j.msg, j.seen)
            /\ Continue(c, Len(db'[j.table]), j.failed)
            /\ UNCHANGED failures
         \/ /\ ~Insertable(j.table, j.msg)
            /\ Continue(c, NoId, j.failed)
            /\ UNCHANGED <<db, seen, failures>>
         \/ /\ Fail
            /\ Continue(c, NoId, TRUE)
            /\ \/ InsertRow(j.table, j.msg, j.seen)
               \/ UNCHANGED <<db, seen>>
  /\ UNCHANGED imports

Next ==
  \E c \in Clients :
    \/ \E f \in Files, e \in Events : browseClicked(c, f, e)
    \/ Find(c)
    \/ Create(c)

Spec == Init /\ [][Next]_vars

-----------------------------------------------------------------------------
(* Properties.                                                             *)

TypeOK ==
  /\ DOMAIN db = Tables /\ DOMAIN seen = Tables
  /\ \A t \in Tables :
       /\ Len(seen[t]) = Len(db[t])
       /\ \A i \in DOMAIN db[t] : \A F \in DOMAIN seen[t][i] : seen[t][i][F] \in Nat
       /\ \A row \in ToSet(db[t]) :
            /\ NotNull[t] \subseteq DOMAIN row
            /\ \A u \in Tables \ {t} :
                 PrimaryKey[u] \in DOMAIN row => row[PrimaryKey[u]] \in DOMAIN db[u]
  /\ \A c \in Clients : job[c] # None =>
       /\ job[c].file \in Files /\ job[c].event \in Events
       /\ job[c].n \in DOMAIN job[c].file /\ job[c].table \in Tables
       /\ \A t \in Tables : job[c].ids[t] \in {NoId} \cup DOMAIN db[t]
  /\ finished \subseteq Files \X Events \X BOOLEAN
  /\ imports \in 0..MaxImports /\ failures \in 0..MaxFailures

(* Row and message agree on the fields of a key.                           *)
SameKey(row, msg, F) ==
  F \subseteq DOMAIN row /\ \A f \in F : row[f] = msg[f] \/ Like(f, row[f], msg[f])

(* A text with a backslash matches what it stands for, but not itself.     *)
Misread(field, text) ==
  /\ field \in StringFields /\ text \in DOMAIN Likes
  /\ Likes[text] # {} /\ text \notin Likes[text]

(* createIfNotExists of DriverModel, CarClassModel, CarModel and           *)
(* EventRegistrationModel: a second row with a key of an earlier one is    *)
(* only created when the lookup of that key read the table before the      *)
(* earlier row was in it, or failed, or when the key has a text that does  *)
(* not find itself.  There is no other way to a duplicate.                 *)
DuplicatesAreRaces ==
  \A t \in Tables : \A j \in DOMAIN db[t] : \A i \in 1..(j - 1) :
    \A F \in Lookups(t, db[t][j]) :
      /\ SameKey(db[t][i], db[t][j], F)
      /\ \A f \in F : Misread(f, db[t][j][f]) => db[t][i][f] # db[t][j][f]
      => F \in DOMAIN seen[t][j] /\ seen[t][j][F] < i

(* browseClicked: whatever is found, created, refused or lost on the way,  *)
(* and whoever else imports, a registration is for a car of its driver.    *)
RegistrationsOwnTheirCar ==
  \A r \in ToSet(db.event_registration) : db.car[r.car_id].driver_id = r.driver_id

(* An entry whose driver and car can be stored.                            *)
Complete(entry) ==
  /\ NotNull.driver \subseteq DOMAIN entry.driver
  /\ "name" \in DOMAIN entry.car_class
  /\ "car_number" \in DOMAIN entry.car

(* A registration of the event whose driver has one of the keys of the     *)
(* entry and whose car is the entry's model, if it names one.              *)
Registered(entry, event) ==
  \E r \in ToSet(db.event_registration) :
    /\ r.event_id = event
    /\ \E F \in Lookups("driver", entry.driver) :
         SameKey(db.driver[r.driver_id], entry.driver, F)
    /\ "model" \in DOMAIN entry.car =>
         SameKey(db.car[r.car_id], entry.car, {"model"})

(* browseClicked: an import in which no query failed leaves a registration *)
(* for every row that has the mandatory fields.                            *)
EveryRowRegistered ==
  \A file \in Files, event \in Events \ {EventOfNoRow} :
    <<file, event, TRUE>> \in finished =>
      \A entry \in ToSet(readFile[file]) : Complete(entry) => Registered(entry, event)

ImportedEntries ==
  UNION ({ToSet(readFile[x[1]]) : x \in finished} \cup
         {ToSet(readFile[job[c].file]) : c \in {b \in Clients : job[b] # None}})

(* Entries that say which driver, class and car they mean: one has the     *)
(* mandatory fields and a model; ILIKE finds what it has, and relates the  *)
(* texts of the entries as one that differs in nothing but case does, not  *)
(* as a wildcard does; a driver's key comes with one name only, a class    *)
(* name always or never with a subclass, a model always or never with a    *)
(* color.                                                                  *)
Identifying(entries) ==
  \A e, o \in entries :
    LET Finds(t, F) == wherePrototype(o[t], Restrict(e[t], F))
    IN  /\ Complete(e) /\ "model" \in DOMAIN e.car
        /\ e = o => \A t \in Tables : wherePrototype(o[t], e[t])
        /\ \A p \in entries, t \in Tables :
             \A f \in DOMAIN e[t] \cap DOMAIN o[t] \cap DOMAIN p[t] :
               Like(f, e[t][f], p[t][f]) /\ Like(f, o[t][f], p[t][f]) => Like(f, e[t][f], o[t][f])
        /\ \A F \in Lookups("driver", e.driver) :
             Finds("driver", F) => SameKey(o.driver, e.driver, {"first_name", "last_name"})
        /\ Finds("car_class", {"name"}) => DOMAIN e.car_class = DOMAIN o.car_class
        /\ Finds("car", {"model"}) => ("color" \in DOMAIN e.car <=> "color" \in DOMAIN o.car)

NoTwins ==
  \A t \in Tables : \A i, j \in DOMAIN db[t] : \A F \in Lookups(t, db[t][j]) :
    i # j => ~SameKey(db[t][i], db[t][j], F)

(* browseClicked: importing a file again into the event it was imported    *)
(* into creates nothing, whatever was imported in between, when the rows   *)
(* identify what they mean and no race has left twins.                     *)
ReimportCreatesNothing ==
  [][\A c \in Clients :
       /\ job[c] # None /\ job[c].again /\ ~job[c].failed
       /\ Identifying(ImportedEntries) /\ NoTwins
       /\ job'[c] # job[c]
       => db' = db]_vars
=============================================================================
