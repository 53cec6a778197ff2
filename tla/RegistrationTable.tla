-------------------------- MODULE RegistrationTable --------------------------
(***************************************************************************)
(* ui/RegistrationTableModel.cpp: the table of the selected event's        *)
(* registrations, where drivers are checked in, and the status bar of      *)
(* ui/RegistrationWidget.cpp that counts them.  An edit changes the row    *)
(* first and then the database, synchronously; its notification comes back *)
(* later, among those of other clients, while query results still arrive.  *)
(*                                                                         *)
(* A DataItem is identified with its registration, and rows are a set: the *)
(* row order is that of arrival, as in RunTable.  Drivers, cars and        *)
(* classes are abstracted to who points to which.  A registration has a    *)
(* version, so that staleness shows.                                       *)
(***************************************************************************)
EXTENDS Integers, Sequences, FiniteSets, SequencesExt

CONSTANTS
  Events, Regs, Drivers, Cars, Classes,      \* identifiers
  RegEvent, RegDriver, RegCar,               \* the columns of a registration
  ClassOf,                                   \* car_class_id of a car
  None,
  MaxSelections, MaxEdits,                   \* bounds on the user,
  MaxChanges, MaxFailures                    \* other clients and the database

ASSUME RegistrationAssumption ==
  /\ RegEvent \in [Regs -> Events] /\ RegDriver \in [Regs -> Drivers]
  /\ RegCar \in [Regs -> Cars] /\ ClassOf \in [Cars -> Classes]
  /\ IsFiniteSet(Regs)
  /\ None \notin Regs \cup Events \cup Drivers \cup Cars \cup Classes
  /\ MaxSelections \in Nat /\ MaxEdits \in Nat
  /\ MaxChanges \in Nat /\ MaxFailures \in Nat

VARIABLES
  db,           \* the event_registration table; version 0: not inserted
  changes,      \* changes made by other clients so far
  edits,        \* edits made by the user so far
  failures,     \* queries and updates that failed so far
  notifs,       \* notifications on their way to the UI thread, oldest first
  jobs,         \* queries on the pool: asked, or read and not yet delivered
  selections,   \* calls of setEventId so far
  mEventId,     \* None stands for -1
  mEventRegistrations,   \* the registrations that have a row
  item,         \* item[r]: the DataItem of r, when it has a row
  mDrivers,     \* mDrivers[d]: None or the row whose DataItem it is
  mCars,        \* likewise
  mCarClasses,  \* the classes in mCarClasses
  mNumCheckedInEntries,
  statusBar,    \* the last numEntriesChanged: entries and checked in
  seen,         \* history: newest version of a registration heard of since reset
  overtaken     \* history: rows set to an older version than had been heard of

clientVars == <<db, changes, edits, failures>>
mapVars == <<mDrivers, mCars, mCarClasses>>
countVars == <<mEventRegistrations, mNumCheckedInEntries, statusBar, seen, overtaken>>
vars == <<db, changes, edits, failures, notifs, jobs, selections, mEventId,
          mEventRegistrations, item, mDrivers, mCars, mCarClasses,
          mNumCheckedInEntries, statusBar, seen, overtaken>>

Versions == 0..(MaxChanges + MaxEdits + 1)
Row == [ver : Versions, in : BOOLEAN]
DataItem == [ver : Versions, in : BOOLEAN, driver : Drivers \cup {None},
             car : Cars \cup {None}, class : Classes \cup {None}]
NoItem == [ver |-> 0, in |-> FALSE, driver |-> None, car |-> None, class |-> None]
NoRow  == [ver |-> 0, in |-> FALSE]

Notification == [table : {"registration"}, id : Regs, row : Row]
                \cup [table : {"driver"}, id : Drivers, row : {NoRow}]
                \cup [table : {"car"}, id : Cars, row : {NoRow}]
                \cup [table : {"car_class"}, id : Classes, row : {NoRow}]
Job == [kind : {"registrations", "drivers", "cars", "classes"}, sel : 1..MaxSelections,
        event : Events, read : BOOLEAN, data : [Regs -> Row]]

TypeOK ==
  /\ db \in [Regs -> Row]
  /\ changes \in 0..MaxChanges /\ edits \in 0..MaxEdits /\ failures \in 0..MaxFailures
  /\ notifs \in Seq(Notification)
  /\ jobs \subseteq Job
  /\ selections \in 0..MaxSelections
  /\ mEventId \in Events \cup {None}
  /\ mEventRegistrations \subseteq Regs
  /\ item \in [Regs -> DataItem]
  /\ mDrivers \in [Drivers -> Regs \cup {None}]
  /\ mCars \in [Cars -> Regs \cup {None}]
  /\ mCarClasses \subseteq Classes
  /\ mNumCheckedInEntries \in Nat
  /\ statusBar \in [entries : Nat, in : Nat]
  /\ seen \in [Regs -> Versions]
  /\ overtaken \subseteq Regs

Init ==
  /\ db \in [Regs -> {NoRow, [ver |-> 1, in |-> FALSE], [ver |-> 1, in |-> TRUE]}]
  /\ changes = 0 /\ edits = 0 /\ failures = 0
  /\ notifs = <<>>
  /\ jobs = {}
  /\ selections = 0
  /\ mEventId = None
  /\ mEventRegistrations = {}
  /\ item = [r \in Regs |-> NoItem]
  /\ mDrivers = [d \in Drivers |-> None]
  /\ mCars = [c \in Cars |-> None]
  /\ mCarClasses = {}
  /\ mNumCheckedInEntries = 0
  /\ statusBar = [entries |-> 0, in |-> 0]
  /\ seen = [r \in Regs |-> 0] /\ overtaken = {}

-----------------------------------------------------------------------------
(* Other clients change the database; the trigger of each table notifies.  *)

Notify(table, id, row) == notifs' = Append(notifs, [table |-> table, id |-> id, row |-> row])

(* The row becomes in, in a new version.                                   *)
Write(r, in) ==
  /\ db' = [db EXCEPT ![r] = [ver |-> @.ver + 1, in |-> in]]
  /\ Notify("registration", r, [ver |-> db[r].ver + 1, in |-> in])

Commit ==
  /\ changes < MaxChanges
  /\ changes' = changes + 1
  /\ UNCHANGED <<edits, failures, jobs, selections, mEventId, item, mapVars, countVars>>

InsertRegistration(r) == Commit /\ db[r].ver = 0 /\ Write(r, FALSE)

CheckInElsewhere(r) == Commit /\ db[r].ver > 0 /\ Write(r, ~db[r].in)

TouchRelated ==
  /\ Commit
  /\ UNCHANGED db
  /\ \/ \E d \in Drivers : Notify("driver", d, NoRow)
     \/ \E c \in Cars : Notify("car", c, NoRow)
     \/ \E k \in Classes : Notify("car_class", k, NoRow)

-----------------------------------------------------------------------------
(* Queries: the four of a selection, as in RunTable.                       *)

Ask(kind, sel, event) ==
  [kind |-> kind, sel |-> sel, event |-> event, read |-> FALSE,
   data |-> [r \in Regs |-> NoRow]]

(* A query that fails is logged, and its result is the empty list.         *)
Outcome(result, full, empty) ==
  \/ result = full /\ UNCHANGED failures
  \/ result = empty /\ failures < MaxFailures /\ failures' = failures + 1

(* "WHERE event_id = ": the registrations of the event asked for.          *)
OfEvent(e) == [r \in Regs |-> IF RegEvent[r] = e THEN db[r] ELSE NoRow]

ReadRegistrations ==
  \E j \in jobs : \E snapshot \in {OfEvent(j.event), [r \in Regs |-> NoRow]} :
    /\ j.kind = "registrations" /\ ~j.read
    /\ Outcome(snapshot, OfEvent(j.event), [r \in Regs |-> NoRow])
    /\ jobs' = (jobs \ {j}) \cup {[j EXCEPT !.read = TRUE, !.data = snapshot]}
    /\ UNCHANGED <<db, changes, edits, notifs, selections, mEventId, item, mapVars,
                   countVars>>

-----------------------------------------------------------------------------
(* setEventId and reset.  reset leaves mNumCheckedInEntries as it is, and  *)
(* tells nobody that the rows are gone.                                    *)

reset ==
  /\ mEventRegistrations' = {}
  /\ item' = [r \in Regs |-> NoItem]
  /\ mDrivers' = [d \in Drivers |-> None]
  /\ mCars' = [c \in Cars |-> None]
  /\ mCarClasses' = {}
  /\ seen' = [r \in Regs |-> 0] /\ overtaken' = {}
  /\ UNCHANGED <<mNumCheckedInEntries, statusBar>>

setEventId(e) ==
  /\ selections < MaxSelections
  /\ selections' = selections + 1
  /\ mEventId' = e
  /\ reset
  /\ jobs' = jobs \cup {Ask("registrations", selections', e)}
  /\ UNCHANGED <<clientVars, notifs>>

-----------------------------------------------------------------------------
(* updateEventRegistration, for a set of registrations in any order; rows  *)
(* is what the message says of each.                                       *)

(* "only care about registrations of this event"                           *)
OfThisEvent(regs) == {r \in regs : RegEvent[r] = mEventId}

(* The last registration of the list for which column[r] = x.              *)
LastWith(list, column, x) == list[Max({i \in DOMAIN list : column[list[i]] = x})]

(* Faults of CheckedInChange: everything checked in counts; only rows that *)
(* were there count.                                                       *)
FaultCountAlways(touched, rows) == Cardinality({r \in touched : rows[r].in})

FaultCountOldRows(touched, rows) ==
  Cardinality({r \in touched \cap mEventRegistrations : rows[r].in /\ ~item[r].in})
  - Cardinality({r \in touched \cap mEventRegistrations : ~rows[r].in /\ item[r].in})

(* "only modify checked in entries when checked state changes": the change *)
(* is to what the DataItem had, unchecked for a new one.                   *)
CheckedInChange(touched, rows) ==
  Cardinality({r \in touched : rows[r].in /\ ~item[r].in})
  - Cardinality({r \in touched : ~rows[r].in /\ item[r].in})

(* numEntriesChanged, through the table widget to the status bar.          *)
EmitNumEntries ==
  statusBar' = [entries |-> Cardinality(mEventRegistrations'), in |-> mNumCheckedInEntries']

updateRegistrations(regs, rows) ==
  \E list \in SetToSeqs(OfThisEvent(regs)) :
  LET touched == ToSet(list) IN
  /\ mEventRegistrations' = mEventRegistrations \cup touched
  /\ item' = [r \in Regs |-> IF r \in touched
                             THEN [item[r] EXCEPT !.ver = rows[r].ver, !.in = rows[r].in]
                             ELSE item[r]]
  /\ mDrivers' = [d \in Drivers |-> IF \E r \in touched : RegDriver[r] = d
                                    THEN LastWith(list, RegDriver, d) ELSE mDrivers[d]]
  /\ mCars' = [c \in Cars |-> IF \E r \in touched : RegCar[r] = c
                              THEN LastWith(list, RegCar, c) ELSE mCars[c]]
  /\ mNumCheckedInEntries' = mNumCheckedInEntries + CheckedInChange(touched, rows)
  /\ IF touched = {} THEN UNCHANGED statusBar ELSE EmitNumEntries
  /\ overtaken' = (overtaken \ touched) \cup {r \in touched : rows[r].ver < seen[r]}

(* The newest version heard of, whether the row was there to take it.      *)
Hear(rows) ==
  seen' = [r \in Regs |-> IF rows[r].ver > seen[r] THEN rows[r].ver ELSE seen[r]]

-----------------------------------------------------------------------------
(* updateDriver and updateCar, for a set of them: the row in the map takes *)
(* the new message; without one it is lost.                                *)

WithDrivers(ds) ==
  [r \in Regs |-> IF \E d \in ds : mDrivers[d] = r
                  THEN [item[r] EXCEPT !.driver = CHOOSE d \in ds : mDrivers[d] = r]
                  ELSE item[r]]

WithCars(cs) ==
  [r \in Regs |-> IF \E c \in cs : mCars[c] = r
                  THEN [item[r] EXCEPT !.car = CHOOSE c \in cs : mCars[c] = r]
                  ELSE item[r]]

(* updateCarClasses, after the items became items: a row that mCars leads  *)
(* to points to the class of its car, when the class is known.             *)
WithClasses(items, classes) ==
  [r \in Regs |->
     IF (\E c \in Cars : mCars[c] = r) /\ items[r].car # None
          /\ ClassOf[items[r].car] \in classes
     THEN [items[r] EXCEPT !.class = ClassOf[items[r].car]] ELSE items[r]]

-----------------------------------------------------------------------------
(* Query results, on the UI thread.                                        *)

setEventRegistrations(j) ==
  /\ j.kind = "registrations" /\ j.read
  /\ updateRegistrations({r \in Regs : j.data[r].ver > 0}, j.data)
  /\ Hear(j.data)
  /\ jobs' = (jobs \ {j}) \cup
             {Ask(k, j.sel, mEventId) : k \in {"drivers", "cars", "classes"}}
  /\ UNCHANGED <<failures, mCarClasses>>

(* The drivers, cars and classes of the registrations there are by now.    *)
Registered(e) == {r \in Regs : db[r].ver > 0 /\ RegEvent[r] = e}

setDrivers(j, drivers) ==
  /\ j.kind = "drivers"
  /\ Outcome(drivers, {RegDriver[r] : r \in Registered(j.event)}, {})
  /\ item' = WithDrivers(drivers)
  /\ jobs' = jobs \ {j}
  /\ UNCHANGED <<mapVars, countVars>>

setCars(j, cars) ==
  /\ j.kind = "cars"
  /\ Outcome(cars, {RegCar[r] : r \in Registered(j.event)}, {})
  /\ item' = WithClasses(WithCars(cars), mCarClasses)
  /\ jobs' = jobs \ {j}
  /\ UNCHANGED <<mapVars, countVars>>

(* Fault of setCarClasses: rows whose cars came first are not looked up.   *)
FaultNoLookup(j, carClasses) ==
  /\ j.kind = "classes"
  /\ Outcome(carClasses, {ClassOf[RegCar[r]] : r \in Registered(j.event)}, {})
  /\ mCarClasses' = mCarClasses \cup carClasses
  /\ jobs' = jobs \ {j}
  /\ UNCHANGED <<item, mDrivers, mCars, countVars>>

setCarClasses(j, carClasses) ==
  /\ j.kind = "classes"
  /\ Outcome(carClasses, {ClassOf[RegCar[r]] : r \in Registered(j.event)}, {})
  /\ mCarClasses' = mCarClasses \cup carClasses
  /\ item' = WithClasses(item, mCarClasses')
  /\ jobs' = jobs \ {j}
  /\ UNCHANGED <<mDrivers, mCars, countVars>>

DeliverResult ==
  /\ \E j \in jobs :
       \/ setEventRegistrations(j)
       \/ \E drivers \in SUBSET Drivers : setDrivers(j, drivers)
       \/ \E cars \in SUBSET Cars : setCars(j, cars)
       \/ \E carClasses \in SUBSET Classes : setCarClasses(j, carClasses)
  /\ UNCHANGED <<db, changes, edits, notifs, selections, mEventId>>

-----------------------------------------------------------------------------
(* Notifications, on the UI thread: "only update if we care about it".     *)

(* Fault of eventRegistrationNotification: what comes during the loading   *)
(* is left to the queries.                                                 *)
FaultDropWhileLoading(n) ==
  /\ n.table = "registration"
  /\ updateRegistrations(IF jobs = {} THEN {n.id} \cap mEventRegistrations ELSE {},
                         [r \in Regs |-> n.row])
  /\ Hear([r \in Regs |-> IF r = n.id THEN n.row ELSE NoRow])
  /\ UNCHANGED mCarClasses

eventRegistrationNotification(n) ==
  /\ n.table = "registration"
  /\ updateRegistrations({n.id} \cap mEventRegistrations, [r \in Regs |-> n.row])
  /\ Hear([r \in Regs |-> IF r = n.id THEN n.row ELSE NoRow])
  /\ UNCHANGED mCarClasses

driverNotification(n) ==
  /\ n.table = "driver"
  /\ item' = WithDrivers({n.id})
  /\ UNCHANGED <<mapVars, countVars>>

carNotification(n) ==
  /\ n.table = "car"
  /\ item' = WithCars({n.id})
  /\ UNCHANGED <<mapVars, countVars>>

carClassNotification(n) ==
  /\ n.table = "car_class"
  /\ item' = IF n.id \in mCarClasses THEN WithClasses(item, mCarClasses) ELSE item
  /\ UNCHANGED <<mapVars, countVars>>

DeliverNotification ==
  /\ notifs # <<>>
  /\ LET n == Head(notifs) IN
       \/ eventRegistrationNotification(n)
       \/ driverNotification(n)
       \/ carNotification(n)
       \/ carClassNotification(n)
  /\ notifs' = Tail(notifs)
  /\ UNCHANGED <<clientVars, jobs, selections, mEventId>>

-----------------------------------------------------------------------------
(* setData: the row changes, then the database, in one handler.            *)

Edit ==
  /\ edits < MaxEdits
  /\ edits' = edits + 1
  /\ UNCHANGED <<changes, jobs, selections, mEventId, mapVars, mEventRegistrations>>

(* The check box gives the inverse of what the row shows.  An update that  *)
(* fails is logged; the row keeps what the user set.                       *)
setCheckedIn(r) ==
  /\ Edit
  /\ r \in mEventRegistrations
  /\ LET in == ~item[r].in IN
     /\ \/ /\ Write(r, in)
           /\ item' = [item EXCEPT ![r].ver = db'[r].ver, ![r].in = in]
           /\ seen' = [seen EXCEPT ![r] = db'[r].ver]
           /\ overtaken' = overtaken \ {r}
           /\ UNCHANGED failures
        \/ /\ failures < MaxFailures
           /\ failures' = failures + 1
           /\ item' = [item EXCEPT ![r].in = in]
           /\ UNCHANGED <<db, notifs, seen, overtaken>>
     /\ mNumCheckedInEntries' = mNumCheckedInEntries + (IF in THEN 1 ELSE -1)
  /\ EmitNumEntries

(* The name, number, color and model columns write the driver or the car   *)
(* the row points to; the pointers stay.                                   *)
setRelated(r) ==
  /\ Edit
  /\ r \in mEventRegistrations
  /\ \/ item[r].driver # None /\ Notify("driver", item[r].driver, NoRow)
     \/ item[r].car # None /\ Notify("car", item[r].car, NoRow)
  /\ UNCHANGED <<db, failures, item, mNumCheckedInEntries, statusBar, seen,
                 overtaken>>

-----------------------------------------------------------------------------
Next ==
  \/ \E r \in Regs : InsertRegistration(r) \/ CheckInElsewhere(r)
  \/ TouchRelated
  \/ ReadRegistrations
  \/ \E e \in Events : setEventId(e)
  \/ DeliverResult
  \/ DeliverNotification
  \/ \E r \in Regs : setCheckedIn(r) \/ setRelated(r)

Spec == Init /\ [][Next]_vars

-----------------------------------------------------------------------------
Quiet == jobs = {} /\ notifs = <<>>
CheckedIn == {r \in mEventRegistrations : item[r].in}

(* The unsigned counter never falls below the rows that are checked in, so *)
(* unchecking them never takes it below zero, whatever switches of event,  *)
(* failed updates and echoes of edits came before; and as soon as the      *)
(* table has a row, the status bar shows its number of rows and the        *)
(* counter, although only the handlers' own signals update it.             *)
CountCoversRows ==
  /\ mNumCheckedInEntries >= Cardinality(CheckedIn)
  /\ mEventRegistrations # {} =>
       statusBar = [entries |-> Cardinality(mEventRegistrations), in |-> mNumCheckedInEntries]

(* While the event stays selected, the counter moves exactly with the      *)
(* rows: an edit and its notification count once, a repeated or stale      *)
(* result not at all.                                                      *)
CountFollowsRows ==
  [][selections' = selections =>
       mNumCheckedInEntries' - mNumCheckedInEntries
         = Cardinality(CheckedIn') - Cardinality(CheckedIn)]_vars

(* Once nothing is on its way, a row shows the registration as it is in    *)
(* the database, unless the table had heard of a newer version before it   *)
(* took the one it shows: a query result that was read before a change and *)
(* delivered after the edit or the notification of it.                     *)
StaleOnlyIfOvertaken ==
  Quiet /\ failures = 0 =>
    \A r \in mEventRegistrations \ overtaken :
      item[r].ver = db[r].ver /\ item[r].in = db[r].in

(* Late results and notifications of an event selected before leave no row *)
(* in the table; and once nothing is on its way, if no query failed, only  *)
(* what other clients registered since the query can be missing, and a row *)
(* that shares neither its driver nor its car with another row is          *)
(* complete, in whatever order results arrived and events were switched.   *)
LoadedTableComplete ==
  /\ \A r \in mEventRegistrations : RegEvent[r] = mEventId
  /\ Quiet /\ failures = 0 /\ mEventId # None =>
       /\ Cardinality(Registered(mEventId) \ mEventRegistrations) <= changes
       /\ \A r \in mEventRegistrations :
            (\A s \in mEventRegistrations \ {r} :
               RegDriver[s] # RegDriver[r] /\ RegCar[s] # RegCar[r]) =>
            /\ item[r].driver = RegDriver[r]
            /\ item[r].car = RegCar[r]
            /\ item[r].class = ClassOf[RegCar[r]]

(* The status bar's "Missing" is the number of rows that are not checked   *)
(* in.                                                                     *)
MissingIsRowsNotCheckedIn ==
  mEventRegistrations # {} =>
    statusBar.entries - statusBar.in = Cardinality(mEventRegistrations \ CheckedIn)
=============================================================================
