------------------------------ MODULE RunTable ------------------------------
(***************************************************************************)
(* ui/RunTableModel.cpp: the table of the selected event's runs.  It is    *)
(* filled by asynchronous queries (runs first, then the drivers, cars and  *)
(* classes registered for the event) and kept up to date by notifications  *)
(* of the database, while the user switches events.  Handlers run on the   *)
(* UI thread, one at a time; queries finish in any order, notifications    *)
(* arrive in commit order, and neither waits for the other.                *)
(*                                                                         *)
(* A DataItem that is a row is identified with its run.  A DataItem that   *)
(* only holds a known driver or car (row -1) is the value Known in         *)
(* mDrivers or mCars.  Drivers, cars and classes are abstracted to who     *)
(* points to which; runs also have a version, so that staleness shows.     *)
(***************************************************************************)
EXTENDS Integers, Sequences, FiniteSets, SequencesExt

CONSTANTS
  Events, Runs, Drivers, Cars, Classes,   \* identifiers; Cars are integers
  RunEvent, RunDriver, RunCar,            \* the columns of a run
  ClassOf,                                \* car_class_id of a car
  RegDrivers, RegCars,                    \* event_registration, per event
  None, Known,
  MaxSelections, MaxChanges, MaxFailures  \* bounds on the user and on the database

ASSUME TableAssumption ==
  /\ IsFiniteSet(Runs)
  /\ RunEvent \in [Runs -> Events] /\ RunDriver \in [Runs -> Drivers]
  /\ RunCar \in [Runs -> Cars] /\ ClassOf \in [Cars -> Classes] /\ Cars \subseteq Int
  /\ RegDrivers \in [Events -> SUBSET Drivers] /\ RegCars \in [Events -> SUBSET Cars]
  /\ {None, Known} \cap (Runs \cup Events \cup Drivers \cup Cars \cup Classes) = {}
  /\ None # Known
  /\ MaxSelections \in Nat /\ MaxChanges \in Nat /\ MaxFailures \in Nat

VARIABLES
  dbRun,        \* version of each run in the database; 0: not yet, -1: deleted
  changes,      \* changes made to the database so far
  notifs,       \* notifications on their way to the UI thread, oldest first
  jobs,         \* queries on the pool: asked, or with a result to deliver
  failures,     \* queries that failed so far
  selections,   \* calls of setEventId so far
  mEventId,     \* None stands for -1
  mDataItems,   \* the rows, as a sequence of runs
  mRuns,        \* the runs that have a DataItem
  item,         \* item[r]: the DataItem of run r, when r is in mRuns
  mDrivers,     \* mDrivers[d]: None, Known or the row whose DataItem it is
  mCars,        \* likewise
  offClass,     \* mpCarClass of the DataItem of a Known car
  mCarClasses,  \* the classes in mCarClasses
  newest        \* history: the newest version a row was set to since reset

dbVars  == <<dbRun, changes>>
mapVars == <<mDrivers, mCars, offClass, mCarClasses>>
rowVars == <<mDataItems, mRuns, item, newest>>
vars == <<dbRun, changes, notifs, jobs, failures, selections, mEventId, mDataItems, mRuns,
          item, mDrivers, mCars, offClass, mCarClasses, newest>>

Versions == -1..(MaxChanges + 1)

DataItem == [row : -1..Cardinality(Runs), ver : Versions,
             driver : Drivers \cup {None}, car : Cars \cup {None},
             class : Classes \cup {None}]
NoItem == [row |-> -1, ver |-> 0, driver |-> None, car |-> None, class |-> None]

Notification == [table : {"run"}, id : Runs, ver : Versions]
                \cup [table : {"driver"}, id : Drivers, ver : {0}]
                \cup [table : {"car"}, id : Cars, ver : {0}]
                \cup [table : {"car_class"}, id : Classes, ver : {0}]
Job == [kind : {"runs", "drivers", "cars", "classes"}, sel : 1..MaxSelections,
        event : Events, read : BOOLEAN, data : [Runs -> Versions]]

TypeOK ==
  /\ dbRun \in [Runs -> Versions]
  /\ changes \in 0..MaxChanges
  /\ notifs \in Seq(Notification)
  /\ jobs \subseteq Job
  /\ failures \in 0..MaxFailures
  /\ selections \in 0..MaxSelections
  /\ mEventId \in Events \cup {None}
  /\ mDataItems \in Seq(Runs)
  /\ mRuns \subseteq Runs
  /\ item \in [Runs -> DataItem]
  /\ mDrivers \in [Drivers -> Runs \cup {None, Known}]
  /\ mCars \in [Cars -> Runs \cup {None, Known}]
  /\ offClass \in [Cars -> Classes \cup {None}]
  /\ mCarClasses \subseteq Classes
  /\ newest \in [Runs -> Versions]

Init ==
  /\ dbRun \in [Runs -> {0, 1}]
  /\ changes = 0
  /\ notifs = <<>>
  /\ jobs = {}
  /\ failures = 0
  /\ selections = 0
  /\ mEventId = None
  /\ mDataItems = <<>>
  /\ mRuns = {}
  /\ item = [r \in Runs |-> NoItem]
  /\ mDrivers = [d \in Drivers |-> None]
  /\ mCars = [c \in Cars |-> None]
  /\ offClass = [c \in Cars |-> None]
  /\ mCarClasses = {}
  /\ newest = [r \in Runs |-> 0]

-----------------------------------------------------------------------------
(* Other clients change the database; the trigger of each table notifies.  *)

Notify(table, id, ver) == notifs' = Append(notifs, [table |-> table, id |-> id, ver |-> ver])

Commit ==
  /\ changes < MaxChanges
  /\ changes' = changes + 1
  /\ UNCHANGED <<jobs, failures, selections, mEventId, rowVars, mapVars>>

InsertRun(r) ==
  /\ Commit
  /\ dbRun[r] = 0
  /\ dbRun' = [dbRun EXCEPT ![r] = 1]
  /\ Notify("run", r, 1)

UpdateRunInDb(r) ==
  /\ Commit
  /\ dbRun[r] > 0
  /\ dbRun' = [dbRun EXCEPT ![r] = @ + 1]
  /\ Notify("run", r, dbRun[r] + 1)

(* A DELETE notifies with the old row.                                     *)
DeleteRun(r) ==
  /\ Commit
  /\ dbRun[r] > 0
  /\ dbRun' = [dbRun EXCEPT ![r] = -1]
  /\ Notify("run", r, dbRun[r])

TouchRelated ==
  /\ Commit
  /\ UNCHANGED dbRun
  /\ \/ \E d \in Drivers : Notify("driver", d, 0)
     \/ \E c \in Cars : Notify("car", c, 0)
     \/ \E k \in Classes : Notify("car_class", k, 0)

-----------------------------------------------------------------------------
(* Queries.                                                                *)

Ask(kind, sel, event) ==
  [kind |-> kind, sel |-> sel, event |-> event, read |-> FALSE,
   data |-> [r \in Runs |-> 0]]

(* A query that fails is logged, and its result is the empty list.         *)
Outcome(result, full, empty) ==
  \/ result = full /\ UNCHANGED failures
  \/ result = empty /\ failures < MaxFailures /\ failures' = failures + 1

(* The snapshot a runs query reads: every run of every event, for the      *)
(* custom query of setEventId has no WHERE.  What the other queries read   *)
(* does not change, and is taken when their result is delivered.           *)
ReadRuns ==
  \E j \in jobs, snapshot \in {dbRun, [r \in Runs |-> 0]} :
    /\ j.kind = "runs" /\ ~j.read
    /\ Outcome(snapshot, dbRun, [r \in Runs |-> 0])
    /\ jobs' = (jobs \ {j}) \cup {[j EXCEPT !.read = TRUE, !.data = snapshot]}
    /\ UNCHANGED <<dbVars, notifs, selections, mEventId, rowVars, mapVars>>

-----------------------------------------------------------------------------
(* setEventId and reset.                                                   *)

(* Fault of reset: mDrivers is not cleared.                                *)
FaultResetKeepsDrivers ==
  /\ mDataItems' = <<>>
  /\ mRuns' = {}
  /\ item' = [r \in Runs |-> NoItem]
  /\ mCars' = [c \in Cars |-> None]
  /\ offClass' = [c \in Cars |-> None]
  /\ mCarClasses' = {}
  /\ newest' = [r \in Runs |-> 0]
  /\ UNCHANGED mDrivers

reset ==
  /\ mDataItems' = <<>>
  /\ mRuns' = {}
  /\ item' = [r \in Runs |-> NoItem]
  /\ mDrivers' = [d \in Drivers |-> None]
  /\ mCars' = [c \in Cars |-> None]
  /\ offClass' = [c \in Cars |-> None]
  /\ mCarClasses' = {}
  /\ newest' = [r \in Runs |-> 0]

setEventId(e) ==
  /\ selections < MaxSelections
  /\ selections' = selections + 1
  /\ mEventId' = e
  /\ reset
  /\ jobs' = jobs \cup {Ask("runs", selections', e)}
  /\ UNCHANGED <<dbVars, notifs, failures>>

-----------------------------------------------------------------------------
(* updateRun, for a set of runs, one after the other.                      *)

(* Runs of another event are dropped.                                      *)
OfThisEvent(runs) == {r \in runs : RunEvent[r] = mEventId}

(* " ORDER BY car_id" leaves runs of one car in any order.                 *)
Sorted(list) == \A i, j \in DOMAIN list : i < j => RunCar[list[i]] <= RunCar[list[j]]

(* What the DataItem that the maps have for a driver or a car knows of it. *)
DriverOf(d) == CASE mDrivers[d] = None  -> None
                 [] mDrivers[d] = Known -> d
                 [] OTHER               -> item[mDrivers[d]].driver

CarOf(c) == CASE mCars[c] = None  -> None
              [] mCars[c] = Known -> c
              [] OTHER            -> item[mCars[c]].car

(* Fault of DriverForRow: the map's entry taken for the driver in it.      *)
FaultEntryForDriver(r) == mDrivers[RunDriver[r]]

DriverForRow(r) ==
  IF mDrivers[RunDriver[r]] = None THEN item[r].driver ELSE DriverOf(RunDriver[r])

CarForRow(r) == IF mCars[RunCar[r]] = None THEN item[r].car ELSE CarOf(RunCar[r])

(* The last run of the list for which column[r] = x.                       *)
LastWith(list, column, x) == list[Max({i \in DOMAIN list : column[list[i]] = x})]

(* The runs of part come in the order they have in list.                   *)
InOrderOf(list, part) ==
  \A i, j \in DOMAIN part : i < j =>
    \E k, l \in DOMAIN list : k < l /\ list[k] = part[i] /\ list[l] = part[j]

(* A run without a DataItem gets a row at the end; a row takes the driver  *)
(* and the car its maps know, not the class, and becomes the DataItem of   *)
(* its driver and of its car.                                              *)
updateRuns(runs, ver) ==
  LET touched == OfThisEvent(runs) IN
  \E list \in SetToSeqs(touched), new \in SetToSeqs(touched \ mRuns) :
  LET rows == mDataItems \o new IN
  /\ Sorted(list) /\ InOrderOf(list, new)
  /\ mDataItems' = rows
  /\ mRuns' = mRuns \cup touched
  /\ item' = [r \in Runs |->
       IF r \in touched
       THEN [row    |-> IF r \notin mRuns
                        THEN (CHOOSE i \in DOMAIN rows : rows[i] = r) - 1
                        ELSE item[r].row,
             ver    |-> ver[r],
             driver |-> DriverForRow(r),
             car    |-> CarForRow(r),
             class  |-> item[r].class]
       ELSE item[r]]
  /\ mDrivers' = [d \in Drivers |->
       IF \E r \in touched : RunDriver[r] = d THEN LastWith(list, RunDriver, d)
       ELSE mDrivers[d]]
  /\ mCars' = [c \in Cars |->
       IF \E r \in touched : RunCar[r] = c THEN LastWith(list, RunCar, c)
       ELSE mCars[c]]
  /\ newest' = [r \in Runs |-> IF r \in touched /\ ver[r] > newest[r] THEN ver[r]
                                ELSE newest[r]]

-----------------------------------------------------------------------------
(* updateDriver and updateCar, for a set of them: the DataItem in the map  *)
(* takes the new message; without one a DataItem with no row is added.     *)

(* Fault of updateDrivers: every row without a driver takes one.           *)
FaultFillEmptyRows(ds) ==
  /\ item' = [r \in Runs |->
       IF r \in mRuns /\ item[r].driver = None /\ ds # {}
       THEN [item[r] EXCEPT !.driver = CHOOSE d \in ds : TRUE] ELSE item[r]]
  /\ mDrivers' = [d \in Drivers |->
       IF d \in ds /\ mDrivers[d] = None THEN Known ELSE mDrivers[d]]

(* Fault of updateDrivers: a driver without a row is dropped, as the       *)
(* registration table does.                                                *)
FaultForgetDrivers(ds) ==
  /\ item' = [r \in Runs |->
       IF \E d \in ds : mDrivers[d] = r
       THEN [item[r] EXCEPT !.driver = CHOOSE d \in ds : mDrivers[d] = r]
       ELSE item[r]]
  /\ UNCHANGED mDrivers

updateDrivers(ds) ==
  /\ item' = [r \in Runs |->
       IF \E d \in ds : mDrivers[d] = r
       THEN [item[r] EXCEPT !.driver = CHOOSE d \in ds : mDrivers[d] = r]
       ELSE item[r]]
  /\ mDrivers' = [d \in Drivers |->
       IF d \in ds /\ mDrivers[d] = None THEN Known ELSE mDrivers[d]]

WithCars(cs) ==
  [r \in Runs |-> IF \E c \in cs : mCars[c] = r
                  THEN [item[r] EXCEPT !.car = CHOOSE c \in cs : mCars[c] = r]
                  ELSE item[r]]

KnowCars(cs) ==
  [c \in Cars |-> IF c \in cs /\ mCars[c] = None THEN Known ELSE mCars[c]]

(* updateCarClasses, after the cars became cars and the items items: every *)
(* DataItem of mCars with a car whose class is known points to the class.  *)
updateCarClasses(items, cars, classes) ==
  /\ item' = [r \in Runs |->
       IF (\E c \in Cars : cars[c] = r) /\ items[r].car # None
            /\ ClassOf[items[r].car] \in classes
       THEN [items[r] EXCEPT !.class = ClassOf[items[r].car]] ELSE items[r]]
  /\ offClass' = [c \in Cars |->
       IF cars[c] = Known /\ ClassOf[c] \in classes THEN ClassOf[c] ELSE offClass[c]]

-----------------------------------------------------------------------------
(* Query results, on the UI thread.                                        *)

(* The three queries that follow are for the event selected by now.        *)
setRuns(j) ==
  /\ j.kind = "runs" /\ j.read
  /\ updateRuns({r \in Runs : j.data[r] > 0}, j.data)
  /\ jobs' = (jobs \ {j}) \cup
             {Ask(k, j.sel, mEventId) : k \in {"drivers", "cars", "classes"}}
  /\ UNCHANGED <<failures, offClass, mCarClasses>>

setDrivers(j, drivers) ==
  /\ j.kind = "drivers"
  /\ Outcome(drivers, RegDrivers[j.event], {})
  /\ updateDrivers(drivers)
  /\ jobs' = jobs \ {j}
  /\ UNCHANGED <<mDataItems, mRuns, newest, mCars, offClass, mCarClasses>>

(* Fault of setCars: classes that came before the cars are not looked up.  *)
FaultNoClasses(j, cars) ==
  /\ j.kind = "cars"
  /\ Outcome(cars, RegCars[j.event], {})
  /\ mCars' = KnowCars(cars)
  /\ item' = WithCars(cars)
  /\ jobs' = jobs \ {j}
  /\ UNCHANGED <<mDataItems, mRuns, newest, mDrivers, offClass, mCarClasses>>

setCars(j, cars) ==
  /\ j.kind = "cars"
  /\ Outcome(cars, RegCars[j.event], {})
  /\ mCars' = KnowCars(cars)
  /\ updateCarClasses(WithCars(cars), mCars', mCarClasses)
  /\ jobs' = jobs \ {j}
  /\ UNCHANGED <<mDataItems, mRuns, newest, mDrivers, mCarClasses>>

setCarClasses(j, carClasses) ==
  /\ j.kind = "classes"
  /\ Outcome(carClasses, {ClassOf[c] : c \in RegCars[j.event]}, {})
  /\ mCarClasses' = mCarClasses \cup carClasses
  /\ updateCarClasses(item, mCars, mCarClasses')
  /\ jobs' = jobs \ {j}
  /\ UNCHANGED <<mDataItems, mRuns, newest, mDrivers, mCars>>

DeliverResult ==
  /\ \E j \in jobs :
       \/ setRuns(j)
       \/ \E drivers \in SUBSET Drivers : setDrivers(j, drivers)
       \/ \E cars \in SUBSET Cars : setCars(j, cars)
       \/ \E carClasses \in SUBSET Classes : setCarClasses(j, carClasses)
  /\ UNCHANGED <<dbVars, notifs, selections, mEventId>>

-----------------------------------------------------------------------------
(* Notifications, on the UI thread.  Timestamp and operation are ignored.  *)

(* Faults of runNotification: only rows the table has, or has not, change. *)
FaultKnownRunsOnly(n) ==
  /\ n.table = "run"
  /\ updateRuns({n.id} \cap mRuns, [r \in Runs |-> n.ver])
  /\ UNCHANGED <<offClass, mCarClasses>>

FaultNewRunsOnly(n) ==
  /\ n.table = "run"
  /\ updateRuns({n.id} \ mRuns, [r \in Runs |-> n.ver])
  /\ UNCHANGED <<offClass, mCarClasses>>

runNotification(n) ==
  /\ n.table = "run"
  /\ updateRuns({n.id}, [r \in Runs |-> n.ver])
  /\ UNCHANGED <<offClass, mCarClasses>>

driverNotification(n) ==
  /\ n.table = "driver"
  /\ updateDrivers({n.id})
  /\ UNCHANGED <<mDataItems, mRuns, newest, mCars, offClass, mCarClasses>>

carNotification(n) ==
  /\ n.table = "car"
  /\ item' = WithCars({n.id})
  /\ mCars' = KnowCars({n.id})
  /\ UNCHANGED <<mDataItems, mRuns, newest, mDrivers, offClass, mCarClasses>>

(* A class the table does not know is only remembered.                     *)
carClassNotification(n) ==
  /\ n.table = "car_class"
  /\ mCarClasses' = mCarClasses \cup {n.id}
  /\ IF n.id \in mCarClasses THEN updateCarClasses(item, mCars, mCarClasses)
     ELSE UNCHANGED <<item, offClass>>
  /\ UNCHANGED <<mDataItems, mRuns, newest, mDrivers, mCars>>

DeliverNotification ==
  /\ notifs # <<>>
  /\ LET n == Head(notifs) IN
       \/ runNotification(n)
       \/ driverNotification(n)
       \/ carNotification(n)
       \/ carClassNotification(n)
  /\ notifs' = Tail(notifs)
  /\ UNCHANGED <<dbVars, jobs, failures, selections, mEventId>>

-----------------------------------------------------------------------------
Next ==
  \/ \E r \in Runs : InsertRun(r) \/ UpdateRunInDb(r) \/ DeleteRun(r)
  \/ TouchRelated
  \/ ReadRuns
  \/ \E e \in Events : setEventId(e)
  \/ DeliverResult
  \/ DeliverNotification

Spec == Init /\ [][Next]_vars

-----------------------------------------------------------------------------
Quiet == jobs = {} /\ notifs = <<>>

(* mRuns and mDataItems describe the same rows: each run has one row, its  *)
(* DataItem knows the row number that itemDataChanged reports, and the     *)
(* DataItems the driver and car maps lead to are rows of that driver or    *)
(* car, not rows a reset has removed.                                      *)
MapsAgreeWithRows ==
  /\ ToSet(mDataItems) = mRuns
  /\ \A i \in DOMAIN mDataItems : item[mDataItems[i]].row = i - 1
  /\ \A d \in Drivers : mDrivers[d] \notin {None, Known} =>
       mDrivers[d] \in mRuns /\ RunDriver[mDrivers[d]] = d
  /\ \A c \in Cars : mCars[c] \notin {None, Known} =>
       mCars[c] \in mRuns /\ RunCar[mCars[c]] = c

(* A row never shows another driver, car or class than its run's, although *)
(* rows take them from DataItems of other rows.                            *)
RowsShowTheirOwn ==
  \A r \in mRuns : /\ item[r].driver \in {None, RunDriver[r]}
                   /\ item[r].car \in {None, RunCar[r]}
                   /\ item[r].class \in {None, ClassOf[RunCar[r]]}

(* The table shows runs of the selected event only, whatever results and   *)
(* notifications of an event selected before still arrive; and once nothing *)
(* is on its way and no query failed, every run of that event has a row,   *)
(* however inserts raced the query and the switch of event.                *)
NoRunMissing ==
  /\ \A r \in mRuns : RunEvent[r] = mEventId
  /\ Quiet /\ failures = 0 =>
       \A r \in Runs : dbRun[r] > 0 /\ RunEvent[r] = mEventId => r \in mRuns

(* Once nothing is on its way, a row shows the run's current version, or   *)
(* it did show it and was set back by something older (a query result      *)
(* overtaken by a notification): no change is missed in any other way.  A  *)
(* query that fails can only do harm after a switch of event: then the     *)
(* rows may come from a result that was read for the selection before.     *)
StaleOnlyIfOvertaken ==
  Quiet /\ (failures = 0 \/ selections = 1) =>
    \A r \in mRuns : dbRun[r] > 0 =>
      item[r].ver = dbRun[r] \/ (item[r].ver < newest[r] /\ newest[r] = dbRun[r])

(* A row that shares neither its driver nor its car with another row is    *)
(* complete once nothing is on its way, in whatever order the four results *)
(* arrived, if no query failed and all runs were there before.             *)
LoadedTableComplete ==
  Quiet /\ failures = 0 /\ changes = 0 =>
    \A r \in mRuns :
      (\A s \in mRuns \ {r} : RunDriver[s] # RunDriver[r] /\ RunCar[s] # RunCar[r]) =>
        /\ RunDriver[r] \in RegDrivers[mEventId] => item[r].driver = RunDriver[r]
        /\ RunCar[r] \in RegCars[mEventId] =>
             item[r].car = RunCar[r] /\ item[r].class = ClassOf[RunCar[r]]

(* "we need to keep all of the cars/drivers/classes that are registered    *)
(* for this event in memory, that way when a new run comes in we already   *)
(* have the driver/car/class ready" (RunTableModel.cpp:398).  Once the     *)
(* queries are answered, in whatever order they were, whatever was         *)
(* selected before and whatever notifications came between, a new run of   *)
(* a registered driver and car finds both in memory and shows them.  Its   *)
(* class is in memory, too, but updateRun does not take it: the row shows  *)
(* none.                                                                   *)
NewRunsFindWhatWasLoaded ==
  [][jobs = {} /\ failures = 0 =>
       \A r \in mRuns' \ mRuns :
         /\ RunDriver[r] \in RegDrivers[mEventId] => item'[r].driver = RunDriver[r]
         /\ RunCar[r] \in RegCars[mEventId] =>
              /\ item'[r].car = RunCar[r]
              /\ ClassOf[RunCar[r]] \in mCarClasses /\ item'[r].class = None]_vars
=============================================================================
