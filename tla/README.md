# A verification project for autoxtime

autoxtime times autocross events: drivers are registered and checked in, runs
are added as cars start, and several clients look at the same PostgreSQL
database.  The desktop program (C++/Qt, `src/src/autoxtime`) reads it with
queries that run on a pool of threads and keeps its tables up to date with the
notifications that triggers of the database send for every change.

This directory models in TLA+ what can go wrong in that program without a test
noticing.  First its concurrent part: the thread pool with its start-up protocol,
the listener that brings notifications to the user interface, the two tables that
query results, notifications, edits and switches of event race to fill, and the
chain of runs that clients build from such a table.  Then the sequences of steps
of which any may fail or meet those of others: the import of a registration file,
the administration tree, and the way from a timing device to the lines a codec
accepts.  TLC checks the models on small instances; TLAPS proves the safety
properties of all of them for every value of their constants.

| file | what it is |
| --- | --- |
| `WorkerPool` | what users of the thread pool may rely on (abstract) |
| `DbThreadPool`, `MCDbThreadPool` | the pool, and its instances for TLC |
| `DbThreadPoolProofs` | the theorems about the pool, with proofs |
| `RunTable`, `MCRunTable`, `RunTableProofs` | the table of runs |
| `RegistrationTable`, `MCRegistrationTable`, `RegistrationTableProofs` | the table of registrations and its status bar |
| `RunChain`, `MCRunChain`, `RunChainProofs` | adding runs, and the order of the run table |
| `NotificationStream` | what the tables may rely on in the notifications (abstract) |
| `DbListener`, `MCDbListener`, `DbListenerProofs` | the listener thread: subscriptions, notifications, reconnection |
| `EventImport`, `MCEventImport`, `EventImportProofs` | importing a registration file, and `createIfNotExists` |
| `AdminTree`, `MCAdminTree`, `AdminTreeProofs` | the tree of organizations, seasons and events, and its form |
| `TimingInput`, `MCTimingInput`, `TimingInputProofs` | serial port, recorded file and the two codecs |
| `PROJECT.json` | components, runs, faults, the source lines of every definition, hazards, findings, theorems |

Run `tlc -config <run>.cfg <module>` for a run, `tlapm <module>.tla` on each module
whose name ends in `Proofs` for the proofs.  Each of these stands on its own: the
few facts about numbers and sequences that several need are proved in each.  In
each module the operators named `Fault...` are deliberately wrong variants of a
definition; substituting one for the definition must break a property
(`PROJECT.json`, "mutants"), which shows that the property depends on that piece of
the code.


## 1. Inventory

Paths are relative to `src/src/autoxtime` unless they begin with `src/db`.

**Database schema** (`src/db/db_table_create.sql`).  State: the tables
organization, season, event, event_registration, driver, car, car_class, run.
A trigger on each table sends, on INSERT, UPDATE and DELETE, a notification
with the new row (the old one for a DELETE) on the table's channel.  They arrive
in commit order.  Correct when every change a client depends on is notified.

**Thread pool** (`db/DbThreadPool.cpp`).  State: QThreadPool's threads and queue;
during construction a semaphore, a mutex and a wait condition.  The constructor
starts one job per thread that opens the thread's database connection, and must
keep each job on its thread until all threads exist.  Hard: the start-up
protocol's interleavings.  Correct when connections are registered one at a
time, no request meets a thread without one, and each request is answered once.

**Connections** (`db/DbConnection.cpp`).  One named connection per thread, its
open/closed state, a five-second timer that reopens it while the object's
thread has an event loop.  Hard: the database may be down at any moment.

**Listener** (`db/DbListener.cpp`).  A thread with its own connection, one emitter
per table under `mEmitterMutex`, subscriptions by signal.  It parses a
notification once and passes the message to every model of that table.  Hard:
start-up before the database is reachable, subscriptions lost when a session
ends, shutdown.  Correct when a change that is committed while a table is shown
reaches it.

**Generic models** (`db/BaseModel.cpp`, `db/BaseModelT.h`).  No state but the
connection: list, find, create, update, destroy, synchronously on the caller's
thread or asynchronously on the pool, with the result emitted as a signal.  A
query that fails is logged and yields the empty list.  Hard: results of queries
that overlap arrive in any order.

**Table models with `createIfNotExists`** (`db/DriverModel.cpp`, `CarModel`,
`CarClassModel`, `EventRegistrationModel`; `EventModel`, `OrganizationModel`,
`RunModel`, `SeasonModel` add only names).  They look for a row and create it if
there is none, without a transaction.  Hard: two clients at once.  Correct when
only a race or a failed lookup makes a duplicate.

**Run table** (`ui/RunTableModel.cpp`).  State: the selected event, the rows, maps
from driver and car identifiers to the last row that has them, the known
classes.  Operations: `setEventId`, four query results, four notifications.
Hard: all of these interleave, and results and notifications of an event that
is no longer selected still arrive.  Correct when the rows are those of the
selected event, none is missing, each shows its own driver, car and class and
the newest state.

**Registration table and status bar** (`ui/RegistrationTableModel.cpp`,
`ui/RegistrationTableWidget.cpp`, `ui/RegistrationWidget.cpp`).  The same, plus
edits of cells, which write to the database at once and come back as
notifications, and a counter of checked-in rows that every handler updates
incrementally.  Correct when the counter and the status bar agree with the rows.

**Timing widget and run order** (`ui/TimingWidget.cpp`, `ui/RunTableWidget.cpp`,
`ui/MultiSortFilterProxyModel.cpp`).  A new run names as its previous run the
last row of the sorted table; the sort follows those links.  Hard: the row of a
run appears only with its notification.

**Event import** (`ui/EventImportDialog.cpp`, `codec/MotorsportRegCodec.cpp`).  For
each line of a file: create or find driver, class, car and registration.  Hard:
partial failure, repetition, concurrent importers.  Correct when every line ends
in a registration of the right driver and car, and a second import adds nothing.

**Administration tree** (`ui/AdminWidget.cpp`, `ui/EventWidget.cpp`,
`ui/StandardItem.cpp`).  Three maps and a tree of organizations, seasons and
events, built from three asynchronous lists, and the form of the selected event.
Hard: the order of the lists; Add, Save, Cancel and Delete in between; pointers
to deleted items.  Correct when each listed row has its item, and item, form and
row belong together.

**Event selection and main window** (`ui/EventSelectionWidget.cpp`,
`ui/MainWindow.cpp`).  The user's choice of event goes to both tables.

**Timing hardware** (`codec/ICodec.cpp`, `codec/FarmtekCodec.cpp`,
`codec/RaceAmericaTlinkCodec.cpp`, `transport/`).  Bytes arrive in arbitrary pieces
and are cut into messages; a serial port is opened and reopened.  Hard: the
cuts, the losses, the reconnection.  Correct when each message that arrived is
accepted once and whole, and a port that broke is opened again.

**Timing state machine** (`timing/TimingStateMachine.cpp`).  A stub.

**The rest**: item delegates (painting and the click that inverts a check box),
configuration, logging, colours, the programs' main functions, and an archived
web server that is not built.

How they meet: the tables own one model per table; a model posts jobs to the
one pool and subscribes to the one listener; results and notifications come to
the UI thread as queued calls, where the tables' handlers run one at a time.
So the order within the notifications is that of the commits, the order of the
results is any, and neither is ordered with the other: this is where most of the
hazards of `PROJECT.json` come from.


## 2. Plan

Built, in this order:

1. `DbThreadPool` under the abstract `WorkerPool`, with the proofs.
2. `RunTable`: selection, loading, notifications.
3. `RegistrationTable`: the same with edits, the counter and the status bar.
4. `RunChain`: `TimingWidget::addClicked` of several clients, each with a table
   that lags behind the database, and the sort by links.
5. `DbListener` with the reconnection of `DbConnection`: start-up, subscriptions,
   notifications, shutdown.

6. `EventImport`: `createIfNotExists` of two importers, failures of single steps,
   repetition.
7. `AdminTree`: three lists in any order, creation, update and deletion.
8. `TimingInput`: the transports and the codecs in one module, since the losses of
   the one meet the buffer of the other.

9. `NotificationStream`: the ordered stream of notifications that the tables assume,
   implemented by `DbListener`.

10. The proofs, in the order `DbThreadPool`, `RegistrationTable`, `RunTable`,
   `DbListener`, `RunChain`, `EventImport`, `AdminTree`, `TimingInput` (section 6).

Every invariant, every action property and both refinements that a passing run
checks are proved; what is left is liveness (section 6.9).


## 3. The models

### 3.1 DbThreadPool

*State.*  `mainPc`, `kicked`, `acquired`: where the constructor is and what its two
loops have done.  `permits`, `mutex`, `waiters`: the semaphore, the owner of the
mutex, the threads inside `wait`.  `pool`, `queue`, `job`: what QThreadPool keeps.
`pc[t]`: where a thread is in its runnable.  `conn[t]`: the connection registered
under the thread's name.  `posted`, `result`: the requests.

*Actions.*  One for each call of the constructor that another thread can observe
(`MainConnect`, `MainStart`, `MainAcquire`, `MainLock`, `MainWakeAll`, `MainUnlock`), one
for each of the init job (`InitRelease`, `InitLock`, `InitOpen`, `InitWait`,
`InitRelock`, `InitUnlock`), `Post`, `AsyncModel` and `AsyncQuery` for the jobs of
`BaseModelT.h`, and `WakeForWork` and `FinishJob` for the pool's own loop.

*External.*  QThreadPool, QSemaphore, QMutex and QWaitCondition are modelled by what
the constructor relies on: `start` prefers an idle thread, then a new one, then
the queue; threads never expire; a woken thread takes the oldest runnable; the
mutex is not fair; the condition has no spurious wake-up and releases the mutex
as it goes to sleep.  Opening a connection and every query may fail.

*Not in it.*  The reconnect timers of the pool's connections (a pool thread has
no event loop), and the pool's destruction.

### 3.2 RunTable

*State.*  `dbRun`: the version of each run in the database (0 before it is
inserted, -1 after it is deleted).  `notifs`: the notifications on their way, a
sequence.  `jobs`: queries asked or read, a set, so that they finish in any order.
`mEventId`, `mDataItems`, `mRuns`, `mDrivers`, `mCars`, `mCarClasses` are the members of
those names.  A DataItem is shared between maps; it is identified with the run
whose row it is, `item[r]` holds its pointers, and an entry of `mDrivers` or `mCars`
is that run, or `Known` for a DataItem without a row, or `None`.  `newest` is a
history variable, the newest version the row of a run was set to since the last
reset; one property uses it and no action reads it.

*Actions.*  Each handler is one action, as it runs to its end on the UI thread:
`setEventId` with `reset`; `setRuns`, which applies `updateRun` to a whole list and
posts the three further queries; `setDrivers`, `setCars`, `setCarClasses`; the four
notifications.  A runs query takes its snapshot in `ReadRuns` and is delivered by
`setRuns`, with anything in between; so a result can be older than a notification
delivered before it.  The three other queries read tables the model does not
change, so one step reads and delivers.  A query may fail, which is
an empty result.

*Abstractions.*  Identifier columns of a run never change.  Contents of messages are
left out but for the version of a run.  The query of `setEventId` has no WHERE, so
`setRuns` sees the runs of all events and `OfThisEvent` drops the others.  A DELETE
notifies with the old row and the handlers ignore the operation, so it acts as
an update.  The notification for a class omits a column of the class, which is
contents.  The `m...Populated` flags are written and never read
(`endResetIfPopulated` has no caller).  `setRuns` begins a model reset it never ends;
what Qt's views make of that is outside the model.  Every change is notified, in
commit order and once: the subscriptions are taken to be established before the
first selection, the session to last, and the texts of the messages to survive
the payload (section 3.5): `notifs` is the `coming` of `NotificationStream` without
`Lose`.

*Memory for new runs.*  The comment at `ui/RunTableModel.cpp:398` says why cars, drivers
and classes without a run are kept: a run that comes in later finds them ready.
`NewRunsFindWhatWasLoaded` says what becomes of that.  Once all queries are answered
and none failed, each new row of a registered driver and car shows both, and the
class of its car is in memory, however the results were ordered, whatever was
selected before and whatever was changed since.  The row itself has no class,
since `updateRun` does not take it (`:490-496`): the property says so, and section 5
lists it.

### 3.3 RegistrationTable

*State and actions* as in RunTable, with these differences of the code.  A driver
or car that no row has is forgotten instead of kept.  A notification of a
registration is applied only if the row exists ("only update if we care about
it"), so registrations inserted after the loading stay out until the next
selection.  `setCheckedIn` and `setRelated` are the edits of `setData`: the row
first, then the synchronous update, whose notification is queued behind those
already on their way.  A failed update is logged and leaves row and counter
changed.  `mNumCheckedInEntries` is updated as in the code, and every
`numEntriesChanged` sets `statusBar`.  Rows are a set, since row numbers are those
of RunTable.  `seen` and `overtaken` are history variables.

*Abstractions.*  A registration has an event, a driver and a car that do not
change, a version and its check-in.  Other clients insert and check in or
out; they do not delete.  The edit of a driver or a car changes no pointer, only
contents, and sends the notification that comes back.  The counter is an unbounded
integer: `CountCoversRows` says it is never negative, so a 64-bit unsigned one
does not wrap.

### 3.4 RunChain

*State.*  `db`: the rows of the table run, numbered in the order of their commits,
each with its event and previous run (`None` for the first of a list).  Per client:
`mEventId`, the selected event; `rows`, the sorted rows it sees, the last at the bottom;
`loads`, its queries of the runs, asked or read and with what they saw; `notifs`, the
run notifications that have not come; `adding`, the runs of a click that have yet to
be created.

*Actions.*  `eventChanged` empties the table and asks for the runs; `ReadRuns` and
`setRuns` load them; `runNotification` adds a run; `itemDataChanged` places a row again;
`addClicked` starts a click and `createRun` does one pass of its loop, with
`PreviousRun` read from the last row of the table as it is.  The passes run without
a return to the event loop, so a click finishes before the client does anything
else, but other clients act in between.

*The sort.*  `lessThan` is the code's.  It is no order, so what the rows look like
depends on how QSortFilterProxyModel uses it: a row that is inserted is placed by
a binary search (`InsertionPoint`, external), and a changed row may or may not be
placed again (`Replace`).  `setRuns` sends the runs of its list through `updateRun`
one after the other (`updateRuns`).

*Abstractions.*  Runs are neither deleted nor re-linked; the program has no
operation for it.  Two clients, or one click on several registrations, may name
the same previous run, since the table has not been told of the runs in between;
the list then forks.  Nothing in the repository forbids it, so no property does.

### 3.5 DbListener

*State.*  The UI thread: `uiPc`, `subscribing`, `connected`, `asked`.  The listener:
`emitters` (the keys of `mEmitters`), `permit`, `lpc`, `hooked`, `quit`.  Between them:
`signals`, the subscribe signals posted to the listener, and `posted`, the
notifications posted to the models.  The connection: `session` and `listens`.
The server: `serverUp`, `commits`, `wire`.  `received` and `owed` are histories.

*Actions.*  The constructor (`UiStart`, `UiAcquire`) and `run` (`RunConnect`, `RunHook`,
`RunRelease`, `RunQuit`), one action for each step the other thread can tell apart;
`connectEmitter` and `subscribe`, the two halves of `subscribeToNotifications`;
`subscribeSlot`, `recvNotification`, `tryConnect` and `emitNotification`, each a slot that
runs to its end in its thread; `UiQuit` and `UiReturn`, the end of `main`.

*Abstract specification.*  `NotificationStream` has the changes committed, `log`, those
on their way to a model, `coming`, and what the UI thread has `told` which model.
The oldest is told first, whatever its table, and `Lose` takes the newest.  The
mapping `Stream` counts as on their way what the UI thread has in its queue and
what the listener has yet to hand to the models that are connected.

*Mutexes.*  `emitter` and `recvNotification` hold `mEmitterMutex` from end to end and
do not wait for anything inside: the models live on the UI thread, so emitting to
them posts.  `mConnectionMutex` is only taken on the listener's thread.

*External.*  PostgreSQL drops a session's LISTENs and the notifications that have not
reached the client when the session ends; QPSQLDriver::isOpen asks libpq, which
learns of a broken connection when it reads from or writes to it, and the driver
watches the socket once it listens to something.  So a connection that breaks before
its first LISTEN stays `"broken"` until the next one is tried.

*Abstractions.*  What a payload says is left out.  The trigger
(`src/db/db_table_create.sql:209`) escapes quotes and nothing else, so a text with a
line feed or a backslash can make it send something that is no JSON.
`emitNotification` (`db/DbListener.cpp:29`) reads that as an empty object and posts an
empty message, on the way of any other; the models are told, but of no row.  JSON that
does not fit the message type is logged and dropped (`:62`), and taken not to occur.
So this module is about being told; the tables, which use the contents, are modelled
for texts that survive the payload.  The order in which the models of a table are told
is left open.

### 3.6 EventImport

*State.*  `db`: the four tables, each the sequence of its rows in the order of their
IDs.  `job[c]`: the import of client c — the file, the row of it and the table it
is at, the IDs obtained so far, the message being looked up and the lookups still
to be tried.  `imports`, `failures` are counted against their bounds.  `seen` and
`finished` are histories: what each lookup had read when a row was created, and
which imports came to their end.  Rows and messages are partial functions: a field
that is not set is not in the domain, which is what the lookups test.

*Actions.*  `browseClicked` reads the file (`readFile`, with the columns, the
conversion of numbers and the splitting of the class as in the code); `Find` is
one lookup of `createIfNotExists`, and `Create` its insertion.  `Keys` are the sets
of fields it looks by, in its order (`Before`), of which it skips those the message
does not have (`Lookups`).  Between any two
of them other clients act: the import runs on one UI thread, but there is no
transaction.  `Continue` is the return to the dialog, which goes on to the next
table with whatever ID it got, `NoId` included.

*Queries.*  A lookup returns any of the rows found, since nothing orders them.  It
may fail, and so does each with a text that ends the quotes it is pasted into;
both look like an empty result.  Text fields are compared with ILIKE, where a text
may match others (`Likes`) and one with a backslash does not match itself
(`Misread`).  `Create` may be refused by NOT NULL or a foreign
key (`Insertable`), or fail with or without the row in the table.

*Abstractions.*  Columns that no lookup reads and no constraint names are left out.
Imports are begun by Browse; Save only logs, and `TODO.md:2` plans to move the
inserts there.  The form may hold an event that was never stored (`EventOfNoRow`,
see `AdminTree_saved`).  The lookup of a class ignores the organization, as the
code does.  A car without a model matches no key, and is created each time.

### 3.7 AdminTree

*State.*  `db`, and the three queries of the lists, `jobs`.  `listed` and `mTreeItems` are
the three maps of messages and the three maps of items.  `items` is the tree: an
item is known by its address, `<<type, id>>` or, if Add made it, `<<"new", k>>`, so
that a pointer that outlives its item can be told from one that does not.
`current`, `mpAddItem`, `treeEnabled`, `buttonsEnabled` and `mpEvent` are the selection,
the add under way and the form.  `removed` is a history, and so is `overwritten`, the
events that another client saved after this one last listed or saved them.  `crashed`
says that a deleted item was used: undefined behaviour, after which the UI does
nothing more.

*Actions.*  `ReadList` and `DeliverList` for each type, the latter with the whole
`rebuildTree`, which is three passes of `rebuildTreeOf` over the lists it is given;
`Select`, `addClicked`, `deleteClicked`, `eventSaved`, `eventCancelled`; and
`ChangeElsewhere` for other clients, which add and delete seasons and events and save
events.  Each one that changes the current item includes `treeSelectionChanged`.

*External.*  When an item is removed, QTreeWidget first selects a sibling, or the
parent, or nothing (`Successors`), and deletes all below it (`Below`).

*Without subscriptions.*  The lists are asked for once, in the constructor, and the
widget is not told of changes.  So when another client saves an event
(`ui/AdminWidget.cpp:418-422`), its item here keeps the old text, and the next Save here,
which sends the whole form, overwrites what the other client saved.  No text of the
repository says otherwise; `ItemsShowTheirRow` excuses the item until this client saves
the event itself, and says that nothing else makes an item differ from its row.

*Abstractions.*  Another client's Save changes the name of an event and leaves it in its
season, since the form has no field for that.  The database refuses to delete a
season with events, and an event with registrations or runs: these are not modelled,
so `Destroy` may be refused for any event.  Dates are treated like names; of
organizations and seasons only their places in the tree are kept.

### 3.8 TimingInput

*State.*  What the device has `sent`; `rx`, the bytes that wait in the port;
`mDataBuffer` of the codec; `delivered` and `accepted`, the histories of what the
codec was given and took for a message.  `mpSerialPort` is closed, open, or broken
with an error still to be met, `mpTimer` the reconnect timer, `present` whether the
port is plugged in.  `codec`, `transport` and `mFileMode` are the configuration.  A
byte is `<<m, i>>`, the i-th of message m, so that it can be seen where a line that
was put together wrongly comes from.  `AllBytes` are all of them and `Stream`
lists them in the order they are sent; both are definitions the proofs can take
apart, and so are `InOrder`, which lists a set of places in ascending order, and
`Lines`, the lines that `split` finds and the codec accepts.

*Actions.*  `StartSerial` and `StartFile` for `main`; `open` within it and within
`handleTimeout`; `handleReadyRead` with `decodeData`, `handleError` with `resetError`;
`Send`, `Break` and `PlugIn` for the world.  Data is handed over in chunks of any
length.  A byte is lost while the port is not open, when the port is closed with
bytes in it, and on the line.

*Abstractions.*  `rMsgs` is never filled by a codec and `handleMessagesRead` only logs,
so the model ends at the accepted lines; the numbers in them are only logged.
`errorOccurred` is handled at once, so `open` never finds an error set.  A file is
not opened again by anything.  The file modes kept are those that change what is
read: both of `read` and `write` read (`transport/FileIO.cpp:51-56`), and `text`, the
default, drops the carriage returns that the codecs wait for, which is why
`config/timers.conf` turns it off.


## 4. The runs

| run | checks | instance |
| --- | --- | --- |
| `DbThreadPool_pool` | `TypeOK`, `AddDatabaseExclusive`, `RequestsRunOnInitialisedThreads`, `ImplementsWorkerPool`, `ConstructorReturns`, `ServedByAnySurvivor` | 3 threads, 2 requests, fairness |
| `DbThreadPool_lost` | violates `EveryInitJobReturns` | 2 threads, 1 request, fairness |
| `RunTable_rows` | `TypeOK`, `MapsAgreeWithRows`, `RowsShowTheirOwn`, `NoRunMissing`, `LoadedTableComplete`, `StaleOnlyIfOvertaken`, `NewRunsFindWhatWasLoaded` | 3 runs, 2 selections, 1 change, 1 failure, a shared car and a shared driver |
| `RegistrationTable_table` | `TypeOK`, `CountCoversRows`, `LoadedTableComplete`, `StaleOnlyIfOvertaken`, `CountFollowsRows` | 2 registrations, 2 selections, 1 edit, 1 change, 1 failure |
| `RegistrationTable_missing` | violates `MissingIsRowsNotCheckedIn` | 2 selections |
| `RunChain_links` | `TypeOK`, `LinksStayInEvent`, `UpToDateClientsLink` | 2 clients, 2 events, 3 runs, clicks on up to 2 rows, 1 failure, symmetry |
| `RunChain_order` | violates `LinkedRunsInOrder` | 1 client, 1 event, 3 runs |
| `DbListener_listen` | `TypeOK`, `ImplementsNotificationStream`, `NoGapWhileListening`, `SubscriptionsEstablished`, `ShutdownCompletes` | 3 models of 2 tables, 2 commits, 2 drops, fairness |
| `EventImport_import` | `TypeOK`, `DuplicatesAreRaces`, `RegistrationsOwnTheirCar`, `EveryRowRegistered`, `ReimportCreatesNothing` | 2 clients, 3 files made of 3 rows, a stored and an unstored event, up to 3 imports, 1 failure, symmetry |
| `AdminTree_tree` | `TypeOK`, `FormFollowsTree`, `TreeComplete`, `ItemsShowTheirRow` | 3 rows, 2 more IDs, 2 items added, 1 change elsewhere, 1 failure |
| `AdminTree_saved` | violates `SavedItemHasItsRow` | the same with no change and no failure |
| `TimingInput_lines` | `TypeOK`, `CutsDoNotMatter`, `LossesStayLocal`, `Reconnects` | 4 messages, both codecs, port and file, 1 byte lost on the line, 1 break, 1 failed opening, fairness |

*What they show.*  `RunTable_rows` and `RegistrationTable_table`: in whatever order
results, notifications, edits and switches of event come, no row shows another's
driver or car, none is missing, the counter keeps to the rows, a stale row has
one cause only, a result overtaken by a notification, and what was loaded for the
event is in memory when a run comes in.  `RunChain_links`: runs name a
run of their event, and a client whose table is up to date extends the chain.
`DbListener_listen`: models are told in commit order over all tables, without a gap
while a session lasts, and the program ends.  `EventImport_import`: whatever fails or runs at
the same time, a registration is for a car of its driver, a duplicate has a race,
a failed lookup or a text that does not find itself behind it, and an import without a failure registers every
complete line once.  `AdminTree_tree`: the lists may come in any order, between any
clicks; the form always edits the item that is selected, and only another client's
save leaves an item with an old text.  `TimingInput_lines`: where
Qt cuts the data does not matter, and a loss spoils no more than the message it
hits and the next.

*Bounds.*  Two threads already interleave in every way the start-up distinguishes
(one sleeping, one late); the third lets two compete for the mutex while one
sleeps.  With one thread surviving the start-up, one of two requests waits in the
queue; the proofs cover every number of both.  The tables have two events, of which
one has all the rows: enough for results that come for an event that is no longer
selected, and for entries that a switch leaves behind.  Of three runs two share a
car, two a driver and two neither.  Two selections include the same event twice,
and put two results on their way that one change can come between.  `MaxChanges`,
`MaxEdits`, `MaxSelections` and `MaxFailures` bound the environment only; no handler
is bounded.

Three runs are the fewest that the binary search can misplace, and the fewest with
a head, a link and a fork; two clients are enough for one to act on a table that
the other has made stale.  Two of the three models of `DbListener` share a table and
its emitter; two commits are what an order needs, and two drops break a connection
that was opened again.

The files of `EventImport` have a driver with and without a member number (the same
person by different keys), a name in upper and in lower case, a name with a quote, a
class with a backslash and a car without a model.  The quote and the missing model
keep the file of two rows out of `ReimportCreatesNothing`, which the two others keep
busy, together or one after the other.  `MaxImports` counts an import that starts during another twice, so
that three allows two at a time, or one after the other with another between them.
In `AdminTree` two IDs are left for an event created here and a row added elsewhere;
two added items make siblings that Delete can select.  The messages of `TimingInput`
are two bytes long, so that there is a first byte that tells the type and one that
does not; one message is internal and one a byte too long, so that a line of the
right size can also arise by the loss of a byte.

*What the runs do not promise.*  `StaleOnlyIfOvertaken` excuses two cases on purpose.
A result read before a change and delivered after its notification replaces the
newer row, and nothing corrects it until the next change.  And in `RunTable`, a
query that fails after a switch of event can leave the rows to a result that was
read for the selection before.  `LoadedTableComplete` speaks of the rows that share
neither driver nor car with another: the maps hold one row per driver and car, so
with sharing only the last row is completed; that follows from the data structure
and no text of the repository says otherwise.  For the registrations it lets as
many be missing as other clients made changes, because the table ignores
registrations it does not know.  `ReimportCreatesNothing` speaks of entries that say
which driver, class and car they mean.  `TreeComplete` excuses a use of a deleted
item after the user deleted a season: its rows, and those below, are still in the
maps.

*Fairness.*  For the pool, weak fairness of the constructor and of each thread: the
operating system keeps running what can run.  Posting is not fair.  Each thread
takes the mutex a bounded number of times, so weak fairness is enough although
QMutex is not fair.  For the listener, weak fairness of both threads and, within the
listener's event loop, of each kind of event: posted calls, the socket, the timer,
its end.  That the server can be reached is assumed only where a property says so,
as an antecedent.  For the timing input, weak fairness of `main`'s start, the timer and
the error handler, `StartSerial`, `handleTimeout` and `handleError`; the event loop runs
`handleReadyRead` as well, but no property needs it.  That the port stays plugged in
is an antecedent of `Reconnects`.  The user, other clients, the device
and the person at the plug are never obliged to act.  The other modules state no
liveness and no fairness: their properties at rest have "nothing is on its way" as
an antecedent.

*Deadlock* is not checked, because every model comes to rest once the bounded
environment is done, or the program has ended.


## 5. Findings

* `DbThreadPool_lost`: a thread can release the semaphore and lose the race to the
  mutex.  The constructor then takes all permits, locks, wakes and returns; the
  thread reaches its wait afterwards and sleeps for ever.  The comment at
  `db/DbThreadPool.cpp:20` counts on the started threads "for the rest of the
  thread pool".  With one such thread per pool thread, no query is ever answered.
  `ServedByAnySurvivor` shows what is left: one thread that got through serves
  all requests.
* `RegistrationTable_missing`: `reset` does not clear the counter of checked-in
  rows, so from the second selection on "In" is too high and "Missing" too low, or
  wraps.
* `RunChain_order`: `lessThan` returns the opposite of what the comment at
  `ui/MultiSortFilterProxyModel.cpp:122` says.  The third run of an event is placed
  before the second, rows 1, 3, 2; from then on the last row is run 2, and every
  later run names it as its previous run.
* `AdminTree_saved`: the ID of a created event is taken only from a result of more
  than one message, which `create` never gives, and is then overwritten by that of
  the message saved (`ui/AdminWidget.cpp:407`, `:428`).  The item keeps the ID 0:
  later saves and Delete reach no row, and an import registers nobody.
* `RunTable_rows`: a run that arrives after the loading gets its driver and its car from
  memory but not its class (`ui/RunTableModel.cpp:490-496`), although the class is there
  and the comment at `ui/RunTableModel.cpp:398` wants it ready, too.  This is what the
  code always does, so it is part of a property that holds, `NewRunsFindWhatWasLoaded`,
  for every new row and not for one trace.

Also seen while modelling, without a run of their own:

* The trigger's payload is no JSON if a text has, say, a line feed
  (`src/db/db_table_create.sql:209`): the models then get an empty message and miss the
  change (section 3.5).
* An administration tree that is open does not see what another client saves, and puts
  the old text back with its next Save (section 3.7).
* The comments at `db/DbListener.cpp:82` and `:111` say that the constructor waits
  "until we're connected"; it waits until the connection has been tried.  With the
  database out of reach at the start, the subscriptions made then fail and are not
  repeated.  The same is true after any restart of the server, since a new session
  listens to nothing and `tryConnect` (`db/DbConnection.cpp:58`) only opens it.
* A class without a subclass is looked for by its name alone, in any organization,
  and finds one with a subclass (`db/CarClassModel.cpp:63`).
* The reconnect timer starts after the first successful opening, so a port that is
  not there at the start is never tried again
  (`transport/SerialPortAsyncReader.cpp:100`, `:118`).
* A text with a backslash, pasted into a pattern of ILIKE, does not find itself
  (`db/BaseModel.cpp:521`).  Each import of such a row makes a twin, without any
  race or failure; `DuplicatesAreRaces`, which denied that until its proof was
  tried, says so now.
* A text with `%` or `_` is a wildcard, since ILIKE gets it as it is
  (`db/BaseModel.cpp:521`): it finds the rows of others, and a second import may find
  another of them than the first and create a car for it.  `ReimportCreatesNothing`
  claimed more than that until its proof was tried; `Identifying` now asks that texts
  match as those do that differ in case only, and that an entry finds itself.
* The example lines at `codec/RaceAmericaTlinkCodec.cpp:22` that have a dot are a
  character longer than the codec accepts.


## 6. What is proved

Each theorem is of the form `Spec => []Inv`, `Spec => [][A]_vars` or
`Spec => Abstract`, and holds for every value of the constants that meets the
module's assumption.  The assumptions say what kind of thing each constant is, that
marks like `None` are not among the things they stand beside, and no more than
this: the sets of threads, runs, registrations, models and importing clients are
finite; a file has a line; the rows that `AdminTree` starts with meet their foreign
keys.  TLC evaluates them in every run.

Each invariant is proved by one that is inductive and that TLC had checked
before.  Where a proof would go by induction over numbers or lists, which the
provers cannot use, it takes a least counterexample (`LeastNumber`).

### 6.1 DbThreadPoolProofs

* `TypeCorrect`, `RegistrationIsExclusive`, `RequestsFindAConnection`, `BarrierHolds`: the
  invariants `TypeOK`, `AddDatabaseExclusive`, `RequestsRunOnInitialisedThreads`,
  `Barrier`;
* `PoolImplementsWorkerPool`: the pool's specification implies `WorkerPool`'s under
  the mapping `Pool`.

*The argument.*  None of the three start-up properties is inductive.  What holds them
up is arithmetic: `LoopsInv` says that the threads created are as many as the
iterations of the first loop, and that the permits plus those already acquired
are as many as the threads past `release`.  So when `acquired` reaches the number
of threads, every thread exists and has released, and `Barrier` follows by
cardinality.  `MutexInv` says who may own the mutex at which program counter, which
makes registering connections exclusive.  `ThreadInv` says what each thread may do
in each state of the pool: in particular that nobody gets past the wait before
`wakeAll`, so that until then no init job ends and no thread can take a second
one; hence each thread opens its own connection, and requests, which are posted
only after the constructor, find it.  `QueueInv` says that the queue is empty
until then.  Their conjunction with `TypeOK` is `IInv` (`InductiveInvariant`); it and
`Barrier` are proved and not among the properties of a run.  The refinement needs one
more lemma on top of `IInv`: a posted request is in one place, the queue, a thread or
among the answered (`PlaceInv`).  An init job's end then maps to `BecomeReady`, and all
the rest of the start-up stutters except `MainWakeAll`, which opens the gate.

### 6.2 RunTableProofs

All properties of `RunTable_rows`: `TypeCorrect`, `MapsLeadToLiveRows`, `RowsNeverMixUp`,
`NewRowsAreReady`, `EveryRunHasARow`, `StaleOnlyByOvertaking`, `LoadedTableIsComplete`.

*The argument* has four layers, each inductive once the first is known.
`RowInv`: rows, items and maps describe one table; each run has one row, and once it
has, the maps of its driver and car lead to rows.  This is the layer for what rows
show, because `updateRun` copies the pointers of the row that the map leads to.
`NewsInv`: nothing on its way is newer than the database (`NothingNewer`), the last
notification of a run is the current one (`CurrentLast`), and while no query failed
the current version of every run of the event has been heard of or will be.
`LoadInv`: what a row lacks is asked for by a query on its way, or by one that a
query on its way will ask.  `KnownInv` says the same of the memory, what is registered
for the event and not there: a row that `updateRun` puts in the place of another has
taken the driver and the car from it, so what is known stays known (`StillKnown`),
until a switch of event, which asks for all of it again.

The history of `StaleOnlyIfOvertaken` used to be a mark on rows that a result set
back, and the proof showed that this is not enough: two results that read versions
1 and 2 can come after the notification of version 3, the first sets the row back
and the second forward again, to 2, where the mark was taken off.  `newest`
remembers the newest version the row has shown.

### 6.3 RegistrationTableProofs

All properties of `RegistrationTable_table`: `TypeCorrect`, `CounterCoversRows`,
`CounterFollowsRows`, `StaleOnlyByOvertaking`, `LoadedTableIsComplete`.

*The argument* has the same three layers.  `CountInv`: an item without a row is not
checked in, so adding what changes keeps the counter at or above the number of
rows that are checked in; the sum over a list of any length is by cardinalities.
`FreshInv` is `NewsInv` for a table whose notifications reach known rows only, and
`LoadInv` counts the registrations that no query will bring (`Lost`): each needs
a change by another client.

### 6.4 DbListenerProofs

`TypeCorrect`, `NoNotificationMissed` (`NoGapWhileListening`), `EachModelToldOnceInOrder`
(`ToldOnceInOrder`, which no run lists: `NotificationStream` implies it) and
`ListenerImplementsStream`.

*The argument.*  `ControlInv` is about the two threads.  `OrderInv` puts what models
have been told, what is posted to them and what is on the wire into one sequence,
which is in commit order without repetition; `OwedInv` says that what is owed to a
model is somewhere in it, until the program quits.  The refinement then needs one
step for each action: delivering is `Tell` of the oldest change, connecting a model
is `Join` with newer changes only, and the end of a session is `Lose` of the newest,
everything that was on the wire.

### 6.5 RunChainProofs

`TypeCorrect`, `LinksLeadBack` (`LinksStayInEvent`), `UpToDateMeansLinked`
(`UpToDateClientsLink`).

*The argument.*  `RowsInv` says that rows and notifications are of stored runs, and
rows of the selected event; so the last row, whatever the sort made of it, is an
earlier run of that event.  `CompleteInv` says that while nothing failed each run of
the event is a row, or is on its way.  Both need that the sort loses and invents no
row.  `PlaceInOrder` shows that the binary search, although `lessThan` is no order,
always ends at a place in the table; from there on the proof needs only the set of
rows.

### 6.6 EventImportProofs

All properties of `EventImport_import`: `TypeCorrect`, `CarsAreTheDrivers`
(`RegistrationsOwnTheirCar`), `NoOtherDuplicates` (`DuplicatesAreRaces`),
`CleanImportRegistersAll` (`EveryRowRegistered`), `AgainCreatesNothing`
(`ReimportCreatesNothing`).

*The argument.*  Rows are only added, so what an import knows of the tables stays
true while others write (`Grows`).  `TablesOK` says that rows have their mandatory
fields and refer to rows, `CarsOwned` and `TwinsUnseen` are the properties of the
stored rows, and `JobOK` what an import knows: the IDs it has are of stored rows,
its car is of its driver (a car is looked for by its driver, and created with it),
and the lookups behind it found no twin among the rows they read.  `FinishedOK` is
`EveryRowRegistered` in a form that survives every step.

`ReimportCreatesNothing` compares two imports and needs a second layer on top,
`TraceInv` (`TraceInvariant`): every row was the message of some entry
(`FromEntries`); an import that has no failure behind it has got for each entry one
row per table, which is the entry's message or one that a lookup of it finds
(`Gets`, `JobTrace`), and so has, once it has ended, each file it read (`FinishedStored`).
When the file comes again, the rows got the first time are still there.  If the
entries are `Identifying` and there are no twins, then what a lookup finds is that row
and no other (`OneRow`), so that the second import goes from table to table with the
same IDs (`SameIds`) and so with the same messages; and the lookup that finds the row
cannot be behind it without having found it (`NotFound`), so that `Create` is never
reached (`AgainFinds`).

### 6.7 AdminTreeProofs

All properties of `AdminTree_tree`: `TypeCorrect`, `FormFollows`, `EachRowOnce`,
`ShowsWhatIsStored`.

*The argument.*  `MapInv` is the heart of it: the maps of items are a function of the
lists, exactly the listed rows whose parents are listed (`MapsOf`), however the lists
came.  A lemma for one pass of `rebuildTree` and one for its three passes carry it
over `DeliverList`; with the events first (`FaultEventsFirst`) it is false.  `TreeInv`
gives the tree its three levels, and each item made from a row the row's address
and place; `RemovedInv` says that of the rows in the maps exactly those the user
deleted have no item; together they make the number of items of a row one or none.
`FormInv` is `FormFollowsTree`, which is inductive with the shape of the tree.  `StoredInv` and
`ShownInv` carry names and parents from the database through the queries to the
items: lists come once, so a name read before an event was edited can only make an
item that is not there yet, and a name cannot be edited here without an item.  Both
leave out the events that another client saved (`overwritten`), which come back in when
they are listed or saved here.

### 6.8 TimingInputProofs

The three invariants of `TimingInput_lines`, for any list of messages, any size of
line and any number of losses: `TypeCorrect`, `CutsDoNotMatterAlways`,
`LossesStayLocalAlways`.

*The argument.*  `CutsDoNotMatter` is not inductive in its own words, which are about
places in what came.  `ReadInv` says the same in the codec's: what was accepted are
the `Lines` of all that was delivered, and the buffer is its `LastPiece`.  A line
depends on nothing before the carriage return it follows (`LineShift`) and on nothing
after it (`LinePrefix`); so the lines of what came and a chunk with a carriage
return are those of what came, then those of the buffer and the chunk
(`ChunkWithEnd`), and a chunk without one adds none (`ChunkWithoutEnd`).  Hence
`decodeData`, which looks for a carriage return in the new data only, keeps `ReadInv`
(`Decodes`).  That the places of the lines, in ascending order, are those of the
reference is `ReadAsReference`; there is one way to list a set in ascending order
(`InOrderIsOne`).

`OrderInv` adds that what was delivered and what waits in the port came in the order
it was sent, with the bytes still to be sent behind all of it.  Losses only leave
gaps in that order, wherever they happen.  A byte and the next one of its message,
if both came, then stand side by side (`SideBySide`), so that a message all of whose
bytes came stands in one piece (`WholeMessage`); with the carriage return before it,
it is a line, at one place only (`IntactAreRead`).  For the other half
(`WrongSpansLoss`), take an accepted line with no loss between what came before it
and its end: the message whose carriage return ends the line came whole, it begins
no earlier than the line, and no later, since the carriage return of what would
stand between would have come too.  So the line is that message.

### 6.9 Only model-checked

* The liveness properties `ConstructorReturns`, `ServedByAnySurvivor`,
  `SubscriptionsEstablished`, `ShutdownCompletes` and `Reconnects`: fairness and ENABLED
  are outside what the proof system handles.
* What the four runs that find a violation show.


## 7. Not modelled

See the components in `PROJECT.json`.  The timing state machine is a stub without
transitions, and no codec gives it a message.  Painting and delegates,
configuration, logging, colours and the programs' main functions have no state
that others depend on.  The selection widget and the main window only call
`setEventId` of the tables, which the tables' models allow at any time with any
event; the filter menus and splitters of the tables change what is shown, not
what is stored.  The archived server is not built.  The lifetime of the models
(a job that outlives the one that asked for it), Qt's own views, and the pool's
destruction are outside the models.
