------------------------------ MODULE RunChain ------------------------------
(***************************************************************************)
(* ui/TimingWidget.cpp and ui/MultiSortFilterProxyModel.cpp: how runs are  *)
(* added and ordered.  A run names the run before it, so that the runs of  *)
(* an event are linked lists in the database; the table is sorted by the   *)
(* links, and the run a new one names is the one in the table's last row.  *)
(* Several clients add runs, and each one's table follows the database by  *)
(* queries and notifications (RunTable has the details).                   *)
(*                                                                         *)
(* Runs are numbered in commit order.  Nothing in the program updates or   *)
(* deletes one.  The sorted row insertion is QSortFilterProxyModel's, with *)
(* lessThan overridden.                                                    *)
(***************************************************************************)
EXTENDS Naturals, Sequences, FiniteSets, SequencesExt

CONSTANTS
  Clients, Events,
  None,            \* no event is selected; a run has no previous run
  MaxRuns,         \* bounds: runs in the database,
  MaxSelected,     \*   registrations selected when Add is clicked,
  MaxSelections,   \*   selections of an event, of all clients,
  MaxFailures      \*   queries and creations that fail

ASSUME ChainAssumption ==
  /\ None \notin Events \cup Nat
  /\ {MaxRuns, MaxSelected, MaxSelections, MaxFailures} \subseteq Nat

VARIABLES
  db,           \* the run table: db[i] is the event and the previous run of run i
  notifs,       \* notifs[c]: runs whose notification is on its way to c
  loads,        \* loads[c]: runs queries of c: asked, or with a result to deliver
  selections,   \* calls of eventChanged so far
  failures,     \* queries and creations that failed so far
  mEventId,     \* mEventId[c]: the event c has selected
  rows,         \* rows[c]: the runs of c's table, in the order of the proxy
  adding        \* adding[c]: runs the click that c handles has yet to create

vars == <<db, notifs, loads, selections, failures, mEventId, rows, adding>>

RunIds == 1..MaxRuns
Run  == [event : Events, prev : RunIds \cup {None}]
Load == [sel : 1..MaxSelections, read : BOOLEAN, upto : 0..MaxRuns]

TypeOK ==
  /\ db \in Seq(Run) /\ Len(db) <= MaxRuns
  /\ notifs \in [Clients -> Seq(RunIds)]
  /\ loads \in [Clients -> SUBSET Load]
  /\ selections \in 0..MaxSelections
  /\ failures \in 0..MaxFailures
  /\ mEventId \in [Clients -> Events \cup {None}]
  /\ rows \in [Clients -> Seq(RunIds)]
  /\ adding \in [Clients -> 0..MaxSelected]

Init ==
  /\ db = <<>>
  /\ notifs = [c \in Clients |-> <<>>]
  /\ loads = [c \in Clients |-> {}]
  /\ selections = 0
  /\ failures = 0
  /\ mEventId = [c \in Clients |-> None]
  /\ rows = [c \in Clients |-> <<>>]
  /\ adding = [c \in Clients |-> 0]

(* The UI thread of c is not inside a handler.                             *)
Idle(c) == adding[c] = 0

-----------------------------------------------------------------------------
(* The order of the table.                                                 *)

IsHead(r) == db[r].prev = None

lessThan(l, r) ==
  \/ IsHead(l)
  \/ ~IsHead(r) /\ l # db[r].prev

(* The binary search by which the proxy places a row, in a range of the    *)
(* order given by its first and last position.                             *)
InsertionPoint(order, r) ==
  LET search[range \in (1..(Len(order) + 1)) \X (0..Len(order))] ==
        LET mid == (range[1] + range[2]) \div 2 IN
        IF range[1] > range[2] THEN range[1]
        ELSE IF lessThan(r, order[mid]) THEN search[<<range[1], mid - 1>>]
        ELSE search[<<mid + 1, range[2]>>]
  IN  search[<<1, Len(order)>>]

Insert(order, r) == InsertAt(order, InsertionPoint(order, r), r)

(* The changed row of r, taken out and placed again.                       *)
Replace(order, r) ==
  Insert(RemoveAt(order, CHOOSE i \in DOMAIN order : order[i] = r), r)

(* Orders of the table after updateRun(r).  A new row is inserted; the     *)
(* proxy may place a changed one again, when its neighbours ask for it.    *)
updateRun(order, r, event) ==
  IF db[r].event # event THEN {order}
  ELSE IF r \in ToSet(order) THEN {order, Replace(order, r)}
  ELSE {Insert(order, r)}

(* The same for all runs of a list, in turn.                               *)
updateRuns(order, list, event) ==
  LET after[k \in 0..Len(list)] ==
        IF k = 0 THEN {order}
        ELSE UNION {updateRun(o, list[k], event) : o \in after[k - 1]}
  IN  after[Len(list)]

-----------------------------------------------------------------------------
(* The table follows the database.                                         *)

(* Fault of eventChanged: the table keeps the rows of the event before.    *)
FaultKeepRows(c, e) ==
  /\ Idle(c)
  /\ selections < MaxSelections
  /\ selections' = selections + 1
  /\ mEventId' = [mEventId EXCEPT ![c] = e]
  /\ loads' = [loads EXCEPT ![c] = @ \cup {[sel |-> selections', read |-> FALSE, upto |-> 0]}]
  /\ UNCHANGED <<db, notifs, failures, rows, adding>>

(* The run table is reset and the runs are asked for.                      *)
eventChanged(c, e) ==
  /\ Idle(c)
  /\ selections < MaxSelections
  /\ selections' = selections + 1
  /\ mEventId' = [mEventId EXCEPT ![c] = e]
  /\ rows' = [rows EXCEPT ![c] = <<>>]
  /\ loads' = [loads EXCEPT ![c] = @ \cup {[sel |-> selections', read |-> FALSE, upto |-> 0]}]
  /\ UNCHANGED <<db, notifs, failures, adding>>

(* A pool thread reads the runs there are; a query that fails reads none.  *)
ReadRuns(c) ==
  \E j \in loads[c], upto \in {0, Len(db)} :
    /\ ~j.read
    /\ loads' = [loads EXCEPT ![c] = (@ \ {j}) \cup {[j EXCEPT !.read = TRUE, !.upto = upto]}]
    /\ \/ upto = Len(db) /\ UNCHANGED failures
       \/ upto # Len(db) /\ failures < MaxFailures /\ failures' = failures + 1
    /\ UNCHANGED <<db, notifs, selections, mEventId, rows, adding>>

(* The runs come sorted by car, which is any order of them.                *)
setRuns(c) ==
  /\ Idle(c)
  /\ \E j \in loads[c] :
       /\ j.read
       /\ loads' = [loads EXCEPT ![c] = @ \ {j}]
       /\ \E list \in SetToSeqs(1..j.upto) :
          \E order \in updateRuns(rows[c], list, mEventId[c]) :
            rows' = [rows EXCEPT ![c] = order]
  /\ UNCHANGED <<db, notifs, selections, failures, mEventId, adding>>

(* Fault of runNotification: a run that has no row yet is left to queries. *)
FaultKnownRunsOnly(c) ==
  /\ Idle(c)
  /\ notifs[c] # <<>>
  /\ notifs' = [notifs EXCEPT ![c] = Tail(@)]
  /\ UNCHANGED <<db, loads, selections, failures, mEventId, rows, adding>>

runNotification(c) ==
  /\ Idle(c)
  /\ notifs[c] # <<>>
  /\ notifs' = [notifs EXCEPT ![c] = Tail(@)]
  /\ \E order \in updateRun(rows[c], Head(notifs[c]), mEventId[c]) :
       rows' = [rows EXCEPT ![c] = order]
  /\ UNCHANGED <<db, loads, selections, failures, mEventId, adding>>

(* A row changes because its driver, car or class did.                     *)
itemDataChanged(c) ==
  /\ Idle(c)
  /\ \E r \in ToSet(rows[c]) :
       rows' = [rows EXCEPT ![c] = Replace(@, r)]
  /\ UNCHANGED <<db, notifs, loads, selections, failures, mEventId, adding>>

-----------------------------------------------------------------------------
(* Add.  The loop of addClicked creates a run for every registration that  *)
(* is selected, each in the database before the next, while other clients  *)
(* do the same; c handles no notification in between.                      *)

(* Fault of addClicked: a run for each of two selected cells of a row.     *)
FaultRunPerCell(c) ==
  /\ Idle(c)
  /\ mEventId[c] # None
  /\ \E n \in 1..MaxSelected : adding' = [adding EXCEPT ![c] = 2 * n]
  /\ UNCHANGED <<db, notifs, loads, selections, failures, mEventId, rows>>

addClicked(c) ==
  /\ Idle(c)
  /\ mEventId[c] # None
  /\ \E n \in 1..MaxSelected : adding' = [adding EXCEPT ![c] = n]
  /\ UNCHANGED <<db, notifs, loads, selections, failures, mEventId, rows>>

(* The last row of the table, which may have no rows.                      *)
PreviousRun(c) == IF rows[c] = <<>> THEN None ELSE Last(rows[c])

(* A creation that fails is logged, and the loop goes on.                  *)
createRun(c) ==
  /\ adding[c] > 0
  /\ adding' = [adding EXCEPT ![c] = @ - 1]
  /\ \/ /\ Len(db) < MaxRuns
        /\ db' = Append(db, [event |-> mEventId[c], prev |-> PreviousRun(c)])
        /\ notifs' = [k \in Clients |-> Append(notifs[k], Len(db) + 1)]
        /\ UNCHANGED failures
     \/ /\ failures < MaxFailures
        /\ failures' = failures + 1
        /\ UNCHANGED <<db, notifs>>
  /\ UNCHANGED <<loads, selections, mEventId, rows>>

-----------------------------------------------------------------------------
Next ==
  \E c \in Clients :
    \/ \E e \in Events : eventChanged(c, e)
    \/ ReadRuns(c) \/ setRuns(c) \/ runNotification(c) \/ itemDataChanged(c)
    \/ addClicked(c) \/ createRun(c)

Spec == Init /\ [][Next]_vars

-----------------------------------------------------------------------------
RunsOf(e) == {i \in DOMAIN db : db[i].event = e}
UpToDate(c) == loads[c] = {} /\ notifs[c] = <<>>

(* Links lead from a run to an earlier run of the same event, so the runs  *)
(* of an event are lists that end and never cross into another event,      *)
(* although addClicked reads the link from a table that lags behind.       *)
LinksStayInEvent ==
  \A i \in DOMAIN db : ~IsHead(i) => db[i].prev < i /\ db[db[i].prev].event = db[i].event

(* A second list is only started for an event by a client that did not     *)
(* have its runs yet: one that is up to date, in an event that has runs,   *)
(* links the first run of a click to one of them.                          *)
UpToDateClientsLink ==
  [][\A c \in Clients :
       /\ failures = 0 /\ UpToDate(c)
       /\ adding'[c] < adding[c] /\ db' # db
       /\ Last(db').prev = None
       => RunsOf(mEventId[c]) = {}]_vars

(* "if the left ID is the same as the right's previous ID then left is     *)
(* less than right": in a table, a run comes after the run it names.       *)
LinkedRunsInOrder ==
  \A c \in Clients : \A i, j \in DOMAIN rows[c] :
    db[rows[c][j]].prev = rows[c][i] => i < j
=============================================================================
