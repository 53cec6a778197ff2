------------------------------ MODULE AdminTree -----------------------------
(***************************************************************************)
(* ui/AdminWidget.cpp and ui/EventWidget.cpp: the tree of organizations,   *)
(* seasons and events, and the form that edits the event selected in it.   *)
(* The tree is filled by three asynchronous queries, each asked once; the  *)
(* user selects, adds, edits and deletes meanwhile, and other clients      *)
(* write to the same tables.                                               *)
(*                                                                         *)
(* A tree item is known by its address: <<type, id>> for one made from a   *)
(* row, which happens once per row, <<"new", k>> for one made by Add.  A   *)
(* deleted item's address is in items no more; using it is undefined       *)
(* behaviour, of which the model knows that the program has crashed.       *)
(* Dates are treated like names and are left out, and so are the names of  *)
(* organizations and seasons.                                              *)
(***************************************************************************)
EXTENDS Naturals, FiniteSets, Functions

CONSTANTS
  Names,             \* names of events
  NewEvent,          \* the name <new-event>
  Nil,               \* no item, no parent, no event
  InitialDb,         \* the rows stored at the start, by type and ID
  MaxAdds,           \* bounds: items made by Add in the tree at a time,
  MaxId,             \*   IDs of rows,
  MaxChanges,        \*   changes by other clients,
  MaxFailures        \*   queries that fail

Types == {"organization", "season", "event"}

ParentType == [season |-> "organization", event |-> "season"]

Row == [parent : 0..MaxId, name : Names]

Addresses == (Types \X (1..MaxId)) \cup ({"new"} \X (1..MaxAdds))

Forms == [event : 0..MaxId, season : 0..MaxId, organization : 0..MaxId]

ASSUME AdminAssumption ==
  /\ NewEvent \notin Names
  /\ Nil \notin Addresses \cup Forms
  /\ InitialDb = [t \in Types |-> InitialDb[t]]
  /\ \A t \in Types : /\ DOMAIN InitialDb[t] \subseteq 1..MaxId
                      /\ InitialDb[t] \in [DOMAIN InitialDb[t] -> Row]
  /\ \A t \in Types \ {"organization"} : \A id \in DOMAIN InitialDb[t] :
       InitialDb[t][id].parent \in DOMAIN InitialDb[ParentType[t]]
  /\ {MaxAdds, MaxId, MaxChanges, MaxFailures} \subseteq Nat

VARIABLES
  db,              \* db[t][id]: parent and name of a row
  lastId,          \* the last ID given to a row
  changes,         \* changes made by other clients so far
  failures,        \* queries that failed so far
  jobs,            \* jobs[t]: the list query of t: asked, read with its rows, delivered
  listed,          \* mOrganizations, mSeasons, mEvents, as partial functions from IDs
  mTreeItems,      \* mOrganizationTreeItems, mSeasonTreeItems, mEventTreeItems
  items,           \* the items of the tree, by address
  current,         \* the current item, or Nil
  mpAddItem,       \* the item being added, or Nil
  treeEnabled,
  buttonsEnabled,  \* Add and Delete
  mpEvent,         \* the IDs of the form's event, or Nil: the form is disabled
  removed,         \* rows whose item the user deleted (history)
  overwritten,     \* events another client saved after this one did (history)
  crashed

(* IDs are numbered over all tables.                                       *)
InitialLastId ==
  CHOOSE n \in 0..MaxId : /\ \A t \in Types : DOMAIN InitialDb[t] \subseteq 0..n
                          /\ n = 0 \/ \E t \in Types : n \in DOMAIN InitialDb[t]

ui == <<items, current, mpAddItem, treeEnabled, buttonsEnabled, mpEvent, removed>>
vars == <<db, lastId, overwritten, changes, failures, jobs, listed, mTreeItems, ui, crashed>>

EmptyMap == [x \in {} |-> Nil]

Put(map, key, value) ==
  [k \in DOMAIN map \cup {key} |-> IF k = key THEN value ELSE map[k]]

Init ==
  /\ db = InitialDb
  /\ lastId = InitialLastId
  /\ changes = 0
  /\ failures = 0
  /\ jobs = [t \in Types |-> [state |-> "asked", rows |-> EmptyMap]]
  /\ listed = [t \in Types |-> EmptyMap]
  /\ mTreeItems = [t \in Types |-> EmptyMap]
  /\ items = EmptyMap
  /\ current = Nil
  /\ mpAddItem = Nil
  /\ treeEnabled = TRUE
  /\ buttonsEnabled = FALSE
  /\ mpEvent = Nil
  /\ removed = {}
  /\ overwritten = {}
  /\ crashed = FALSE

-----------------------------------------------------------------------------
(* The database, and the queries that fill the lists.                      *)

Fail == failures < MaxFailures /\ failures' = failures + 1

InDb(t, id) == id \in DOMAIN db[t]

(* A season that cannot be deleted.                                        *)
HasEvents(t, id) == t = "season" /\ \E e \in DOMAIN db.event : db.event[e].parent = id

(* Another client adds a season or an event, deletes one, or saves an      *)
(* event with another name, in the season it is in.  Nothing tells this    *)
(* client of it.                                                           *)
ChangeElsewhere ==
  /\ changes < MaxChanges
  /\ changes' = changes + 1
  /\ \/ /\ lastId < MaxId
        /\ lastId' = lastId + 1
        /\ \E t \in {"season", "event"} : \E parent \in DOMAIN db[ParentType[t]], name \in Names :
             db' = [db EXCEPT ![t] = Put(@, lastId', [parent |-> parent, name |-> name])]
        /\ UNCHANGED overwritten
     \/ /\ \E t \in {"season", "event"} : \E id \in DOMAIN db[t] :
             /\ ~HasEvents(t, id)
             /\ db' = [db EXCEPT ![t] = Restrict(@, DOMAIN @ \ {id})]
        /\ UNCHANGED <<lastId, overwritten>>
     \/ /\ \E id \in DOMAIN db.event, name \in Names :
             /\ db' = [db EXCEPT !.event[id].name = name]
             /\ overwritten' = overwritten \cup {id}
        /\ UNCHANGED lastId
  /\ UNCHANGED <<failures, jobs, listed, mTreeItems, ui, crashed>>

(* A pool thread lists a table; a query that fails lists nothing.          *)
ReadList(t) ==
  /\ jobs[t].state = "asked"
  /\ \/ /\ jobs' = [jobs EXCEPT ![t] = [state |-> "read", rows |-> db[t]]]
        /\ UNCHANGED failures
     \/ /\ Fail
        /\ jobs' = [jobs EXCEPT ![t] = [state |-> "read", rows |-> EmptyMap]]
  /\ overwritten' = IF t = "event" THEN {} ELSE overwritten
  /\ UNCHANGED <<db, lastId, changes, listed, mTreeItems, ui, crashed>>

-----------------------------------------------------------------------------
(* The tree follows the lists.                                             *)

(* rebuildTreeOrganization, rebuildTreeSeason and rebuildTreeEvent for all *)
(* rows of the list.  A row that has an item updates it, another one gets  *)
(* an item if its parent has one.  ok says that no deleted item was used.  *)
rebuildTreeOf(t, rows, tree) ==
  LET known == DOMAIN rows \cap DOMAIN tree.map[t]
      fresh == IF t = "organization" THEN DOMAIN rows \ known
               ELSE {id \in DOMAIN rows \ known :
                       rows[id].parent \in DOMAIN tree.map[ParentType[t]]}
      parent(id) == IF t = "organization" THEN Nil
                    ELSE tree.map[ParentType[t]][rows[id].parent]
      updated == {tree.map[t][id] : id \in known}
      added == {<<t, id>> : id \in fresh}
  IN  [map |-> [tree.map EXCEPT ![t] =
                  [id \in DOMAIN @ \cup fresh |-> IF id \in fresh THEN <<t, id>> ELSE @[id]]],
       ok |-> /\ tree.ok
              /\ updated \subseteq DOMAIN tree.items
              /\ \A id \in fresh : parent(id) \in DOMAIN tree.items \cup {Nil},
       items |->
         [p \in DOMAIN tree.items \cup added |->
            IF p \in added
            THEN [id |-> p[2], type |-> t, parent |-> parent(p[2]), name |-> rows[p[2]].name]
            ELSE IF p \in updated
            THEN [tree.items[p] EXCEPT !.name = rows[tree.items[p].id].name]
            ELSE tree.items[p]]]

Tree == [map |-> mTreeItems, items |-> items, ok |-> TRUE]

BecomesTree(tree) ==
  /\ mTreeItems' = tree.map
  /\ items' = tree.items
  /\ crashed' = ~tree.ok

(* Fault of rebuildTree: the events first.                                 *)
FaultEventsFirst(lists) ==
  LET first  == rebuildTreeOf("event", lists["event"], Tree)
      second == rebuildTreeOf("organization", lists["organization"], first)
  IN  BecomesTree(rebuildTreeOf("season", lists["season"], second))

(* First all organizations, then all seasons, then all events.             *)
rebuildTree(lists) ==
  LET first  == rebuildTreeOf("organization", lists["organization"], Tree)
      second == rebuildTreeOf("season", lists["season"], first)
  IN  BecomesTree(rebuildTreeOf("event", lists["event"], second))

(* setOrganizations, setSeasons, setEvents.                                *)
DeliverList(t) ==
  /\ ~crashed
  /\ jobs[t].state = "read"
  /\ jobs' = [jobs EXCEPT ![t] = [state |-> "delivered", rows |-> EmptyMap]]
  /\ listed' = [listed EXCEPT ![t] = jobs[t].rows]
  /\ rebuildTree(listed')
  /\ UNCHANGED <<db, lastId, overwritten, changes, failures, current, mpAddItem, treeEnabled,
                 buttonsEnabled, mpEvent, removed>>

-----------------------------------------------------------------------------
(* The selection.                                                          *)

(* The event the form gets for an item: its ID, and those of its season    *)
(* and organization.                                                       *)
FormOf(tree, p) ==
  LET season == tree[p].parent
  IN  [event |-> tree[p].id, season |-> tree[season].id,
       organization |-> tree[tree[season].parent].id]

(* Fault of treeSelectionChanged: the form keeps the event it had.         *)
FaultFormKept(tree, p, adding) ==
  /\ current' = p
  /\ mpEvent' = IF p # Nil /\ tree[p].type = "event" THEN FormOf(tree, p) ELSE mpEvent
  /\ buttonsEnabled' = (p # Nil /\ p # adding /\ tree[p].type # "organization")

(* The current item becomes p; adding is mpAddItem at that moment.         *)
treeSelectionChanged(tree, p, adding) ==
  /\ current' = p
  /\ mpEvent' = IF p # Nil /\ tree[p].type = "event" THEN FormOf(tree, p) ELSE Nil
  /\ buttonsEnabled' = (p # Nil /\ p # adding /\ tree[p].type # "organization")

(* The items left when p is deleted with all below it.                     *)
Below(p) ==
  {q \in DOMAIN items : \/ q = p \/ items[q].parent = p
                        \/ items[q].parent # Nil /\ items[items[q].parent].parent = p}

Without(p) == Restrict(items, DOMAIN items \ Below(p))

(* The view moves the selection off an item that is being removed: to a    *)
(* sibling, to the parent if there is none, or nowhere.                    *)
Successors(p) ==
  LET siblings == {q \in DOMAIN items : items[q].parent = items[p].parent} \ {p}
  IN  IF siblings # {} THEN siblings ELSE {items[p].parent}

Select(p) ==
  /\ ~crashed /\ treeEnabled
  /\ p # current
  /\ treeSelectionChanged(items, p, mpAddItem)
  /\ UNCHANGED <<db, lastId, overwritten, changes, failures, jobs, listed, mTreeItems, items,
                 mpAddItem, treeEnabled, removed, crashed>>

-----------------------------------------------------------------------------
(* The buttons.                                                            *)

addClicked ==
  /\ ~crashed /\ buttonsEnabled
  /\ current # Nil
  /\ items[current].type # "organization"
  /\ \E k \in 1..MaxAdds :
       LET season == IF items[current].type = "season" THEN current ELSE items[current].parent
           added  == <<"new", k>>
       IN  /\ added \notin DOMAIN items
           /\ \A j \in 1..(k - 1) : <<"new", j>> \in DOMAIN items
           /\ items' = Put(items, added, [id |-> 0, type |-> "event", parent |-> season,
                                          name |-> NewEvent])
           /\ mpAddItem' = added
           /\ treeSelectionChanged(items', added, added)
  /\ treeEnabled' = FALSE
  /\ UNCHANGED <<db, lastId, overwritten, changes, failures, jobs, listed, mTreeItems, removed,
                 crashed>>

(* destroyById: a season with events is refused, and so is an event with   *)
(* registrations or runs, of which this module knows nothing; no row may   *)
(* have the ID.                                                            *)
Destroy(t, id) ==
  \/ /\ ~HasEvents(t, id)
     /\ db' = [db EXCEPT ![t] = Restrict(@, DOMAIN @ \ {id})]
     /\ UNCHANGED failures
  \/ /\ HasEvents(t, id) \/ t = "event"
     /\ UNCHANGED <<db, failures>>
  \/ Fail /\ UNCHANGED db

(* The row is deleted, if it can be; the item is, in any case.             *)
deleteClicked ==
  /\ ~crashed /\ buttonsEnabled
  /\ current # Nil
  /\ Destroy(items[current].type, items[current].id)
  /\ \E next \in Successors(current) : treeSelectionChanged(items, next, mpAddItem)
  /\ items' = Without(current)
  /\ removed' = removed \cup {<<items[p].type, items[p].id>> : p \in Below(current)}
  /\ UNCHANGED <<lastId, overwritten, changes, jobs, listed, mTreeItems, mpAddItem,
                 treeEnabled, crashed>>

-----------------------------------------------------------------------------
(* The form.                                                               *)

(* create, of a row in a season that is still stored.                      *)
CreateEvent(season, name) ==
  \/ /\ InDb("season", season) /\ lastId < MaxId
     /\ lastId' = lastId + 1
     /\ db' = [db EXCEPT !.event = Put(@, lastId', [parent |-> season, name |-> name])]
     /\ UNCHANGED failures
  \/ /\ \/ ~InDb("season", season) /\ UNCHANGED failures
        \/ Fail
     /\ UNCHANGED <<db, lastId>>

(* update: of no row, when none has the ID.                                *)
UpdateEvent(id, season, name) ==
  /\ \/ /\ InDb("event", id) /\ InDb("season", season)
        /\ db' = [db EXCEPT !.event[id] = [parent |-> season, name |-> name]]
        /\ overwritten' = overwritten \ {id}
        /\ UNCHANGED failures
     \/ /\ ~(InDb("event", id) /\ InDb("season", season))
        /\ UNCHANGED <<db, overwritten, failures>>
     \/ Fail /\ UNCHANGED <<db, overwritten>>
  /\ UNCHANGED lastId

(* Fault of UpdatedId: the message goes out as the form made it.           *)
FaultUpdatedId(item) == 0

UpdatedId(item) == item.id

(* The ID the new item has in the end.  The one of the created row is only *)
(* taken from a result of more than one message, which create never gives, *)
(* and it would be overwritten by that of the message saved, which has none*)
SavedId == 0

(* Save, with what the user left in the form.                              *)
eventSaved(name) ==
  /\ ~crashed /\ mpEvent # Nil
  /\ current # Nil
  /\ LET item == items[current]
         season == items[item.parent].id
     IN  IF mpAddItem # Nil
         THEN /\ CreateEvent(season, name)
              /\ items' = [items EXCEPT ![current].name = name, ![current].id = SavedId]
              /\ UNCHANGED overwritten
         ELSE /\ UpdateEvent(UpdatedId(item), season, name)
              /\ items' = [items EXCEPT ![current].name = name]
  /\ mpAddItem' = Nil
  /\ treeEnabled' = TRUE
  /\ buttonsEnabled' = TRUE
  /\ UNCHANGED <<changes, jobs, listed, mTreeItems, current, mpEvent, removed, crashed>>

(* Fault of eventCancelled: mpAddItem still points to the deleted item.    *)
FaultCancelled ==
  /\ ~crashed /\ mpEvent # Nil
  /\ items' = IF mpAddItem # Nil THEN Without(mpAddItem) ELSE items
  /\ treeSelectionChanged(items', Nil, Nil)
  /\ treeEnabled' = TRUE
  /\ UNCHANGED <<db, lastId, overwritten, changes, failures, jobs, listed, mTreeItems, mpAddItem,
                 removed, crashed>>

(* Cancel.  Removing the item being added selects another one first; then  *)
(* nothing is selected.                                                    *)
eventCancelled ==
  /\ ~crashed /\ mpEvent # Nil
  /\ items' = IF mpAddItem # Nil THEN Without(mpAddItem) ELSE items
  /\ mpAddItem' = Nil
  /\ treeSelectionChanged(items', Nil, mpAddItem')
  /\ treeEnabled' = TRUE
  /\ UNCHANGED <<db, lastId, overwritten, changes, failures, jobs, listed, mTreeItems, removed,
                 crashed>>

Next ==
  \/ ChangeElsewhere
  \/ \E t \in Types : ReadList(t) \/ DeliverList(t)
  \/ \E p \in DOMAIN items \cup {Nil} : Select(p)
  \/ addClicked
  \/ deleteClicked
  \/ \E name \in Names : eventSaved(name)
  \/ eventCancelled

Spec == Init /\ [][Next]_vars

-----------------------------------------------------------------------------
(* Properties.                                                             *)

Item ==
  [id : 0..MaxId, type : Types, parent : DOMAIN items \cup {Nil}, name : Names \cup {NewEvent}]

TypeOK ==
  /\ \A t \in Types : /\ \A rows \in {db[t], listed[t], jobs[t].rows} :
                           /\ DOMAIN rows \subseteq 1..MaxId
                           /\ rows \in [DOMAIN rows -> Row]
                      /\ jobs[t].state \in {"asked", "read", "delivered"}
  /\ lastId \in 0..MaxId /\ changes \in 0..MaxChanges /\ failures \in 0..MaxFailures
  /\ DOMAIN items \subseteq Addresses
  /\ ~crashed => items \in [DOMAIN items -> Item]
  /\ {current, mpAddItem} \subseteq DOMAIN items \cup {Nil}
  /\ {treeEnabled, buttonsEnabled, crashed} \subseteq BOOLEAN
  /\ mpEvent \in Forms \cup {Nil}
  /\ overwritten \subseteq 1..MaxId

(* treeSelectionChanged, deleteClicked, eventCancelled: the form is open   *)
(* exactly when the current item is an event's, and holds the IDs of that  *)
(* item and of those above it, whatever was added, deleted or listed; so   *)
(* eventSaved finds a season and an organization above the current item.   *)
FormEditsCurrent ==
  ~crashed =>
    mpEvent = IF current # Nil /\ items[current].type = "event"
              THEN FormOf(items, current) ELSE Nil

(* addClicked, eventSaved, eventCancelled: the user is never locked out.   *)
(* The tree is only disabled during an add, and then the new item stays    *)
(* the current one, Add and Delete are off, and the form that ends the add *)
(* is open.  The buttons are only enabled on a season or an event, as      *)
(* addClicked and deleteClicked expect.                                    *)
AddingIsExclusive ==
  ~crashed =>
    /\ treeEnabled = (mpAddItem = Nil)
    /\ mpAddItem # Nil => current = mpAddItem /\ ~buttonsEnabled /\ mpEvent # Nil
    /\ buttonsEnabled => current # Nil /\ items[current].type # "organization"

(* Form, buttons and tree agree with the current item.                     *)
FormFollowsTree == FormEditsCurrent /\ AddingIsExclusive

Delivered == \A t \in Types : jobs[t].state = "delivered"

(* The listed rows whose ancestors are listed, too.                        *)
Rooted(t, id) ==
  /\ id \in DOMAIN listed[t]
  /\ t # "organization" =>
       /\ listed[t][id].parent \in DOMAIN listed[ParentType[t]]
       /\ t = "event" => listed["season"][listed[t][id].parent].parent
                           \in DOMAIN listed["organization"]

(* The item shows row id of t, below the item of the row's parent.         *)
Shows(p, t, id) ==
  /\ items[p].type = t /\ items[p].id = id
  /\ t # "organization" => items[items[p].parent].id = listed[t][id].parent

(* setOrganizations, setSeasons, setEvents, rebuildTree: in whatever order *)
(* the three lists arrive, and whatever is added, saved or deleted in the  *)
(* meantime, every listed row whose parents were listed has one item, in   *)
(* its place, unless the user deleted it; no deleted item is used unless   *)
(* a season was deleted.                                                   *)
TreeComplete ==
  /\ crashed => \E id \in 1..MaxId : <<"season", id>> \in removed
  /\ Delivered /\ ~crashed =>
       \A t \in Types, id \in 1..MaxId :
         Cardinality({p \in DOMAIN items : Shows(p, t, id)}) =
           IF Rooted(t, id) /\ <<t, id>> \notin removed THEN 1 ELSE 0

(* eventSaved, setEvents: with no failed query, an event item that has an  *)
(* ID shows what is stored under it, however often it was edited and in    *)
(* whatever order lists, clicks and other clients came, unless another     *)
(* client saved that event after this client read or saved it last.        *)
ItemsShowTheirRow ==
  ~crashed /\ failures = 0 =>
    \A p \in DOMAIN items :
      items[p].type = "event" /\ InDb("event", items[p].id) =>
        \/ items[p].name = db.event[items[p].id].name
        \/ items[p].id \in overwritten

(* AdminWidget.cpp:409, "set the newly created event ID on our item": once *)
(* saved, the item of a new event has the ID of a row.                     *)
SavedItemHasItsRow ==
  ~crashed /\ failures = 0 /\ changes = 0 =>
    \A p \in DOMAIN items \ {mpAddItem} :
      items[p].type = "event" => InDb("event", items[p].id)
=============================================================================
