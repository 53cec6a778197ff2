--------------------------- MODULE AdminTreeProofs --------------------------
(***************************************************************************)
(* Theorems about AdminTree: whenever the three lists come in, and         *)
(* whatever is added, saved or deleted in the meantime, the form edits the *)
(* current item, the tree shows every listed row once, in its place, and   *)
(* what an event's item shows is what is stored, unless another client     *)
(* saved the event since.                                                  *)
(***************************************************************************)
EXTENDS AdminTree, FiniteSetTheorems, WellFoundedInduction, TLAPS

-----------------------------------------------------------------------------
(* A set of numbers that is not empty has a least one.  This takes the     *)
(* place of induction: a property of numbers that fails somewhere has a    *)
(* least number where it fails.                                            *)
LEMMA LeastNumber ==
  ASSUME NEW S \in SUBSET Nat, S # {}
  PROVE  \E x \in S : \A y \in S : x <= y
<1> DEFINE Less == {ss \in Nat \X Nat : ss[1] < ss[2]}
<1>1. IsWellFoundedOn(Less, Nat)
  BY NatLessThanWellFounded DEF OpToRel
<1>2. \A x, y \in Nat : y < x => <<y, x>> \in Less
  OBVIOUS
<1> HIDE DEF Less
<1>3. PICK x \in S : \A y \in S : ~ (<<y, x>> \in Less)
  BY <1>1, WFMin
<1>4. \A y \in S : ~ (y < x)
  BY <1>2, <1>3
<1> QED
  BY <1>4

-----------------------------------------------------------------------------
(* The invariant.                                                          *)

RowsOK(rows) == DOMAIN rows \subseteq 1..MaxId /\ rows \in [DOMAIN rows -> Row]

ListsOK(lists) ==
  /\ lists = [t \in Types |-> lists[t]]
  /\ \A t \in Types : RowsOK(lists[t])

(* A list is empty until it is delivered.                                  *)
ListInv ==
  /\ ListsOK(db) /\ ListsOK(listed)
  /\ jobs = [t \in Types |-> [state |-> jobs[t].state, rows |-> jobs[t].rows]]
  /\ \A t \in Types : /\ jobs[t].state \in {"asked", "read", "delivered"}
                      /\ RowsOK(jobs[t].rows)
                      /\ jobs[t].state # "delivered" => DOMAIN listed[t] = {}
  /\ lastId \in 0..MaxId /\ changes \in 0..MaxChanges /\ failures \in 0..MaxFailures

(* Rooted, of other lists than those listed.                               *)
RootedIn(lists, t, id) ==
  /\ id \in DOMAIN lists[t]
  /\ t # "organization" =>
       /\ lists[t][id].parent \in DOMAIN lists[ParentType[t]]
       /\ t = "event" => lists["season"][lists[t][id].parent].parent
                           \in DOMAIN lists["organization"]

MapsOf(lists) ==
  [t \in Types |-> [id \in {i \in DOMAIN lists[t] : RootedIn(lists, t, i)} |-> <<t, id>>]]

(* The maps know the rooted rows, whether the user deleted them or not.    *)
MapInv == mTreeItems = MapsOf(listed)

AnyItem == [id : 0..MaxId, type : Types, parent : Addresses \cup {Nil},
            name : Names \cup {NewEvent}]

ItemsOK(its) ==
  /\ DOMAIN its \subseteq Addresses
  /\ its \in [DOMAIN its -> AnyItem]

(* An item is below one of the type above its own.                         *)
InPlace(its, p) ==
  CASE its[p].type = "organization" -> its[p].parent = Nil
    [] its[p].type = "season" -> /\ its[p].parent \in DOMAIN its
                                 /\ its[its[p].parent].type = "organization"
    [] its[p].type = "event" -> /\ its[p].parent \in DOMAIN its
                                /\ its[its[p].parent].type = "season"

(* An item that was added has no row, another one is at the address of its *)
(* row and known to the maps.                                              *)
AtAddress(its, map, p) ==
  IF p[1] = "new" THEN its[p].type = "event" /\ its[p].id = 0
  ELSE its[p].type = p[1] /\ its[p].id = p[2] /\ p[2] \in DOMAIN map[p[1]]

ShapeOK(its, map) ==
  /\ ItemsOK(its)
  /\ \A p \in DOMAIN its : InPlace(its, p) /\ AtAddress(its, map, p)

PlacedIn(its, lists, p) ==
  p[1] \in {"season", "event"} =>
    its[p].parent = <<ParentType[p[1]], lists[p[1]][p[2]].parent>>

PlacedOK(its, lists) == \A p \in DOMAIN its : PlacedIn(its, lists, p)

TreeInv == ~crashed => ShapeOK(items, mTreeItems) /\ PlacedOK(items, listed)

(* Selection, form and buttons.                                            *)
FormInv ==
  /\ DOMAIN items \subseteq Addresses
  /\ {current, mpAddItem} \subseteq DOMAIN items \cup {Nil}
  /\ {treeEnabled, buttonsEnabled, crashed} \subseteq BOOLEAN
  /\ mpEvent \in Forms \cup {Nil}
  /\ mpAddItem # Nil => mpAddItem[1] = "new"
  /\ FormFollowsTree

(* Rows the maps know have an item or were deleted.                        *)
RemovedInv ==
  /\ crashed => \E id \in 1..MaxId : <<"season", id>> \in removed
  /\ ~crashed =>
       /\ \A id \in 1..MaxId : <<"organization", id>> \notin removed
       /\ \A t \in Types, id \in 1..MaxId :
            /\ <<t, id>> \in removed => id \in DOMAIN mTreeItems[t]
            /\ id \in DOMAIN mTreeItems[t] =>
                 (<<t, id>> \in removed <=> <<t, id>> \notin DOMAIN items)

UpToLast(rows) == \A id \in DOMAIN rows : id <= lastId

(* Rows keep their parent, and an event its name until it has an item or   *)
(* another client saves it.                                                *)
SameParents(rows) ==
  \A id \in DOMAIN rows \cap DOMAIN db["event"] : rows[id].parent = db["event"][id].parent

SameNames(rows) ==
  \A id \in DOMAIN rows \cap DOMAIN db["event"] :
    rows[id].name = db["event"][id].name \/ id \in overwritten

StoredInv ==
  /\ \A t \in Types : UpToLast(db[t]) /\ UpToLast(jobs[t].rows) /\ UpToLast(listed[t])
  /\ \A id \in DOMAIN db["event"] : db["event"][id].parent \in DOMAIN db["season"]
  /\ SameParents(jobs["event"].rows) /\ SameParents(listed["event"])
  /\ DOMAIN mTreeItems["event"] = {} =>
       SameNames(jobs["event"].rows) /\ SameNames(listed["event"])

ShownInv ==
  ~crashed /\ failures = 0 =>
    \A id \in DOMAIN db["event"] :
      <<"event", id>> \in DOMAIN items =>
        items[<<"event", id>>].name = db["event"][id].name \/ id \in overwritten

OverwrittenInv == overwritten \subseteq 1..MaxId

AdminInv ==
  ListInv /\ MapInv /\ TreeInv /\ FormInv /\ RemovedInv /\ StoredInv /\ ShownInv /\ OverwrittenInv

-----------------------------------------------------------------------------
(* Addresses and rows.                                                     *)

LEMMA PairParts == \A a, b : <<a, b>>[1] = a /\ <<a, b>>[2] = b
OBVIOUS

LEMMA AddressParts ==
  /\ \A p \in Addresses : p = <<p[1], p[2]>>
  /\ \A p \in Addresses : p[1] = "new" \/ (p[1] \in Types /\ p[2] \in 1..MaxId)
  /\ \A t \in Types, id \in 1..MaxId : <<t, id>> \in Addresses
  /\ \A k \in 1..MaxAdds : <<"new", k>> \in Addresses
  /\ "new" \notin Types /\ Nil \notin Addresses
<1>1. \A p \in Types \X (1..MaxId) : p = <<p[1], p[2]>> /\ p[1] \in Types /\ p[2] \in 1..MaxId
  OBVIOUS
<1>2. \A p \in {"new"} \X (1..MaxAdds) : p = <<p[1], p[2]>> /\ p[1] = "new"
  OBVIOUS
<1>3. "new" \notin Types
  BY DEF Types
<1> QED
  BY <1>1, <1>2, <1>3, AdminAssumption DEF Addresses

LEMMA Bounds == {MaxAdds, MaxId, MaxChanges, MaxFailures} \subseteq Nat
BY AdminAssumption

(* Changing rows keeps them rows.                                          *)
LEMMA PutRow ==
  ASSUME NEW rows, RowsOK(rows), NEW id \in 1..MaxId, NEW row \in Row
  PROVE  RowsOK(Put(rows, id, row))
BY DEF RowsOK, Put

LEMMA RestrictRows ==
  ASSUME NEW rows, RowsOK(rows), NEW id
  PROVE  RowsOK(Restrict(rows, DOMAIN rows \ {id}))
BY DEF RowsOK, Restrict

LEMMA NoRows == RowsOK(EmptyMap) /\ DOMAIN EmptyMap = {}
BY DEF RowsOK, EmptyMap

LEMMA RowParts ==
  \A row \in Row : row.parent \in 0..MaxId /\ row.name \in Names
BY DEF Row

-----------------------------------------------------------------------------
(* One pass over the rows of a list.                                       *)

MapsOK(map) ==
  /\ map = [u \in Types |-> map[u]]
  /\ \A u \in Types : /\ DOMAIN map[u] \subseteq 1..MaxId
                      /\ map[u] = [id \in DOMAIN map[u] |-> <<u, id>>]

(* The rows that get an item, and the parent the item gets.                *)
Fresh(t, rows, map) ==
  {id \in DOMAIN rows \ DOMAIN map[t] :
     t = "organization" \/ rows[id].parent \in DOMAIN map[ParentType[t]]}

Place(t, rows, id) ==
  IF t = "organization" THEN Nil ELSE <<ParentType[t], rows[id].parent>>

PlacesExist(t, rows, tree) ==
  \A id \in Fresh(t, rows, tree.map) : Place(t, rows, id) \in DOMAIN tree.items \cup {Nil}

AllThere(t, tree) == \A id \in DOMAIN tree.map[t] : <<t, id>> \in DOMAIN tree.items

NewItem(t, rows, id) ==
  [id |-> id, type |-> t, parent |-> Place(t, rows, id), name |-> rows[id].name]

PassMaps(t, rows, tree, new) ==
  /\ MapsOK(new.map)
  /\ \A u \in Types \ {t} : new.map[u] = tree.map[u]
  /\ DOMAIN new.map[t] = DOMAIN tree.map[t] \cup Fresh(t, rows, tree.map)

PassItems(t, rows, tree, new) ==
  /\ new.items = [p \in DOMAIN new.items |-> new.items[p]]
  /\ \A p : p \in DOMAIN new.items <=>
              p \in DOMAIN tree.items \/ \E id \in Fresh(t, rows, tree.map) : p = <<t, id>>
  /\ \A id \in Fresh(t, rows, tree.map) : new.items[<<t, id>>] = NewItem(t, rows, id)
  /\ \A p \in DOMAIN tree.items :
       (\A id \in Fresh(t, rows, tree.map) : p # <<t, id>>) =>
         new.items[p] =
           IF \E id \in DOMAIN rows \cap DOMAIN tree.map[t] : p = <<t, id>>
           THEN [tree.items[p] EXCEPT !.name = rows[tree.items[p].id].name]
           ELSE tree.items[p]

PassOk(t, rows, tree, new) ==
  /\ new.ok => tree.ok /\ PlacesExist(t, rows, tree)
  /\ tree.ok /\ PlacesExist(t, rows, tree) /\ AllThere(t, tree) => new.ok

LEMMA ParentTypes ==
  /\ ParentType["season"] = "organization" /\ ParentType["event"] = "season"
  /\ \A t \in Types : t = "organization" \/ t = "season" \/ t = "event"
  /\ \A t \in Types : t # "organization" => ParentType[t] \in Types /\ ParentType[t] # t
BY DEF ParentType, Types

LEMMA MapValues ==
  ASSUME NEW map, MapsOK(map), NEW u \in Types, NEW id \in DOMAIN map[u]
  PROVE  map[u][id] = <<u, id>>
<1>1. map[u] = [i \in DOMAIN map[u] |-> <<u, i>>]
  BY DEF MapsOK
<1>2. \A i \in DOMAIN map[u] : [k \in DOMAIN map[u] |-> <<u, k>>][i] = <<u, i>>
  OBVIOUS
<1> QED
  BY <1>1, <1>2

LEMMA OnePass ==
  ASSUME NEW t \in Types, NEW rows, RowsOK(rows), NEW tree, MapsOK(tree.map)
  PROVE  /\ PassMaps(t, rows, tree, rebuildTreeOf(t, rows, tree))
         /\ PassItems(t, rows, tree, rebuildTreeOf(t, rows, tree))
         /\ PassOk(t, rows, tree, rebuildTreeOf(t, rows, tree))
<1> DEFINE known == DOMAIN rows \cap DOMAIN tree.map[t]
           fresh == IF t = "organization" THEN DOMAIN rows \ known
                    ELSE {id \in DOMAIN rows \ known :
                            rows[id].parent \in DOMAIN tree.map[ParentType[t]]}
           parent(id) == IF t = "organization" THEN Nil
                         ELSE tree.map[ParentType[t]][rows[id].parent]
           updated == {tree.map[t][id] : id \in known}
           added == {<<t, id>> : id \in fresh}
           map == [tree.map EXCEPT ![t] =
                     [id \in DOMAIN tree.map[t] \cup fresh |->
                        IF id \in fresh THEN <<t, id>> ELSE tree.map[t][id]]]
           ok == /\ tree.ok
                 /\ updated \subseteq DOMAIN tree.items
                 /\ \A id \in fresh : parent(id) \in DOMAIN tree.items \cup {Nil}
           its == [p \in DOMAIN tree.items \cup added |->
                     IF p \in added
                     THEN [id |-> p[2], type |-> t, parent |-> parent(p[2]),
                           name |-> rows[p[2]].name]
                     ELSE IF p \in updated
                     THEN [tree.items[p] EXCEPT !.name = rows[tree.items[p].id].name]
                     ELSE tree.items[p]]
           new == rebuildTreeOf(t, rows, tree)
<1>1. new = [map |-> map, ok |-> ok, items |-> its]
  BY ZenonT(60) DEF rebuildTreeOf
<1>2. new.map = map /\ new.ok = ok /\ new.items = its
  BY <1>1
<1>3. fresh = Fresh(t, rows, tree.map)
  BY DEF Fresh
<1>4. \A id \in fresh : parent(id) = Place(t, rows, id)
  <2>1. CASE t = "organization"
    BY <2>1 DEF Place
  <2>2. CASE t # "organization"
    <3>1. /\ ParentType[t] \in Types
          /\ \A id \in fresh : rows[id].parent \in DOMAIN tree.map[ParentType[t]]
      BY <2>2, ParentTypes
    <3> QED
      BY <3>1, <2>2, MapValues DEF Place
  <2> QED
    BY <2>1, <2>2
<1>5. \A id \in DOMAIN tree.map[t] : tree.map[t][id] = <<t, id>>
  BY MapValues
<1>6. PassMaps(t, rows, tree, new)
  <2>1. fresh \subseteq 1..MaxId
    BY DEF RowsOK
  <2>2. /\ map = [u \in Types |-> map[u]] /\ \A u \in Types \ {t} : map[u] = tree.map[u]
        /\ map[t] = [id \in DOMAIN tree.map[t] \cup fresh |->
                        IF id \in fresh THEN <<t, id>> ELSE tree.map[t][id]]
    <3> DEFINE f == [id \in DOMAIN tree.map[t] \cup fresh |->
                       IF id \in fresh THEN <<t, id>> ELSE tree.map[t][id]]
    <3>1. map = [tree.map EXCEPT ![t] = f]
      OBVIOUS
    <3>2. DOMAIN tree.map = Types
      BY DEF MapsOK
    <3> HIDE DEF map, f
    <3>3. /\ map = [u \in Types |-> map[u]] /\ \A u \in Types \ {t} : map[u] = tree.map[u]
          /\ map[t] = f
      BY <3>1, <3>2
    <3> QED
      BY <3>3 DEF f
  <2>3. DOMAIN map[t] = DOMAIN tree.map[t] \cup fresh
    BY <2>2
  <2>4. map[t] = [id \in DOMAIN map[t] |-> <<t, id>>]
    <3>1. \A id \in DOMAIN tree.map[t] \cup fresh :
            (IF id \in fresh THEN <<t, id>> ELSE tree.map[t][id]) = <<t, id>>
      BY <1>5
    <3> HIDE DEF map, fresh
    <3> QED
      BY <2>2, <2>3, <3>1
  <2>5. MapsOK(map)
    <3> HIDE DEF map, fresh, ok, its, new, updated, added, known
    <3>1. /\ \A u \in Types : tree.map[u] = [id \in DOMAIN tree.map[u] |-> <<u, id>>]
          /\ \A u \in Types : DOMAIN tree.map[u] \subseteq 1..MaxId
      BY DEF MapsOK
    <3>2. DOMAIN map[t] \subseteq 1..MaxId
      BY <2>1, <2>3, <3>1
    <3>3. \A u \in Types : /\ map[u] = [id \in DOMAIN map[u] |-> <<u, id>>]
                          /\ DOMAIN map[u] \subseteq 1..MaxId
      <4>1. ASSUME NEW u \in Types, u # t
            PROVE  /\ map[u] = [id \in DOMAIN map[u] |-> <<u, id>>]
                   /\ DOMAIN map[u] \subseteq 1..MaxId
        <5>1. map[u] = tree.map[u]
          BY <2>2, <4>1
        <5> QED
          BY ONLY <3>1, <5>1, u \in Types
      <4> QED
        BY ONLY <2>4, <3>2, <4>1
    <3> QED
      BY <2>2, <3>3 DEF MapsOK
  <2> HIDE DEF map, new, fresh
  <2> QED
    BY <2>2, <2>3, <2>5, <1>2, <1>3 DEF PassMaps
<1>7. PassItems(t, rows, tree, new)
  <2>0. its = [p \in DOMAIN its |-> its[p]]
    OBVIOUS
  <2>1. \A p : p \in DOMAIN its <=>
                 p \in DOMAIN tree.items \/ \E id \in fresh : p = <<t, id>>
    OBVIOUS
  <2>2. ASSUME NEW id \in fresh
        PROVE  its[<<t, id>>] = NewItem(t, rows, id)
    <3>1. <<t, id>> \in added
      OBVIOUS
    <3> QED
      BY <3>1, <1>4, PairParts DEF NewItem
  <2>3. ASSUME NEW p \in DOMAIN tree.items, \A id \in fresh : p # <<t, id>>
        PROVE  its[p] = IF \E id \in known : p = <<t, id>>
                        THEN [tree.items[p] EXCEPT !.name = rows[tree.items[p].id].name]
                        ELSE tree.items[p]
    <3>1. p \notin added
      BY <2>3
    <3>2. p \in updated <=> \E id \in known : p = <<t, id>>
      BY <1>5
    <3> HIDE DEF added, updated, known
    <3> QED
      BY <3>1, <3>2
  <2> HIDE DEF its, new, fresh
  <2> QED
    BY <2>0, <2>1, <2>2, <2>3, <1>2, <1>3 DEF PassItems
<1>8. PassOk(t, rows, tree, new)
  <2>1. ok <=> /\ tree.ok /\ (\A id \in known : <<t, id>> \in DOMAIN tree.items)
               /\ \A id \in fresh : Place(t, rows, id) \in DOMAIN tree.items \cup {Nil}
    <3>1. updated \subseteq DOMAIN tree.items <=> \A id \in known : <<t, id>> \in DOMAIN tree.items
      BY <1>5
    <3>2. (\A id \in fresh : parent(id) \in DOMAIN tree.items \cup {Nil}) <=>
          (\A id \in fresh : Place(t, rows, id) \in DOMAIN tree.items \cup {Nil})
      BY <1>4
    <3> HIDE DEF updated, known, fresh, parent
    <3> QED
      BY <3>1, <3>2
  <2>2. (\A id \in fresh : Place(t, rows, id) \in DOMAIN tree.items \cup {Nil})
          <=> PlacesExist(t, rows, tree)
    BY <1>3 DEF PlacesExist
  <2>3. AllThere(t, tree) => \A id \in known : <<t, id>> \in DOMAIN tree.items
    BY DEF AllThere
  <2> HIDE DEF ok, new, fresh, known
  <2> QED
    BY <2>1, <2>2, <2>3, <1>2 DEF PassOk
<1> QED
  BY <1>6, <1>7, <1>8

(* The items there were are there, with the same place and ID.             *)
Grown(its, others) ==
  /\ DOMAIN its \subseteq DOMAIN others
  /\ \A p \in DOMAIN its : /\ others[p].id = its[p].id /\ others[p].type = its[p].type
                           /\ others[p].parent = its[p].parent

LEMMA ItemParts ==
  ASSUME NEW item \in AnyItem
  PROVE  /\ item.id \in 0..MaxId /\ item.type \in Types /\ item.parent \in Addresses \cup {Nil}
         /\ item.name \in Names \cup {NewEvent}
         /\ \A name \in Names \cup {NewEvent} :
              /\ [item EXCEPT !.name = name] \in AnyItem
              /\ [item EXCEPT !.name = name].id = item.id
              /\ [item EXCEPT !.name = name].type = item.type
              /\ [item EXCEPT !.name = name].parent = item.parent
              /\ [item EXCEPT !.name = name].name = name
BY DEF AnyItem

(* A row gets an item only if there was none at its address.               *)
LEMMA FreshAddress ==
  ASSUME NEW t \in Types, NEW rows, NEW tree, ShapeOK(tree.items, tree.map),
         NEW id \in Fresh(t, rows, tree.map)
  PROVE  <<t, id>> \notin DOMAIN tree.items
<1> SUFFICES ASSUME <<t, id>> \in DOMAIN tree.items
             PROVE  FALSE
  OBVIOUS
<1>1. AtAddress(tree.items, tree.map, <<t, id>>)
  BY DEF ShapeOK
<1>2. <<t, id>>[1] = t /\ <<t, id>>[2] = id /\ t # "new"
  BY PairParts, AddressParts
<1>3. id \in DOMAIN tree.map[t]
  BY <1>1, <1>2 DEF AtAddress
<1> QED
  BY <1>3 DEF Fresh

(* What a pass makes of the items.                                         *)
LEMMA PassOldItems ==
  ASSUME NEW t \in Types, NEW rows, RowsOK(rows), NEW tree, NEW new,
         ShapeOK(tree.items, tree.map), PassItems(t, rows, tree, new),
         NEW p \in DOMAIN tree.items
  PROVE  /\ p \in DOMAIN new.items /\ new.items[p] \in AnyItem
         /\ new.items[p].id = tree.items[p].id /\ new.items[p].type = tree.items[p].type
         /\ new.items[p].parent = tree.items[p].parent
         /\ new.items[p].name =
              IF \E id \in DOMAIN rows \cap DOMAIN tree.map[t] : p = <<t, id>>
              THEN rows[tree.items[p].id].name ELSE tree.items[p].name
<1>1. tree.items[p] \in AnyItem
  BY DEF ShapeOK, ItemsOK
<1>2. p \in DOMAIN new.items
  BY DEF PassItems
<1>3. \A id \in Fresh(t, rows, tree.map) : p # <<t, id>>
  BY FreshAddress
<1>4. new.items[p] = IF \E id \in DOMAIN rows \cap DOMAIN tree.map[t] : p = <<t, id>>
                     THEN [tree.items[p] EXCEPT !.name = rows[tree.items[p].id].name]
                     ELSE tree.items[p]
  BY <1>3 DEF PassItems
<1>5. CASE \E id \in DOMAIN rows \cap DOMAIN tree.map[t] : p = <<t, id>>
  <2>1. PICK id \in DOMAIN rows \cap DOMAIN tree.map[t] : p = <<t, id>>
    BY <1>5
  <2>2. p[1] = t /\ p[2] = id /\ t # "new"
    BY <2>1, PairParts, AddressParts
  <2>3. tree.items[p].id = id
    BY <2>2 DEF ShapeOK, AtAddress
  <2>4. rows[id].name \in Names
    BY RowParts DEF RowsOK
  <2> QED
    BY <1>1, <1>2, <1>4, <1>5, <2>3, <2>4, ItemParts
<1> QED
  BY <1>1, <1>2, <1>4, <1>5

LEMMA PassShape ==
  ASSUME NEW t \in Types, NEW rows, RowsOK(rows), NEW tree, NEW new,
         MapsOK(tree.map), ShapeOK(tree.items, tree.map),
         PassMaps(t, rows, tree, new), PassItems(t, rows, tree, new),
         PlacesExist(t, rows, tree)
  PROVE  ShapeOK(new.items, new.map) /\ Grown(tree.items, new.items)
<1>1. Grown(tree.items, new.items)
  BY PassOldItems DEF Grown
<1>2. ASSUME NEW u \in Types, NEW id \in DOMAIN tree.map[u]
      PROVE  id \in DOMAIN new.map[u]
  BY DEF PassMaps
<1>3. ASSUME NEW p \in DOMAIN tree.items
      PROVE  p \in Addresses /\ new.items[p] \in AnyItem /\ InPlace(new.items, p)
               /\ AtAddress(new.items, new.map, p)
  <2>1. p \in Addresses /\ InPlace(tree.items, p) /\ AtAddress(tree.items, tree.map, p)
    BY DEF ShapeOK, ItemsOK
  <2>2. AtAddress(new.items, new.map, p)
    BY <2>1, <1>2, PassOldItems, AddressParts DEF AtAddress
  <2>3. tree.items[p].type \in Types
    BY ItemParts DEF ShapeOK, ItemsOK
  <2>4. InPlace(new.items, p)
    BY <2>1, <2>3, <1>1, ParentTypes DEF InPlace, Grown
  <2> QED
    BY <2>1, <2>2, <2>4, PassOldItems
<1>4. ASSUME NEW id \in Fresh(t, rows, tree.map)
      PROVE  <<t, id>> \in Addresses /\ new.items[<<t, id>>] \in AnyItem
               /\ InPlace(new.items, <<t, id>>) /\ AtAddress(new.items, new.map, <<t, id>>)
  <2>1. id \in 1..MaxId /\ rows[id] \in Row
    BY DEF Fresh, RowsOK
  <2>2. new.items[<<t, id>>] = NewItem(t, rows, id)
    BY DEF PassItems
  <2>3. <<t, id>> \in Addresses /\ <<t, id>>[1] = t /\ <<t, id>>[2] = id /\ t # "new"
    BY <2>1, PairParts, AddressParts
  <2>4. AtAddress(new.items, new.map, <<t, id>>)
    BY <2>2, <2>3 DEF AtAddress, NewItem, PassMaps
  <2>5. CASE t = "organization"
    <3>1. Place(t, rows, id) = Nil
      BY <2>5 DEF Place
    <3> QED
      BY <2>1, <2>2, <2>3, <2>4, <2>5, <3>1, RowParts, Bounds DEF InPlace, NewItem, AnyItem
  <2>6. CASE t # "organization"
    <3> DEFINE u == ParentType[t]
               i == rows[id].parent
    <3>1. u \in Types /\ i \in DOMAIN tree.map[u]
      BY <2>6, ParentTypes DEF Fresh
    <3>2. i \in 1..MaxId
      BY <3>1 DEF MapsOK
    <3>3. <<u, i>> \in Addresses /\ <<u, i>>[1] = u /\ u # "new" /\ <<u, i>> # Nil
      BY <3>1, <3>2, PairParts, AddressParts
    <3>4. Place(t, rows, id) = <<u, i>>
      BY <2>6 DEF Place
    <3>5. <<u, i>> \in DOMAIN tree.items
      BY <3>3, <3>4 DEF PlacesExist
    <3>6. tree.items[<<u, i>>].type = u
      BY <3>3, <3>5 DEF ShapeOK, AtAddress
    <3>7. <<u, i>> \in DOMAIN new.items /\ new.items[<<u, i>>].type = u
      BY <3>5, <3>6, <1>1 DEF Grown
    <3> HIDE DEF u, i
    <3>8. NewItem(t, rows, id) \in AnyItem
      BY <2>1, <3>3, <3>4, RowParts, Bounds DEF NewItem, AnyItem
    <3>9. InPlace(new.items, <<t, id>>)
      <4>1. new.items[<<t, id>>].type = t /\ new.items[<<t, id>>].parent = <<u, i>>
        BY <2>2, <3>4 DEF NewItem
      <4>2. (t = "season" /\ u = "organization") \/ (t = "event" /\ u = "season")
        BY <2>6, ParentTypes DEF u
      <4> QED
        BY <4>1, <4>2, <3>7 DEF InPlace
    <3> QED
      BY <2>2, <2>3, <2>4, <3>8, <3>9
  <2> QED
    BY <2>5, <2>6
<1>5. \A p \in DOMAIN new.items :
        p \in DOMAIN tree.items \/ \E id \in Fresh(t, rows, tree.map) : p = <<t, id>>
  BY DEF PassItems
<1>6. \A p \in DOMAIN new.items :
        p \in Addresses /\ new.items[p] \in AnyItem /\ InPlace(new.items, p)
          /\ AtAddress(new.items, new.map, p)
  BY <1>3, <1>4, <1>5
<1>7. new.items = [p \in DOMAIN new.items |-> new.items[p]]
  BY DEF PassItems
<1> QED
  BY <1>1, <1>6, <1>7 DEF ShapeOK, ItemsOK

-----------------------------------------------------------------------------
(* rebuildTree.                                                            *)

Pass(t, rows, tree, new) ==
  /\ MapsOK(tree.map) /\ PassMaps(t, rows, tree, new)
  /\ PassItems(t, rows, tree, new) /\ PassOk(t, rows, tree, new)

First(lists, tree) == rebuildTreeOf("organization", lists["organization"], tree)
Second(lists, tree) == rebuildTreeOf("season", lists["season"], First(lists, tree))
Third(lists, tree) == rebuildTreeOf("event", lists["event"], Second(lists, tree))

ThreePasses(lists, tree, first, second, third) ==
  /\ Pass("organization", lists["organization"], tree, first)
  /\ Pass("season", lists["season"], first, second)
  /\ Pass("event", lists["event"], second, third)

(* Lists only come to be, by delivery.                                     *)
Longer(old, lists) ==
  \A t \in Types : /\ DOMAIN old[t] \subseteq DOMAIN lists[t]
                   /\ \A id \in DOMAIN old[t] : lists[t][id] = old[t][id]

LEMMA ThreePassesHappen ==
  ASSUME NEW lists, ListsOK(lists), NEW tree, MapsOK(tree.map)
  PROVE  ThreePasses(lists, tree, First(lists, tree), Second(lists, tree), Third(lists, tree))
<1> USE DEF ListsOK
<1>0. "organization" \in Types /\ "season" \in Types /\ "event" \in Types
  BY DEF Types
<1>1. Pass("organization", lists["organization"], tree, First(lists, tree))
  BY <1>0, OnePass DEF Pass, First
<1>2. Pass("season", lists["season"], First(lists, tree), Second(lists, tree))
  <2>1. MapsOK(First(lists, tree).map)
    BY <1>1 DEF Pass, PassMaps
  <2> QED
    BY <1>0, <2>1, OnePass DEF Pass, Second
<1>3. Pass("event", lists["event"], Second(lists, tree), Third(lists, tree))
  <2>1. MapsOK(Second(lists, tree).map)
    BY <1>2 DEF Pass, PassMaps
  <2> QED
    BY <1>0, <2>1, OnePass DEF Pass, Third
<1> QED
  BY <1>1, <1>2, <1>3 DEF ThreePasses

LEMMA MapsOfOK ==
  ASSUME NEW lists, ListsOK(lists)
  PROVE  /\ MapsOK(MapsOf(lists))
         /\ \A t \in Types : DOMAIN MapsOf(lists)[t] =
                               {i \in DOMAIN lists[t] : RootedIn(lists, t, i)}
<1>1. \A t \in Types :
        /\ MapsOf(lists)[t] = [id \in {i \in DOMAIN lists[t] : RootedIn(lists, t, i)} |-> <<t, id>>]
        /\ DOMAIN lists[t] \subseteq 1..MaxId
  BY DEF MapsOf, ListsOK, RowsOK
<1>2. MapsOf(lists) = [u \in Types |-> MapsOf(lists)[u]]
  BY DEF MapsOf
<1>3. \A t \in Types : DOMAIN MapsOf(lists)[t] = {i \in DOMAIN lists[t] : RootedIn(lists, t, i)}
  BY <1>1
<1>4. \A t \in Types : /\ DOMAIN MapsOf(lists)[t] \subseteq 1..MaxId
                       /\ MapsOf(lists)[t] = [id \in DOMAIN MapsOf(lists)[t] |-> <<t, id>>]
  BY <1>1, <1>3
<1> QED
  BY <1>2, <1>3, <1>4 DEF MapsOK

LEMMA MapsEqual ==
  ASSUME NEW map, MapsOK(map), NEW others, MapsOK(others),
         \A t \in Types : DOMAIN map[t] = DOMAIN others[t]
  PROVE  map = others
<1>1. \A t \in Types : map[t] = others[t]
  BY DEF MapsOK
<1> QED
  BY <1>1 DEF MapsOK

(* After the passes the maps know the rooted rows.                         *)
LEMMA ThreePassesMap ==
  ASSUME NEW lists, ListsOK(lists), NEW old, ListsOK(old), Longer(old, lists),
         NEW tree, NEW first, NEW second, NEW third,
         ThreePasses(lists, tree, first, second, third), tree.map = MapsOf(old)
  PROVE  /\ third.map = MapsOf(lists)
         /\ second.map["event"] = tree.map["event"]
<1>0. "organization" \in Types /\ "season" \in Types /\ "event" \in Types
  BY DEF Types
<1>1. \A t \in Types : DOMAIN tree.map[t] = {i \in DOMAIN old[t] : RootedIn(old, t, i)}
  BY MapsOfOK
<1>2. \A t \in Types : \A i : RootedIn(old, t, i) => RootedIn(lists, t, i)
  <2> SUFFICES ASSUME NEW t \in Types, NEW i, RootedIn(old, t, i)
               PROVE  RootedIn(lists, t, i)
    OBVIOUS
  <2> QED
    BY ParentTypes, <1>0 DEF RootedIn, Longer
<1>3. /\ DOMAIN third.map["organization"] = DOMAIN lists["organization"]
      /\ DOMAIN first.map["organization"] = DOMAIN lists["organization"]
      /\ first.map["season"] = tree.map["season"] /\ first.map["event"] = tree.map["event"]
  <2>1. DOMAIN tree.map["organization"] = DOMAIN old["organization"]
    BY <1>0, <1>1 DEF RootedIn
  <2>2. DOMAIN first.map["organization"] =
          DOMAIN tree.map["organization"] \cup
            (DOMAIN lists["organization"] \ DOMAIN tree.map["organization"])
    BY <1>0 DEF ThreePasses, Pass, PassMaps, Fresh
  <2>3. DOMAIN first.map["organization"] = DOMAIN lists["organization"]
    BY <1>0, <2>1, <2>2 DEF Longer
  <2>4. third.map["organization"] = first.map["organization"]
    BY <1>0 DEF ThreePasses, Pass, PassMaps
  <2>5. first.map["season"] = tree.map["season"] /\ first.map["event"] = tree.map["event"]
    BY <1>0 DEF ThreePasses, Pass, PassMaps
  <2> QED
    BY <2>3, <2>4, <2>5
<1>4. /\ DOMAIN third.map["season"] =
           {i \in DOMAIN lists["season"] : RootedIn(lists, "season", i)}
      /\ DOMAIN second.map["season"] = DOMAIN third.map["season"]
      /\ second.map["event"] = tree.map["event"]
  <2>1. DOMAIN second.map["season"] =
          DOMAIN tree.map["season"] \cup
            {id \in DOMAIN lists["season"] \ DOMAIN tree.map["season"] :
               lists["season"][id].parent \in DOMAIN lists["organization"]}
    BY <1>0, <1>3, ParentTypes DEF ThreePasses, Pass, PassMaps, Fresh
  <2>2. \A i \in DOMAIN lists["season"] : RootedIn(lists, "season", i) <=>
          lists["season"][i].parent \in DOMAIN lists["organization"]
    BY ParentTypes DEF RootedIn
  <2>3. DOMAIN tree.map["season"] \subseteq
          {i \in DOMAIN lists["season"] : RootedIn(lists, "season", i)}
    BY <1>0, <1>1, <1>2 DEF Longer
  <2>4. DOMAIN second.map["season"] =
          {i \in DOMAIN lists["season"] : RootedIn(lists, "season", i)}
    BY <2>1, <2>2, <2>3
  <2>5. third.map["season"] = second.map["season"] /\ second.map["event"] = first.map["event"]
    BY <1>0 DEF ThreePasses, Pass, PassMaps
  <2> QED
    BY <1>3, <2>4, <2>5
<1>5. DOMAIN third.map["event"] = {i \in DOMAIN lists["event"] : RootedIn(lists, "event", i)}
  <2>1. DOMAIN third.map["event"] =
          DOMAIN tree.map["event"] \cup
            {id \in DOMAIN lists["event"] \ DOMAIN tree.map["event"] :
               lists["event"][id].parent \in DOMAIN second.map["season"]}
    BY <1>0, <1>4, ParentTypes DEF ThreePasses, Pass, PassMaps, Fresh
  <2>2. \A i \in DOMAIN lists["event"] : RootedIn(lists, "event", i) <=>
          lists["event"][i].parent \in DOMAIN second.map["season"]
    BY <1>4, ParentTypes DEF RootedIn
  <2>3. DOMAIN tree.map["event"] \subseteq
          {i \in DOMAIN lists["event"] : RootedIn(lists, "event", i)}
    BY <1>0, <1>1, <1>2 DEF Longer
  <2> QED
    BY <2>1, <2>2, <2>3
<1>6. {i \in DOMAIN lists["organization"] : RootedIn(lists, "organization", i)}
        = DOMAIN lists["organization"]
  BY DEF RootedIn
<1>7. MapsOK(third.map)
  BY DEF ThreePasses, Pass, PassMaps
<1>8. \A t \in Types : DOMAIN third.map[t] = DOMAIN MapsOf(lists)[t]
  <2>1. \A t \in Types : DOMAIN MapsOf(lists)[t] = {i \in DOMAIN lists[t] : RootedIn(lists, t, i)}
    BY MapsOfOK
  <2>2. DOMAIN third.map["organization"] = DOMAIN MapsOf(lists)["organization"]
    BY <2>1, <1>0, <1>3, <1>6
  <2>3. DOMAIN third.map["season"] = DOMAIN MapsOf(lists)["season"]
    BY <2>1, <1>0, <1>4
  <2>4. DOMAIN third.map["event"] = DOMAIN MapsOf(lists)["event"]
    BY <2>1, <1>0, <1>5
  <2> QED
    BY <2>2, <2>3, <2>4, ParentTypes
<1> QED
  BY <1>4, <1>7, <1>8, MapsOfOK, MapsEqual

LEMMA GrownTwice ==
  ASSUME NEW its, NEW others, NEW more, Grown(its, others), Grown(others, more)
  PROVE  Grown(its, more)
BY DEF Grown

(* If no deleted item was used, the tree is one after the passes.          *)
LEMMA ThreePassesShape ==
  ASSUME NEW lists, ListsOK(lists), NEW tree, NEW first, NEW second, NEW third,
         ThreePasses(lists, tree, first, second, third),
         ShapeOK(tree.items, tree.map), third.ok
  PROVE  /\ ShapeOK(first.items, first.map) /\ ShapeOK(second.items, second.map)
         /\ ShapeOK(third.items, third.map)
         /\ Grown(tree.items, third.items)
         /\ tree.ok
<1>0. "organization" \in Types /\ "season" \in Types /\ "event" \in Types
  BY DEF Types
<1>1. third.ok /\ second.ok /\ first.ok /\ tree.ok
      /\ PlacesExist("organization", lists["organization"], tree)
      /\ PlacesExist("season", lists["season"], first)
      /\ PlacesExist("event", lists["event"], second)
  BY DEF ThreePasses, Pass, PassOk
<1>2. \A t \in Types : RowsOK(lists[t])
  BY DEF ListsOK
<1>3. ShapeOK(first.items, first.map) /\ Grown(tree.items, first.items)
  BY <1>0, <1>1, <1>2, PassShape DEF ThreePasses, Pass
<1>4. ShapeOK(second.items, second.map) /\ Grown(first.items, second.items)
  BY <1>0, <1>1, <1>2, <1>3, PassShape DEF ThreePasses, Pass
<1>5. ShapeOK(third.items, third.map) /\ Grown(second.items, third.items)
  BY <1>0, <1>1, <1>2, <1>4, PassShape DEF ThreePasses, Pass
<1> QED
  BY <1>1, <1>3, <1>4, <1>5, GrownTwice

(* Whatever becomes of the deleted items, the items there were remain.     *)
LEMMA ThreePassesItems ==
  ASSUME NEW lists, ListsOK(lists), NEW tree, NEW first, NEW second, NEW third,
         ThreePasses(lists, tree, first, second, third), DOMAIN tree.items \subseteq Addresses
  PROVE  DOMAIN tree.items \subseteq DOMAIN third.items /\ DOMAIN third.items \subseteq Addresses
<1> DEFINE Kept(t, old, new) ==
             \A p \in DOMAIN new.items : p \in DOMAIN old.items \/ \E id \in 1..MaxId : p = <<t, id>>
<1>1. ASSUME NEW t \in Types, NEW old, NEW new, Pass(t, lists[t], old, new)
      PROVE  DOMAIN old.items \subseteq DOMAIN new.items /\ Kept(t, old, new)
  <2>1. \A id \in Fresh(t, lists[t], old.map) : id \in 1..MaxId
    BY DEF Fresh, ListsOK, RowsOK
  <2> QED
    BY <1>1, <2>1 DEF Pass, PassItems
<1>2. "organization" \in Types /\ "season" \in Types /\ "event" \in Types
  BY DEF Types
<1>3. /\ DOMAIN tree.items \subseteq DOMAIN first.items /\ Kept("organization", tree, first)
      /\ DOMAIN first.items \subseteq DOMAIN second.items /\ Kept("season", first, second)
      /\ DOMAIN second.items \subseteq DOMAIN third.items /\ Kept("event", second, third)
  <2> HIDE DEF Kept
  <2>1. DOMAIN tree.items \subseteq DOMAIN first.items /\ Kept("organization", tree, first)
    BY <1>1, <1>2 DEF ThreePasses
  <2>2. DOMAIN first.items \subseteq DOMAIN second.items /\ Kept("season", first, second)
    BY <1>1, <1>2 DEF ThreePasses
  <2>3. DOMAIN second.items \subseteq DOMAIN third.items /\ Kept("event", second, third)
    BY <1>1, <1>2 DEF ThreePasses
  <2> QED
    BY <2>1, <2>2, <2>3
<1>4. \A t \in Types, id \in 1..MaxId : <<t, id>> \in Addresses
  BY AddressParts
<1> QED
  BY <1>2, <1>3, <1>4

(* No deleted item is used when the rows the maps know have their items.   *)
LEMMA PassKeepsAll ==
  ASSUME NEW t \in Types, NEW rows, RowsOK(rows), NEW tree, NEW new, Pass(t, rows, tree, new),
         tree.ok, \A u \in Types : AllThere(u, tree)
  PROVE  new.ok /\ \A u \in Types : AllThere(u, new)
<1>1. PlacesExist(t, rows, tree)
  <2> SUFFICES ASSUME NEW id \in Fresh(t, rows, tree.map)
               PROVE  Place(t, rows, id) \in DOMAIN tree.items \cup {Nil}
    BY DEF PlacesExist
  <2>1. CASE t = "organization"
    BY <2>1 DEF Place
  <2>2. CASE t # "organization"
    <3>1. ParentType[t] \in Types /\ rows[id].parent \in DOMAIN tree.map[ParentType[t]]
      BY <2>2, ParentTypes DEF Fresh
    <3> QED
      BY <2>2, <3>1 DEF AllThere, Place
  <2> QED
    BY <2>1, <2>2
<1>2. ASSUME NEW u \in Types, NEW id \in DOMAIN new.map[u]
      PROVE  <<u, id>> \in DOMAIN new.items
  <2>1. CASE id \in DOMAIN tree.map[u]
    BY <2>1 DEF AllThere, Pass, PassItems
  <2>2. CASE id \notin DOMAIN tree.map[u]
    <3>1. u = t /\ id \in Fresh(t, rows, tree.map)
      BY <2>2 DEF Pass, PassMaps
    <3> QED
      BY <3>1 DEF Pass, PassItems
  <2> QED
    BY <2>1, <2>2
<1> QED
  BY <1>1, <1>2 DEF Pass, PassOk, AllThere

LEMMA ThreePassesKeepAll ==
  ASSUME NEW lists, ListsOK(lists), NEW tree, NEW first, NEW second, NEW third,
         ThreePasses(lists, tree, first, second, third), tree.ok,
         \A u \in Types : AllThere(u, tree)
  PROVE  third.ok
<1>1. "organization" \in Types /\ "season" \in Types /\ "event" \in Types
  BY DEF Types
<1>2. \A t \in Types : RowsOK(lists[t])
  BY DEF ListsOK
<1>3. first.ok /\ \A u \in Types : AllThere(u, first)
  BY <1>1, <1>2, PassKeepsAll DEF ThreePasses
<1>4. second.ok /\ \A u \in Types : AllThere(u, second)
  BY <1>1, <1>2, <1>3, PassKeepsAll DEF ThreePasses
<1> QED
  BY <1>1, <1>2, <1>4, PassKeepsAll DEF ThreePasses

(* New items are below the item of their row's parent.                     *)
LEMMA PassPlaced ==
  ASSUME NEW lists, ListsOK(lists), NEW t \in Types, NEW tree, NEW new,
         Pass(t, lists[t], tree, new), ShapeOK(tree.items, tree.map),
         PlacedOK(tree.items, lists)
  PROVE  PlacedOK(new.items, lists)
<1>1. RowsOK(lists[t])
  BY DEF ListsOK
<1>2. ASSUME NEW p \in DOMAIN tree.items
      PROVE  PlacedIn(new.items, lists, p)
  <2>1. new.items[p].parent = tree.items[p].parent
    BY <1>1, PassOldItems DEF Pass
  <2> QED
    BY <2>1 DEF PlacedOK, PlacedIn
<1>3. ASSUME NEW id \in Fresh(t, lists[t], tree.map)
      PROVE  PlacedIn(new.items, lists, <<t, id>>)
  <2>1. new.items[<<t, id>>].parent = Place(t, lists[t], id)
    <3>1. new.items[<<t, id>>] = NewItem(t, lists[t], id)
      BY DEF Pass, PassItems
    <3> QED
      BY <3>1 DEF NewItem
  <2>2. <<t, id>>[1] = t /\ <<t, id>>[2] = id
    BY PairParts
  <2> QED
    BY <2>1, <2>2 DEF Place, PlacedIn
<1> QED
  BY <1>2, <1>3 DEF Pass, PassItems, PlacedOK

LEMMA LongerPlaced ==
  ASSUME NEW old, ListsOK(old), NEW lists, Longer(old, lists), NEW its,
         ShapeOK(its, MapsOf(old)), PlacedOK(its, old)
  PROVE  PlacedOK(its, lists)
<1> SUFFICES ASSUME NEW p \in DOMAIN its, p[1] \in {"season", "event"}
             PROVE  its[p].parent = <<ParentType[p[1]], lists[p[1]][p[2]].parent>>
  BY DEF PlacedOK, PlacedIn
<1>1. p[1] \in Types /\ p[1] # "new"
  BY DEF Types
<1>2. p[2] \in DOMAIN MapsOf(old)[p[1]]
  BY <1>1 DEF ShapeOK, AtAddress
<1>3. p[2] \in DOMAIN old[p[1]]
  BY <1>1, <1>2, MapsOfOK
<1>4. lists[p[1]][p[2]] = old[p[1]][p[2]]
  BY <1>1, <1>3 DEF Longer
<1> QED
  BY <1>4 DEF PlacedOK, PlacedIn

LEMMA ThreePassesPlaced ==
  ASSUME NEW lists, ListsOK(lists), NEW tree, NEW first, NEW second, NEW third,
         ThreePasses(lists, tree, first, second, third),
         ShapeOK(tree.items, tree.map), third.ok, PlacedOK(tree.items, lists)
  PROVE  PlacedOK(third.items, lists)
<1>0. "organization" \in Types /\ "season" \in Types /\ "event" \in Types
  BY DEF Types
<1>1. ShapeOK(first.items, first.map) /\ ShapeOK(second.items, second.map)
  BY ThreePassesShape
<1>2. PlacedOK(first.items, lists)
  BY <1>0, PassPlaced DEF ThreePasses
<1>3. PlacedOK(second.items, lists)
  BY <1>0, <1>1, <1>2, PassPlaced DEF ThreePasses
<1> QED
  BY <1>0, <1>1, <1>3, PassPlaced DEF ThreePasses

(* The events that get the first items of all show their rows.             *)
LEMMA ThreePassesNames ==
  ASSUME NEW lists, ListsOK(lists), NEW tree, NEW first, NEW second, NEW third,
         ThreePasses(lists, tree, first, second, third),
         ShapeOK(tree.items, tree.map), third.ok, DOMAIN second.map["event"] = {},
         NEW id, <<"event", id>> \in DOMAIN third.items
  PROVE  /\ id \in DOMAIN lists["event"]
         /\ third.items[<<"event", id>>].name = lists["event"][id].name
<1>1. ShapeOK(second.items, second.map)
  BY ThreePassesShape
<1>2. <<"event", id>>[1] = "event" /\ <<"event", id>>[2] = id
  BY PairParts
<1>3. <<"event", id>> \notin DOMAIN second.items
  BY <1>1, <1>2 DEF ShapeOK, AtAddress
<1>4. PICK i \in Fresh("event", lists["event"], second.map) : <<"event", id>> = <<"event", i>>
  BY <1>3 DEF ThreePasses, Pass, PassItems
<1>5. i = id
  BY <1>4, PairParts
<1>6. third.items[<<"event", id>>] = NewItem("event", lists["event"], id)
  BY <1>4, <1>5 DEF ThreePasses, Pass, PassItems
<1> QED
  BY <1>4, <1>5, <1>6 DEF NewItem, Fresh

-----------------------------------------------------------------------------
(* The lists.                                                              *)

LEMMA InitialId ==
  /\ InitialLastId \in 0..MaxId
  /\ \A t \in Types : DOMAIN InitialDb[t] \subseteq 0..InitialLastId
<1> DEFINE Bound(n) == \A t \in Types : DOMAIN InitialDb[t] \subseteq 0..n
           S == {n \in Nat : Bound(n)}
<1>0. MaxId \in Nat /\ \A t \in Types : DOMAIN InitialDb[t] \subseteq 1..MaxId
  BY AdminAssumption
<1>1. MaxId \in S
  BY <1>0
<1>2. PICK n \in S : \A m \in S : n <= m
  <2> HIDE DEF S
  <2>1. S \in SUBSET Nat
    BY DEF S
  <2> QED
    BY <1>1, <2>1, LeastNumber
<1>3. n \in 0..MaxId /\ Bound(n)
  BY <1>0, <1>1, <1>2
<1>4. n = 0 \/ \E t \in Types : n \in DOMAIN InitialDb[t]
  <2> SUFFICES ASSUME n # 0, \A t \in Types : n \notin DOMAIN InitialDb[t]
               PROVE  FALSE
    OBVIOUS
  <2>1. n - 1 \in Nat /\ ~(n <= n - 1)
    BY <1>3
  <2>2. ASSUME NEW t \in Types, NEW id \in DOMAIN InitialDb[t]
        PROVE  id \in 0..(n - 1)
    <3>1. id \in 0..n /\ id # n
      BY <1>3, <2>2
    <3> QED
      BY <3>1, <1>3
  <2>3. n - 1 \in S
    BY <2>1, <2>2
  <2> QED
    BY <2>1, <2>3, <1>2
<1> QED
  BY <1>3, <1>4 DEF InitialLastId

LEMMA InitLists == Init => ListInv
<1> SUFFICES ASSUME Init
             PROVE  ListInv
  OBVIOUS
<1>1. ListsOK(db)
  BY AdminAssumption DEF Init, ListsOK, RowsOK
<1>2. ListsOK(listed)
  BY NoRows DEF Init, ListsOK
<1> QED
  BY <1>1, <1>2, NoRows, Bounds, InitialId DEF Init, ListInv

(* The variables of ListInv.                                               *)
listVars == <<db, lastId, changes, failures, jobs, listed>>

LEMMA FailBound == failures \in 0..MaxFailures /\ Fail => failures' \in 0..MaxFailures
BY Bounds DEF Fail

(* A change of one table of the database keeps the rest of ListInv.        *)
LEMMA DbChange ==
  ASSUME ListInv, NEW t \in Types, NEW rows, RowsOK(rows), db' = [db EXCEPT ![t] = rows],
         UNCHANGED <<jobs, listed>>,
         lastId' \in 0..MaxId, changes' \in 0..MaxChanges, failures' \in 0..MaxFailures
  PROVE  ListInv'
<1>1. ListsOK(db')
  BY DEF ListInv, ListsOK
<1> QED
  BY <1>1 DEF ListInv

(* Another client's save: rows remain, with their parents.                 *)
LEMMA SavedElsewhere ==
  ASSUME ListInv, NEW id \in DOMAIN db["event"], NEW name \in Names,
         db' = [db EXCEPT !["event"][id].name = name]
  PROVE  /\ db' = [db EXCEPT !["event"] = [db["event"] EXCEPT ![id].name = name]]
         /\ RowsOK([db["event"] EXCEPT ![id].name = name])
         /\ \A t \in Types : DOMAIN db'[t] = DOMAIN db[t]
         /\ \A i \in DOMAIN db["event"] : /\ db'["event"][i].parent = db["event"][i].parent
                                          /\ i # id => db'["event"][i] = db["event"][i]
<1> DEFINE rows == [db["event"] EXCEPT ![id].name = name]
<1>0. "event" \in Types /\ db = [t \in Types |-> db[t]] /\ RowsOK(db["event"])
  BY DEF Types, ListInv, ListsOK
<1>1. db' = [db EXCEPT !["event"] = rows]
  BY <1>0
<1>2. /\ DOMAIN rows = DOMAIN db["event"]
      /\ \A i \in DOMAIN db["event"] : i # id => rows[i] = db["event"][i]
  OBVIOUS
<1>3. \A row \in Row : /\ [row EXCEPT !.name = name] \in Row
                       /\ [row EXCEPT !.name = name].parent = row.parent
  BY DEF Row
<1>4. rows[id] = [db["event"][id] EXCEPT !.name = name] /\ db["event"][id] \in Row
  BY <1>0 DEF RowsOK
<1>5. rows[id] \in Row /\ rows[id].parent = db["event"][id].parent
  BY <1>3, <1>4
<1>6. rows = [i \in DOMAIN rows |-> rows[i]]
  OBVIOUS
<1> HIDE DEF rows
<1>7. RowsOK(rows)
  BY <1>0, <1>2, <1>5, <1>6 DEF RowsOK
<1>8. db'["event"] = rows /\ \A t \in Types : t # "event" => db'[t] = db[t]
  BY <1>0, <1>1
<1>9. /\ \A t \in Types : DOMAIN db'[t] = DOMAIN db[t]
      /\ \A i \in DOMAIN db["event"] : /\ db'["event"][i].parent = db["event"][i].parent
                                       /\ i # id => db'["event"][i] = db["event"][i]
  BY <1>2, <1>5, <1>8
<1> QED
  BY <1>1, <1>7, <1>9 DEF rows

LEMMA NextId == lastId \in 0..MaxId /\ lastId < MaxId => lastId + 1 \in 1..MaxId
BY Bounds

(* What the form stores.                                                   *)
LEMMA StoreRow ==
  ASSUME ListInv, NEW season, NEW name \in Names, UNCHANGED <<changes, jobs, listed>>,
         CreateEvent(season, name) \/ \E id : UpdateEvent(id, season, name)
  PROVE  ListInv'
<1>0. "event" \in Types /\ "season" \in Types /\ failures \in 0..MaxFailures
      /\ changes \in 0..MaxChanges /\ lastId \in 0..MaxId /\ \A t \in Types : RowsOK(db[t])
  BY DEF Types, ListInv, ListsOK
<1>1. failures' \in 0..MaxFailures
  BY <1>0, FailBound DEF CreateEvent, UpdateEvent
<1>2. CASE UNCHANGED <<db, lastId>>
  BY <1>1, <1>2 DEF ListInv
<1>3. InDb("season", season) => [parent |-> season, name |-> name] \in Row
  BY <1>0, Bounds DEF InDb, RowsOK, Row
<1>4. CASE InDb("season", season) /\ lastId < MaxId /\ lastId' = lastId + 1 /\
             db' = [db EXCEPT !["event"] = Put(@, lastId', [parent |-> season, name |-> name])]
  <2>1. lastId' \in 1..MaxId /\ lastId' \in 0..MaxId
    BY <1>0, <1>4, NextId
  <2>2. RowsOK(Put(db["event"], lastId', [parent |-> season, name |-> name]))
    BY <1>0, <1>3, <1>4, <2>1, PutRow
  <2> QED
    BY <1>0, <1>1, <1>4, <2>1, <2>2, DbChange
<1>5. ASSUME NEW id, InDb("event", id), InDb("season", season), UNCHANGED lastId,
             db' = [db EXCEPT !["event"][id] = [parent |-> season, name |-> name]]
      PROVE  ListInv'
  <2> DEFINE rows == [db["event"] EXCEPT ![id] = [parent |-> season, name |-> name]]
  <2>1. RowsOK(rows)
    BY <1>0, <1>3, <1>5 DEF RowsOK
  <2>2. db' = [db EXCEPT !["event"] = rows]
    BY <1>5
  <2> HIDE DEF rows
  <2> QED
    BY <1>0, <1>1, <1>5, <2>1, <2>2, DbChange
<1> QED
  BY <1>2, <1>4, <1>5 DEF CreateEvent, UpdateEvent

LEMMA StepLists == ListInv /\ [Next]_vars => ListInv'
<1> SUFFICES ASSUME ListInv, [Next]_vars
             PROVE  ListInv'
  OBVIOUS
<1>0. "season" \in Types /\ "event" \in Types /\ failures \in 0..MaxFailures
      /\ changes \in 0..MaxChanges /\ lastId \in 0..MaxId /\ \A t \in Types : RowsOK(db[t])
  BY DEF Types, ListInv, ListsOK
<1>1. ASSUME UNCHANGED listVars
      PROVE  ListInv'
  BY <1>1 DEF listVars, ListInv
<1>2. CASE ChangeElsewhere
  <2>1. changes' \in 0..MaxChanges /\ failures' \in 0..MaxFailures /\ UNCHANGED <<jobs, listed>>
    BY <1>0, <1>2, Bounds DEF ChangeElsewhere
  <2>2. ASSUME NEW t \in {"season", "event"}, NEW parent \in DOMAIN db[ParentType[t]],
               NEW name \in Names, lastId < MaxId, lastId' = lastId + 1,
               db' = [db EXCEPT ![t] = Put(@, lastId', [parent |-> parent, name |-> name])]
        PROVE  ListInv'
    <3>1. lastId' \in 1..MaxId /\ lastId' \in 0..MaxId
      BY <1>0, <2>2, NextId
    <3>2. t \in Types /\ ParentType[t] \in Types
      BY <1>0, ParentTypes DEF Types
    <3>3. [parent |-> parent, name |-> name] \in Row
      <4>1. parent \in 1..MaxId
        BY <1>0, <3>2 DEF RowsOK
      <4> QED
        BY <4>1, Bounds DEF Row
    <3>4. RowsOK(Put(db[t], lastId', [parent |-> parent, name |-> name]))
      BY <1>0, <3>1, <3>2, <3>3, PutRow
    <3> QED
      BY <2>1, <2>2, <3>1, <3>2, <3>4, DbChange
  <2>3. ASSUME NEW t \in {"season", "event"}, NEW id, UNCHANGED lastId,
               db' = [db EXCEPT ![t] = Restrict(@, DOMAIN @ \ {id})]
        PROVE  ListInv'
    <3>1. RowsOK(Restrict(db[t], DOMAIN db[t] \ {id}))
      BY <1>0, RestrictRows
    <3> QED
      BY <1>0, <2>1, <2>3, <3>1, DbChange
  <2>4. ASSUME NEW id \in DOMAIN db["event"], NEW name \in Names, UNCHANGED lastId,
               db' = [db EXCEPT !["event"][id].name = name]
        PROVE  ListInv'
    <3> DEFINE rows == [db["event"] EXCEPT ![id].name = name]
    <3>1. RowsOK(rows) /\ db' = [db EXCEPT !["event"] = rows]
      BY <2>4, SavedElsewhere
    <3> HIDE DEF rows
    <3> QED
      BY <1>0, <2>1, <2>4, <3>1, DbChange
  <2> QED
    BY <1>2, <2>2, <2>3, <2>4 DEF ChangeElsewhere
<1>3. ASSUME NEW t \in Types, ReadList(t)
      PROVE  ListInv'
  <2>1. failures' \in 0..MaxFailures
    BY <1>0, <1>3, FailBound DEF ReadList
  <2>2. ASSUME NEW rows, RowsOK(rows), jobs' = [jobs EXCEPT ![t] = [state |-> "read", rows |-> rows]]
        PROVE  ListInv'
    <3>1. jobs' = [u \in Types |-> [state |-> jobs'[u].state, rows |-> jobs'[u].rows]]
          /\ \A u \in Types : IF u = t THEN jobs'[u].state = "read" /\ jobs'[u].rows = rows
                              ELSE jobs'[u].state = jobs[u].state /\ jobs'[u].rows = jobs[u].rows
      BY <2>2 DEF ListInv
    <3>2. DOMAIN listed[t] = {}
      BY <1>3 DEF ReadList, ListInv
    <3> QED
      BY <1>3, <2>1, <2>2, <3>1, <3>2 DEF ReadList, ListInv
  <2> QED
    BY <1>0, <1>3, <2>2, NoRows DEF ReadList
<1>4. ASSUME NEW t \in Types, DeliverList(t)
      PROVE  ListInv'
  <2>1. jobs' = [u \in Types |-> [state |-> jobs'[u].state, rows |-> jobs'[u].rows]]
        /\ \A u \in Types : IF u = t THEN jobs'[u].state = "delivered" /\ jobs'[u].rows = EmptyMap
                            ELSE jobs'[u].state = jobs[u].state /\ jobs'[u].rows = jobs[u].rows
    BY <1>4 DEF DeliverList, ListInv
  <2>2. ListsOK(listed') /\ \A u \in Types \ {t} : listed'[u] = listed[u]
    BY <1>4 DEF DeliverList, ListInv, ListsOK
  <2> QED
    BY <1>4, <2>1, <2>2, NoRows DEF DeliverList, ListInv
<1>5. CASE deleteClicked
  <2>1. ASSUME NEW t, NEW id, Destroy(t, id)
        PROVE  ListInv'
    <3>1. failures' \in 0..MaxFailures
      BY <1>0, <2>1, FailBound DEF Destroy
    <3>2. t \in Types => RowsOK(Restrict(db[t], DOMAIN db[t] \ {id}))
      BY <1>0, RestrictRows
    <3>3. UNCHANGED <<lastId, changes, jobs, listed>>
      BY <1>5 DEF deleteClicked
    <3>4. CASE db' = [db EXCEPT ![t] = Restrict(@, DOMAIN @ \ {id})] /\ t \in Types
      BY <1>0, <3>1, <3>2, <3>3, <3>4, DbChange
    <3>5. CASE UNCHANGED db
      BY <3>1, <3>3, <3>5 DEF ListInv
    <3>6. CASE db' = [db EXCEPT ![t] = Restrict(@, DOMAIN @ \ {id})] /\ t \notin Types
      <4>1. UNCHANGED db
        BY <3>6 DEF ListInv, ListsOK
      <4> QED
        BY <3>1, <3>3, <4>1 DEF ListInv
    <3> QED
      BY <2>1, <3>4, <3>5, <3>6 DEF Destroy
  <2> QED
    <3>1. Destroy(items[current].type, items[current].id)
      BY <1>5 DEF deleteClicked
    <3> QED
      BY <2>1, <3>1
<1>6. ASSUME NEW name \in Names, eventSaved(name)
      PROVE  ListInv'
  BY <1>6, StoreRow DEF eventSaved
<1>7. CASE (\E p \in DOMAIN items \cup {Nil} : Select(p)) \/ addClicked \/ eventCancelled
  BY <1>1, <1>7 DEF Select, addClicked, eventCancelled, listVars
<1>8. CASE UNCHANGED vars
  BY <1>1, <1>8 DEF vars, listVars
<1> QED
  BY <1>2, <1>3, <1>4, <1>5, <1>6, <1>7, <1>8 DEF Next

LEMMA StepOverwritten == ListInv /\ OverwrittenInv /\ [Next]_vars => OverwrittenInv'
<1> SUFFICES ASSUME ListInv, OverwrittenInv, [Next]_vars
             PROVE  OverwrittenInv'
  OBVIOUS
<1>1. DOMAIN db["event"] \subseteq 1..MaxId
  BY DEF Types, ListInv, ListsOK, RowsOK
<1>2. CASE ChangeElsewhere
  BY <1>1, <1>2 DEF ChangeElsewhere, OverwrittenInv
<1>3. ASSUME NEW name \in Names, eventSaved(name)
      PROVE  OverwrittenInv'
  <2>1. UNCHANGED overwritten \/ \E id : overwritten' = overwritten \ {id}
    BY <1>3 DEF eventSaved, UpdateEvent
  <2> QED
    BY <2>1 DEF OverwrittenInv
<1>4. ASSUME NEW t \in Types, ReadList(t)
      PROVE  OverwrittenInv'
  BY <1>4 DEF ReadList, OverwrittenInv
<1>5. CASE UNCHANGED overwritten
  BY <1>5 DEF OverwrittenInv
<1> QED
  BY <1>2, <1>3, <1>4, <1>5 DEF Next, vars, DeliverList, Select, addClicked, deleteClicked,
                                eventCancelled

-----------------------------------------------------------------------------
(* The maps and the tree.                                                  *)

Rebuilt(lists) == Third(lists, Tree)

(* What a delivered list does.                                             *)
LEMMA DeliverListEffect ==
  ASSUME ListInv, MapInv, NEW t \in Types, DeliverList(t)
  PROVE  /\ ListsOK(listed') /\ Longer(listed, listed') /\ MapsOK(Tree.map)
         /\ ThreePasses(listed', Tree, First(listed', Tree), Second(listed', Tree),
                        Rebuilt(listed'))
         /\ mTreeItems' = Rebuilt(listed').map /\ items' = Rebuilt(listed').items
         /\ crashed' = ~Rebuilt(listed').ok
         /\ DOMAIN listed[t] = {}
         /\ Tree.map = mTreeItems /\ Tree.items = items /\ Tree.ok
<1>1. DOMAIN listed[t] = {} /\ ListsOK(listed) /\ RowsOK(jobs[t].rows)
  BY DEF DeliverList, ListInv
<1>2. ListsOK(listed') /\ listed'[t] = jobs[t].rows
      /\ \A u \in Types \ {t} : listed'[u] = listed[u]
  BY <1>1 DEF DeliverList, ListsOK
<1>3. Longer(listed, listed')
  BY <1>1, <1>2 DEF Longer
<1>4. Tree.map = mTreeItems /\ Tree.items = items /\ Tree.ok
  BY DEF Tree
<1>5. MapsOK(Tree.map)
  BY <1>1, <1>4, MapsOfOK DEF MapInv
<1>6. ThreePasses(listed', Tree, First(listed', Tree), Second(listed', Tree), Rebuilt(listed'))
  BY <1>2, <1>5, ThreePassesHappen DEF Rebuilt
<1>7. rebuildTree(listed') <=> BecomesTree(Rebuilt(listed'))
  BY DEF rebuildTree, Rebuilt, Third, Second, First
<1> QED
  BY <1>1, <1>2, <1>3, <1>4, <1>5, <1>6, <1>7 DEF DeliverList, BecomesTree

(* The maps follow the lists; only a delivery changes either.              *)
LEMMA InitMaps == Init => MapInv
<1> SUFFICES ASSUME Init
             PROVE  MapInv
  OBVIOUS
<1>1. \A t \in Types : DOMAIN listed[t] = {}
  BY NoRows DEF Init
<1>2. \A t \in Types : {i \in DOMAIN listed[t] : RootedIn(listed, t, i)} = {}
  BY <1>1
<1>3. \A t \in Types : [id \in {i \in DOMAIN listed[t] : RootedIn(listed, t, i)} |-> <<t, id>>] = EmptyMap
  BY <1>2 DEF EmptyMap
<1>4. MapsOf(listed) = [t \in Types |-> EmptyMap]
  <2>1. \A t \in Types : MapsOf(listed)[t] = EmptyMap
    BY <1>3 DEF MapsOf
  <2>2. MapsOf(listed) = [t \in Types |-> MapsOf(listed)[t]]
    BY DEF MapsOf
  <2> QED
    BY <2>1, <2>2
<1> QED
  BY <1>4 DEF Init, MapInv

LEMMA StepMaps == ListInv /\ MapInv /\ [Next]_vars => MapInv'
<1> SUFFICES ASSUME ListInv, MapInv, [Next]_vars
             PROVE  MapInv'
  OBVIOUS
<1>1. ASSUME NEW t \in Types, DeliverList(t)
      PROVE  MapInv'
  <2>1. Tree.map = MapsOf(listed) /\ ListsOK(listed)
    BY <1>1, DeliverListEffect DEF MapInv, ListInv
  <2>2. Rebuilt(listed').map = MapsOf(listed')
    BY <1>1, <2>1, DeliverListEffect, ThreePassesMap
  <2> QED
    BY <1>1, <2>2, DeliverListEffect DEF MapInv
<1>2. CASE UNCHANGED <<listed, mTreeItems>>
  BY <1>2 DEF MapInv
<1> QED
  BY <1>1, <1>2 DEF Next, vars, ChangeElsewhere, ReadList, Select, addClicked, deleteClicked,
                    eventSaved, eventCancelled

(* A delivery comes before any event has an item.                          *)
LEMMA NoEventBefore ==
  ASSUME ListInv, MapInv, NEW t \in Types, DOMAIN listed[t] = {}
  PROVE  DOMAIN mTreeItems["event"] = {}
<1>1. "event" \in Types
  BY DEF Types
<1>2. \A i \in DOMAIN listed["event"] : ~RootedIn(listed, "event", i)
  BY ParentTypes DEF RootedIn
<1> QED
  BY <1>1, <1>2, MapsOfOK DEF MapInv, ListInv

(* Items that come to be by a delivery, or by Add, are fit for the tree,   *)
(* and a tree remains one when an item is removed with all below it.       *)
LEMMA WithoutShape ==
  ASSUME NEW map, ShapeOK(items, map), NEW p \in DOMAIN items, items[p].type # "organization"
  PROVE  /\ ShapeOK(Without(p), map) /\ Grown(Without(p), items)
         /\ DOMAIN Without(p) = DOMAIN items \ Below(p)
         /\ \A q \in DOMAIN Without(p) : Without(p)[q] = items[q]
<1>1. /\ DOMAIN Without(p) = DOMAIN items \ Below(p)
      /\ \A q \in DOMAIN Without(p) : q \in DOMAIN items /\ Without(p)[q] = items[q]
      /\ Without(p) = [q \in DOMAIN Without(p) |-> Without(p)[q]]
  BY DEF Without, Restrict
<1>2. ItemsOK(Without(p))
  BY <1>1 DEF ShapeOK, ItemsOK
<1>3. ASSUME NEW q \in DOMAIN Without(p)
      PROVE  InPlace(Without(p), q) /\ AtAddress(Without(p), map, q)
  <2>1. AtAddress(Without(p), map, q)
    BY <1>1 DEF ShapeOK, AtAddress
  <2>2. q \in DOMAIN items /\ q \notin Below(p) /\ items[q].type \in Types /\ InPlace(items, q)
    BY <1>1, ItemParts DEF ShapeOK, ItemsOK
  <2>3. q # p /\ items[q].parent # p
    BY <2>2 DEF Below
  <2>4. CASE items[q].type = "organization"
    BY <2>1, <2>2, <2>4, <1>1 DEF InPlace
  <2>5. CASE items[q].type \in {"season", "event"}
    <3> DEFINE a == items[q].parent
    <3>1. a \in DOMAIN items /\ a \in Addresses /\ a # Nil /\ InPlace(items, a)
      BY <2>2, <2>5, AddressParts DEF InPlace, ShapeOK, ItemsOK
    <3>2. items[a].parent # p
      BY <2>2, <3>1 DEF Below
    <3>3. items[a].type = "organization" \/ items[a].type = "season"
      BY <2>2, <2>5 DEF InPlace
    <3>4. items[a].type = "season" => /\ items[a].parent \in DOMAIN items /\ items[a].parent # Nil
                                      /\ items[items[a].parent].type = "organization"
      BY <3>1, AddressParts DEF InPlace, ShapeOK, ItemsOK
    <3>5. items[a].type = "organization" => items[a].parent = Nil
      BY <3>1 DEF InPlace
    <3>6. items[a].type = "season" => items[items[a].parent].parent = Nil /\ p # Nil
      BY <3>4, AddressParts DEF ShapeOK, ItemsOK, InPlace
    <3>7. a \notin Below(p)
      BY <2>3, <3>2, <3>3, <3>4, <3>5, <3>6 DEF Below
    <3>8. a \in DOMAIN Without(p) /\ Without(p)[a] = items[a] /\ Without(p)[q] = items[q]
      BY <1>1, <3>1, <3>7
    <3> QED
      BY <2>1, <2>2, <2>5, <3>8 DEF InPlace
  <2> QED
    BY <2>1, <2>2, <2>4, <2>5, ParentTypes
<1>4. Grown(Without(p), items)
  BY <1>1 DEF Grown
<1> QED
  BY <1>1, <1>2, <1>3, <1>4 DEF ShapeOK

LEMMA WithoutPlaced ==
  ASSUME NEW lists, PlacedOK(items, lists), NEW p, DOMAIN Without(p) \subseteq DOMAIN items,
         \A q \in DOMAIN Without(p) : Without(p)[q] = items[q]
  PROVE  PlacedOK(Without(p), lists)
BY DEF PlacedOK, PlacedIn

(* The form changes a name and not what is where.                          *)
Renamed(its, p, name) == [its EXCEPT ![p].name = name]

LEMMA NameChange ==
  ASSUME NEW map, ShapeOK(items, map), NEW p \in DOMAIN items, NEW name \in Names \cup {NewEvent},
         NEW lists, PlacedOK(items, lists),
         NEW others, others = Renamed(items, p, name)
  PROVE  /\ ShapeOK(others, map) /\ PlacedOK(others, lists) /\ Grown(items, others)
         /\ DOMAIN others = DOMAIN items
         /\ others[p].name = name
         /\ \A q \in DOMAIN items \ {p} : others[q] = items[q]
<1>1. /\ DOMAIN others = DOMAIN items
      /\ others[p] = [items[p] EXCEPT !.name = name]
      /\ \A q \in DOMAIN items \ {p} : others[q] = items[q]
      /\ others = [q \in DOMAIN others |-> others[q]]
      /\ \A q \in DOMAIN items : items[q] \in AnyItem
  BY DEF ShapeOK, ItemsOK, Renamed
<1>2. /\ others[p] \in AnyItem /\ others[p].id = items[p].id /\ others[p].type = items[p].type
      /\ others[p].parent = items[p].parent /\ others[p].name = name
  <2>1. \A item \in AnyItem : LET new == [item EXCEPT !.name = name] IN
          /\ new \in AnyItem /\ new.id = item.id /\ new.type = item.type
          /\ new.parent = item.parent /\ new.name = name
    BY ItemParts
  <2>2. items[p] \in AnyItem /\ others[p] = [items[p] EXCEPT !.name = name]
    BY <1>1
  <2> QED
    BY <2>1, <2>2
<1>3. Grown(items, others)
  BY <1>1, <1>2 DEF Grown
<1>4. ItemsOK(others)
  BY <1>1, <1>2 DEF ShapeOK, ItemsOK
<1>5. ASSUME NEW q \in DOMAIN items
      PROVE  InPlace(others, q) /\ AtAddress(others, map, q) /\ PlacedIn(others, lists, q)
  <2>1. /\ others[q].id = items[q].id /\ others[q].type = items[q].type
        /\ others[q].parent = items[q].parent
    BY <1>3 DEF Grown
  <2>2. AtAddress(others, map, q) /\ PlacedIn(others, lists, q)
    BY <2>1 DEF ShapeOK, AtAddress, PlacedOK, PlacedIn
  <2>3. InPlace(items, q) /\ items[q].type \in Types
    BY ItemParts DEF ShapeOK, ItemsOK
  <2>4. InPlace(others, q)
    <3>1. items[q].parent \in DOMAIN items =>
            /\ items[q].parent \in DOMAIN others
            /\ others[items[q].parent].type = items[items[q].parent].type
      BY <1>3 DEF Grown
    <3>2. items[q].type = "organization" \/ items[q].type = "season" \/ items[q].type = "event"
      BY <2>3, ParentTypes
    <3> QED
      BY <2>1, <2>3, <3>1, <3>2 DEF InPlace
  <2> QED
    BY <2>2, <2>4
<1> QED
  BY <1>1, <1>2, <1>3, <1>4, <1>5 DEF ShapeOK, PlacedOK

LEMMA AddedItem ==
  ASSUME NEW map, ShapeOK(items, map), NEW lists, PlacedOK(items, lists),
         NEW k \in 1..MaxAdds, <<"new", k>> \notin DOMAIN items,
         NEW season \in DOMAIN items, items[season].type = "season",
         NEW others,
         others = Put(items, <<"new", k>>, [id |-> 0, type |-> "event", parent |-> season,
                                            name |-> NewEvent])
  PROVE  /\ ShapeOK(others, map) /\ PlacedOK(others, lists) /\ Grown(items, others)
         /\ DOMAIN others = DOMAIN items \cup {<<"new", k>>}
         /\ others[<<"new", k>>].type = "event"
         /\ \A q \in DOMAIN items : others[q] = items[q]
<1> DEFINE new == <<"new", k>>
           item == [id |-> 0, type |-> "event", parent |-> season, name |-> NewEvent]
<1>1. /\ DOMAIN others = DOMAIN items \cup {new} /\ others[new] = item
      /\ others = [q \in DOMAIN others |-> others[q]]
  BY DEF Put
<1>2. \A q \in DOMAIN items : others[q] = items[q] /\ items[q] \in AnyItem /\ q # new
  BY DEF Put, ShapeOK, ItemsOK
<1>3. new \in Addresses /\ season \in Addresses /\ new[1] = "new" /\ "event" \in Types
  BY AddressParts, PairParts DEF ShapeOK, ItemsOK, Types
<1> HIDE DEF new
<1>4. item \in AnyItem /\ item.id = 0 /\ item.type = "event" /\ item.parent = season
  BY <1>3, Bounds DEF AnyItem
<1> HIDE DEF item
<1>5. ItemsOK(others)
  BY <1>1, <1>2, <1>3, <1>4 DEF ShapeOK, ItemsOK
<1>6. Grown(items, others)
  BY <1>1, <1>2 DEF Grown
<1>7. ASSUME NEW q \in DOMAIN items
      PROVE  InPlace(others, q) /\ AtAddress(others, map, q) /\ PlacedIn(others, lists, q)
  <2>1. AtAddress(others, map, q) /\ PlacedIn(others, lists, q)
    BY <1>2 DEF ShapeOK, AtAddress, PlacedOK, PlacedIn
  <2>2. InPlace(items, q) /\ items[q].type \in Types
    BY ItemParts DEF ShapeOK, ItemsOK
  <2>3. InPlace(others, q)
    <3>1. /\ others[q].type = items[q].type /\ others[q].parent = items[q].parent
      BY <1>6 DEF Grown
    <3>2. items[q].parent \in DOMAIN items =>
            /\ items[q].parent \in DOMAIN others
            /\ others[items[q].parent].type = items[items[q].parent].type
      BY <1>6 DEF Grown
    <3>3. items[q].type = "organization" \/ items[q].type = "season" \/ items[q].type = "event"
      BY <2>2, ParentTypes
    <3> QED
      BY <2>2, <3>1, <3>2, <3>3 DEF InPlace
  <2> QED
    BY <2>1, <2>3
<1>8. InPlace(others, new) /\ AtAddress(others, map, new) /\ PlacedIn(others, lists, new)
  BY <1>1, <1>2, <1>3, <1>4 DEF InPlace, AtAddress, PlacedIn
<1> QED
  BY <1>1, <1>2, <1>4, <1>5, <1>6, <1>7, <1>8 DEF ShapeOK, PlacedOK, new

-----------------------------------------------------------------------------
(* The form.                                                               *)

(* The form of an item stays the same while the items above it do.         *)
LEMMA GrownForm ==
  ASSUME NEW map, NEW its, ShapeOK(its, map), NEW others, Grown(its, others),
         NEW p \in DOMAIN its
  PROVE  /\ others[p].type = its[p].type
         /\ its[p].type = "event" => FormOf(others, p) = FormOf(its, p) /\ FormOf(its, p) \in Forms
<1>1. others[p].type = its[p].type
  BY DEF Grown
<1>2. ASSUME its[p].type = "event"
      PROVE  FormOf(others, p) = FormOf(its, p) /\ FormOf(its, p) \in Forms
  <2> DEFINE s == its[p].parent
             o == its[s].parent
  <2>1. s \in DOMAIN its /\ its[s].type = "season"
    BY <1>2 DEF ShapeOK, InPlace
  <2>2. o \in DOMAIN its
    BY <2>1 DEF ShapeOK, InPlace
  <2>3. others[p].parent = s /\ others[s].parent = o
    BY <2>1 DEF Grown
  <2>4. others[p].id = its[p].id /\ others[s].id = its[s].id /\ others[o].id = its[o].id
    BY <2>1, <2>2 DEF Grown
  <2>5. its[p].id \in 0..MaxId /\ its[s].id \in 0..MaxId /\ its[o].id \in 0..MaxId
    BY <2>1, <2>2, ItemParts DEF ShapeOK, ItemsOK
  <2>6. FormOf(its, p) = [event |-> its[p].id, season |-> its[s].id, organization |-> its[o].id]
    BY DEF FormOf
  <2>7. FormOf(others, p) = [event |-> its[p].id, season |-> its[s].id, organization |-> its[o].id]
    BY <2>3, <2>4 DEF FormOf
  <2> QED
    BY <2>5, <2>6, <2>7 DEF Forms
<1> QED
  BY <1>1, <1>2

LEMMA GrownSelf == \A its : Grown(its, its)
BY DEF Grown

LEMMA NilIsNoForm == Nil \notin Forms /\ Nil \notin Addresses
BY AdminAssumption

(* Selection, form and buttons after a selection: adding is mpAddItem.     *)
LEMMA Selected ==
  ASSUME NEW map, NEW tree, NEW others, NEW p,
         p # Nil => p \in DOMAIN others,
         ShapeOK(others, map), Grown(others, tree),
         treeSelectionChanged(tree, p, mpAddItem'), items' = others, DOMAIN others \subseteq Addresses,
         mpAddItem' # Nil => mpAddItem' = p /\ p[1] = "new" /\ others[p].type = "event",
         treeEnabled' = (mpAddItem' = Nil),
         crashed' \in BOOLEAN
  PROVE  FormInv'
<1>1. /\ current' = p
      /\ mpEvent' = IF p # Nil /\ tree[p].type = "event" THEN FormOf(tree, p) ELSE Nil
      /\ buttonsEnabled' = (p # Nil /\ p # mpAddItem' /\ tree[p].type # "organization")
  BY DEF treeSelectionChanged
<1>2. p # Nil => /\ tree[p].type = others[p].type
                 /\ others[p].type = "event" =>
                      FormOf(tree, p) = FormOf(others, p) /\ FormOf(others, p) \in Forms
  BY GrownForm
<1>3. mpEvent' = (IF p # Nil /\ others[p].type = "event" THEN FormOf(others, p) ELSE Nil)
  BY <1>1, <1>2
<1>4. /\ buttonsEnabled' \in BOOLEAN /\ treeEnabled' \in BOOLEAN /\ mpEvent' \in Forms \cup {Nil}
      /\ {current', mpAddItem'} \subseteq DOMAIN items' \cup {Nil}
  BY <1>1, <1>2, <1>3
<1>5. FormEditsCurrent'
  BY <1>1, <1>3 DEF FormEditsCurrent, FormOf
<1>6. /\ mpAddItem' # Nil => current' = mpAddItem' /\ ~buttonsEnabled' /\ mpEvent' # Nil
      /\ buttonsEnabled' => current' # Nil /\ others[p].type # "organization"
  BY <1>1, <1>2, <1>3, NilIsNoForm
<1>7. AddingIsExclusive'
  BY <1>1, <1>6 DEF AddingIsExclusive
<1> QED
  BY <1>4, <1>5, <1>7 DEF FormInv, FormFollowsTree

LEMMA InitLook == Init => TreeInv /\ FormInv
<1> SUFFICES ASSUME Init
             PROVE  TreeInv /\ FormInv
  OBVIOUS
<1>1. items = EmptyMap /\ DOMAIN items = {} /\ current = Nil /\ mpAddItem = Nil
      /\ treeEnabled /\ ~buttonsEnabled /\ mpEvent = Nil /\ ~crashed
      /\ treeEnabled \in BOOLEAN /\ buttonsEnabled \in BOOLEAN /\ crashed \in BOOLEAN
  BY NoRows DEF Init
<1>2. ShapeOK(items, mTreeItems)
  <2>1. items \in [DOMAIN items -> AnyItem]
    BY <1>1 DEF EmptyMap
  <2> QED
    BY <1>1, <2>1 DEF ShapeOK, ItemsOK
<1>3. PlacedOK(items, listed)
  BY <1>1 DEF PlacedOK
<1>4. FormFollowsTree
  BY <1>1 DEF FormFollowsTree, FormEditsCurrent, AddingIsExclusive
<1> QED
  BY <1>1, <1>2, <1>3, <1>4 DEF TreeInv, FormInv

LEMMA DeliverLook ==
  ASSUME ListInv, MapInv, TreeInv, FormInv, NEW t \in Types, DeliverList(t)
  PROVE  TreeInv' /\ FormInv'
<1> DEFINE first == First(listed', Tree)
           second == Second(listed', Tree)
           third == Rebuilt(listed')
<1>1. /\ ListsOK(listed) /\ ListsOK(listed') /\ Longer(listed, listed')
      /\ ThreePasses(listed', Tree, first, second, third)
      /\ mTreeItems' = third.map /\ items' = third.items /\ crashed' = ~third.ok
      /\ Tree.map = mTreeItems /\ Tree.items = items
  BY DeliverListEffect DEF ListInv
<1>2. ~crashed /\ UNCHANGED <<current, mpAddItem, treeEnabled, buttonsEnabled, mpEvent>>
  BY DEF DeliverList
<1>3. ShapeOK(items, mTreeItems) /\ PlacedOK(items, listed)
  BY <1>2 DEF TreeInv
<1> HIDE DEF first, second, third
<1>4. DOMAIN items \subseteq DOMAIN items' /\ DOMAIN items' \subseteq Addresses
  BY <1>1, ThreePassesItems DEF FormInv
<1>5. crashed' \in BOOLEAN
  BY <1>1
<1>6. CASE crashed'
  <2>1. FormFollowsTree'
    BY <1>6 DEF FormFollowsTree, FormEditsCurrent, AddingIsExclusive
  <2> QED
    BY <1>2, <1>4, <1>5, <1>6, <2>1 DEF TreeInv, FormInv
<1>7. CASE ~crashed'
  <2>1. third.ok
    BY <1>1, <1>7
  <2>2. ShapeOK(items', mTreeItems') /\ Grown(items, items')
    BY <1>1, <1>3, <2>1, ThreePassesShape
  <2>3. PlacedOK(items, listed')
    BY <1>1, <1>3, LongerPlaced DEF MapInv
  <2>4. PlacedOK(items', listed')
    BY <1>1, <1>3, <2>1, <2>3, ThreePassesPlaced
  <2>5. FormFollowsTree'
    <3>1. current # Nil => /\ current \in DOMAIN items /\ items'[current].type = items[current].type
                           /\ items[current].type = "event" =>
                                FormOf(items', current) = FormOf(items, current)
      BY <1>3, <2>2, GrownForm DEF FormInv
    <3>2. mpEvent = IF current # Nil /\ items[current].type = "event"
                    THEN FormOf(items, current) ELSE Nil
      BY <1>2 DEF FormInv, FormFollowsTree, FormEditsCurrent
    <3>3. mpEvent = IF current # Nil /\ items'[current].type = "event"
                    THEN FormOf(items', current) ELSE Nil
      BY <3>1, <3>2
    <3>4. FormEditsCurrent'
      BY <1>2, <3>3 DEF FormEditsCurrent, FormOf
    <3>5. AddingIsExclusive'
      BY <1>2, <3>1 DEF AddingIsExclusive, FormInv, FormFollowsTree
    <3> QED
      BY <3>4, <3>5 DEF FormFollowsTree
  <2> QED
    BY <1>2, <1>4, <1>5, <2>2, <2>4, <2>5 DEF TreeInv, FormInv
<1> QED
  BY <1>6, <1>7

(* The item that is selected instead of a deleted one is not below it.     *)
LEMMA SuccessorStays ==
  ASSUME NEW map, ShapeOK(items, map), NEW p \in DOMAIN items, items[p].type # "organization",
         NEW next \in Successors(p)
  PROVE  next \in DOMAIN items \ Below(p)
<1>1. \A q \in DOMAIN items : /\ InPlace(items, q) /\ q # Nil
                              /\ items[q].type \in Types
  BY ItemParts, NilIsNoForm DEF ShapeOK, ItemsOK
<1> DEFINE a == items[p].parent
<1>2. /\ a \in DOMAIN items /\ a # p
      /\ items[a].type = "organization" => items[p].type = "season"
      /\ items[a].type = "season" => items[p].type = "event"
      /\ items[a].type \in {"organization", "season"}
  BY <1>1, ParentTypes DEF InPlace
<1>3. items[a].parent # p
  BY <1>1, <1>2 DEF InPlace
<1>4. CASE next = a
  <2>1. items[a].parent # Nil => items[items[a].parent].parent = Nil
    BY <1>1, <1>2 DEF InPlace
  <2> QED
    BY <1>1, <1>2, <1>3, <1>4, <2>1 DEF Below
<1>5. CASE next \in DOMAIN items /\ items[next].parent = a /\ next # p
  BY <1>1, <1>2, <1>3, <1>5 DEF Below
<1> QED
  BY <1>4, <1>5 DEF Successors

LEMMA SelectLook ==
  ASSUME TreeInv, FormInv, NEW p \in DOMAIN items \cup {Nil}, Select(p)
  PROVE  TreeInv' /\ FormInv'
<1>1. ~crashed /\ treeEnabled /\ mpAddItem = Nil
  BY DEF Select, FormInv, FormFollowsTree, AddingIsExclusive
<1>2. UNCHANGED <<listed, mTreeItems, items, mpAddItem, treeEnabled, crashed>>
      /\ treeSelectionChanged(items, p, mpAddItem')
  BY DEF Select
<1>3. ShapeOK(items, mTreeItems) /\ DOMAIN items \subseteq Addresses
  BY <1>1 DEF TreeInv, FormInv
<1>4. FormInv'
  BY <1>1, <1>2, <1>3, GrownSelf, Selected DEF FormInv
<1> QED
  BY <1>2, <1>4 DEF TreeInv

LEMMA AddLook ==
  ASSUME TreeInv, FormInv, addClicked
  PROVE  TreeInv' /\ FormInv'
<1>1. /\ ~crashed /\ current \in DOMAIN items /\ items[current].type # "organization"
      /\ UNCHANGED <<listed, mTreeItems, crashed>> /\ treeEnabled' = FALSE
      /\ ShapeOK(items, mTreeItems) /\ PlacedOK(items, listed)
  BY DEF addClicked, FormInv, TreeInv
<1> DEFINE season == IF items[current].type = "season" THEN current ELSE items[current].parent
<1>2. PICK k \in 1..MaxAdds :
        /\ <<"new", k>> \notin DOMAIN items
        /\ items' = Put(items, <<"new", k>>, [id |-> 0, type |-> "event", parent |-> season,
                                              name |-> NewEvent])
        /\ mpAddItem' = <<"new", k>>
        /\ treeSelectionChanged(items', <<"new", k>>, <<"new", k>>)
  BY DEF addClicked
<1>3. season \in DOMAIN items /\ items[season].type = "season"
  BY <1>1, ParentTypes, ItemParts DEF ShapeOK, ItemsOK, InPlace
<1> HIDE DEF season
<1>4. /\ ShapeOK(items', mTreeItems) /\ PlacedOK(items', listed)
      /\ DOMAIN items' = DOMAIN items \cup {<<"new", k>>} /\ items'[<<"new", k>>].type = "event"
  BY <1>1, <1>2, <1>3, AddedItem
<1>5. <<"new", k>> # Nil /\ <<"new", k>>[1] = "new" /\ DOMAIN items' \subseteq Addresses
  BY <1>4, NilIsNoForm, AddressParts, PairParts DEF ShapeOK, ItemsOK
<1>6. FormInv'
  BY <1>1, <1>2, <1>4, <1>5, GrownSelf, Selected DEF FormInv
<1> QED
  BY <1>1, <1>4, <1>6 DEF TreeInv

LEMMA DeleteLook ==
  ASSUME TreeInv, FormInv, deleteClicked
  PROVE  TreeInv' /\ FormInv'
<1>1. /\ ~crashed /\ buttonsEnabled /\ current \in DOMAIN items
      /\ items[current].type # "organization" /\ mpAddItem = Nil
      /\ UNCHANGED <<listed, mTreeItems, crashed, mpAddItem, treeEnabled>>
      /\ items' = Without(current)
      /\ ShapeOK(items, mTreeItems) /\ PlacedOK(items, listed)
  BY DEF deleteClicked, FormInv, TreeInv, FormFollowsTree, AddingIsExclusive
<1>2. PICK next \in Successors(current) : treeSelectionChanged(items, next, mpAddItem)
  BY DEF deleteClicked
<1>3. /\ ShapeOK(Without(current), mTreeItems) /\ Grown(Without(current), items)
      /\ DOMAIN Without(current) = DOMAIN items \ Below(current)
      /\ \A q \in DOMAIN Without(current) : Without(current)[q] = items[q]
  BY <1>1, WithoutShape
<1>4. next \in DOMAIN Without(current)
  BY <1>1, <1>3, SuccessorStays
<1>5. PlacedOK(items', listed')
  BY <1>1, <1>3, WithoutPlaced
<1>6. treeSelectionChanged(items, next, mpAddItem') /\ treeEnabled' = (mpAddItem' = Nil)
      /\ crashed' \in BOOLEAN
  BY <1>1, <1>2 DEF FormInv, FormFollowsTree, AddingIsExclusive
<1>7. DOMAIN Without(current) \subseteq Addresses
  BY <1>3 DEF ShapeOK, ItemsOK
<1>8. FormInv'
  BY <1>1, <1>3, <1>4, <1>6, <1>7, Selected
<1> QED
  BY <1>1, <1>3, <1>5, <1>8 DEF TreeInv

(* Saving changes the name of the current item, an event's, and no more:   *)
(* the ID the item of a new event is left with is the one it had.          *)
LEMMA SavedItem ==
  ASSUME TreeInv, FormInv, NEW name, eventSaved(name)
  PROVE  /\ ~crashed /\ current \in DOMAIN items /\ items[current].type = "event"
         /\ items' = Renamed(items, current, name)
         /\ ShapeOK(items, mTreeItems) /\ PlacedOK(items, listed)
<1>1. ~crashed /\ mpEvent # Nil /\ current \in DOMAIN items
      /\ ShapeOK(items, mTreeItems) /\ PlacedOK(items, listed)
  BY DEF eventSaved, TreeInv, FormInv
<1>2. items[current].type = "event"
  BY <1>1 DEF FormInv, FormFollowsTree, FormEditsCurrent
<1>3. CASE mpAddItem = Nil
  BY <1>1, <1>2, <1>3 DEF eventSaved, Renamed
<1>4. CASE mpAddItem # Nil
  <2>1. current[1] = "new"
    BY <1>1, <1>4 DEF FormInv, FormFollowsTree, AddingIsExclusive
  <2>2. items[current].id = 0 /\ items[current] \in AnyItem
    BY <1>1, <2>1 DEF ShapeOK, ItemsOK, AtAddress
  <2>3. items' = [items EXCEPT ![current].name = name, ![current].id = 0]
    BY <1>4 DEF eventSaved, SavedId
  <2>4. \A item \in AnyItem :
          item.id = 0 => [[item EXCEPT !.name = name] EXCEPT !.id = 0] = [item EXCEPT !.name = name]
    BY DEF AnyItem
  <2>5. items' = [items EXCEPT ![current] = [[@ EXCEPT !.name = name] EXCEPT !.id = 0]]
    BY <2>3, <1>1 DEF ShapeOK, ItemsOK
  <2>6. items' = Renamed(items, current, name)
    BY <2>2, <2>4, <2>5 DEF Renamed
  <2> QED
    BY <1>1, <1>2, <2>6
<1> QED
  BY <1>3, <1>4

LEMMA SaveLook ==
  ASSUME TreeInv, FormInv, NEW name \in Names, eventSaved(name)
  PROVE  TreeInv' /\ FormInv'
<1>1. /\ ~crashed /\ current \in DOMAIN items /\ items[current].type = "event"
      /\ items' = Renamed(items, current, name)
      /\ ShapeOK(items, mTreeItems) /\ PlacedOK(items, listed)
  BY SavedItem
<1>2. /\ ShapeOK(items', mTreeItems) /\ PlacedOK(items', listed) /\ Grown(items, items')
      /\ DOMAIN items' = DOMAIN items
  <2>1. name \in Names \cup {NewEvent}
    OBVIOUS
  <2> QED
    BY <1>1, <2>1, NameChange
<1>3. /\ mpAddItem' = Nil /\ treeEnabled' = TRUE /\ buttonsEnabled' = TRUE
      /\ UNCHANGED <<listed, mTreeItems, current, mpEvent, crashed>>
  BY DEF eventSaved
<1>4. items'[current].type = "event" /\ FormOf(items', current) = FormOf(items, current)
  <2>1. ShapeOK(items, mTreeItems) /\ Grown(items, items') /\ current \in DOMAIN items
    BY <1>1, <1>2
  <2>2. items[current].type = "event"
    BY <1>1
  <2> QED
    BY <2>1, <2>2, GrownForm
<1>5. mpEvent = FormOf(items, current) /\ current # Nil
  BY <1>1, NilIsNoForm DEF FormInv, FormFollowsTree, FormEditsCurrent
<1>6. FormEditsCurrent'
  BY <1>3, <1>4, <1>5 DEF FormEditsCurrent, FormOf
<1>7. AddingIsExclusive'
  BY <1>3, <1>4, <1>5 DEF AddingIsExclusive
<1> QED
  BY <1>1, <1>2, <1>3, <1>6, <1>7 DEF TreeInv, FormInv, FormFollowsTree

LEMMA CancelLook ==
  ASSUME TreeInv, FormInv, eventCancelled
  PROVE  TreeInv' /\ FormInv'
<1>1. /\ ~crashed /\ UNCHANGED <<listed, mTreeItems, crashed>>
      /\ treeEnabled' = TRUE /\ mpAddItem' = Nil /\ treeSelectionChanged(items', Nil, mpAddItem')
      /\ items' = IF mpAddItem # Nil THEN Without(mpAddItem) ELSE items
      /\ ShapeOK(items, mTreeItems) /\ PlacedOK(items, listed)
  BY DEF eventCancelled, TreeInv
<1>2. ShapeOK(items', mTreeItems) /\ PlacedOK(items', listed)
  <2>1. CASE mpAddItem = Nil
    BY <1>1, <2>1
  <2>2. CASE mpAddItem # Nil
    <3>1. mpAddItem \in DOMAIN items /\ items[mpAddItem].type = "event"
      BY <1>1, <2>2 DEF FormInv, ShapeOK, AtAddress
    <3>2. /\ ShapeOK(Without(mpAddItem), mTreeItems)
          /\ DOMAIN Without(mpAddItem) \subseteq DOMAIN items
          /\ \A q \in DOMAIN Without(mpAddItem) : Without(mpAddItem)[q] = items[q]
      BY <1>1, <3>1, WithoutShape
    <3> QED
      BY <1>1, <2>2, <3>2, WithoutPlaced
  <2> QED
    BY <2>1, <2>2
<1>3. DOMAIN items' \subseteq Addresses /\ crashed' \in BOOLEAN
  BY <1>1, <1>2 DEF ShapeOK, ItemsOK, FormInv
<1>4. FormInv'
  BY <1>1, <1>2, <1>3, GrownSelf, Selected
<1> QED
  BY <1>1, <1>2, <1>4 DEF TreeInv

LEMMA StepLook == ListInv /\ MapInv /\ TreeInv /\ FormInv /\ [Next]_vars => TreeInv' /\ FormInv'
<1> SUFFICES ASSUME ListInv, MapInv, TreeInv, FormInv, [Next]_vars
             PROVE  TreeInv' /\ FormInv'
  OBVIOUS
<1>1. CASE UNCHANGED <<listed, mTreeItems, ui, crashed>>
  BY <1>1 DEF ui, TreeInv, FormInv, FormFollowsTree, FormEditsCurrent, AddingIsExclusive, FormOf
<1>2. CASE ChangeElsewhere \/ UNCHANGED vars
  BY <1>1, <1>2 DEF ChangeElsewhere, vars
<1>3. ASSUME NEW t \in Types, ReadList(t) \/ DeliverList(t)
      PROVE  TreeInv' /\ FormInv'
  BY <1>1, <1>3, DeliverLook DEF ReadList
<1> QED
  BY <1>2, <1>3, SelectLook, AddLook, DeleteLook, SaveLook, CancelLook DEF Next

-----------------------------------------------------------------------------
(* What the user removed.                                                  *)

(* A row that the maps know and the user did not delete has its item.      *)
LEMMA NothingRemoved ==
  ASSUME ListInv, MapInv, RemovedInv, ~crashed, NEW t \in Types, DOMAIN listed[t] = {},
         \A id \in 1..MaxId : <<"season", id>> \notin removed
  PROVE  \A u \in Types : AllThere(u, Tree)
<1>1. DOMAIN mTreeItems["event"] = {}
  BY NoEventBefore
<1>2. Tree.map = mTreeItems /\ Tree.items = items
  BY DEF Tree
<1>3. \A u \in Types : DOMAIN mTreeItems[u] \subseteq 1..MaxId
  BY MapsOfOK DEF MapInv, ListInv, MapsOK
<1> SUFFICES ASSUME NEW u \in Types, NEW id \in DOMAIN mTreeItems[u]
             PROVE  <<u, id>> \in DOMAIN items
  BY <1>2 DEF AllThere
<1>4. id \in 1..MaxId /\ (u = "organization" \/ u = "season")
  BY <1>1, <1>3, ParentTypes
<1>5. <<u, id>> \notin removed
  BY <1>4 DEF RemovedInv
<1> QED
  BY <1>4, <1>5 DEF RemovedInv

LEMMA DeliverRemoved ==
  ASSUME ListInv, MapInv, TreeInv, RemovedInv, NEW t \in Types, DeliverList(t)
  PROVE  RemovedInv'
<1> DEFINE first == First(listed', Tree)
           second == Second(listed', Tree)
           third == Rebuilt(listed')
<1>1. /\ ListsOK(listed') /\ Longer(listed, listed') /\ DOMAIN listed[t] = {}
      /\ ThreePasses(listed', Tree, first, second, third)
      /\ mTreeItems' = third.map /\ items' = third.items /\ crashed' = ~third.ok
      /\ Tree.map = mTreeItems /\ Tree.items = items /\ Tree.ok
      /\ ~crashed /\ UNCHANGED removed
  BY DeliverListEffect DEF DeliverList
<1>2. ShapeOK(items, mTreeItems)
  BY <1>1 DEF TreeInv
<1> HIDE DEF first, second, third
<1>3. CASE crashed'
  <2>1. ~\A u \in Types : AllThere(u, Tree)
    BY <1>1, <1>3, ThreePassesKeepAll
  <2> QED
    BY <1>1, <1>3, <2>1, NothingRemoved DEF RemovedInv
<1>4. CASE ~crashed'
  <2>1. ShapeOK(items', mTreeItems') /\ Grown(items, items')
    BY <1>1, <1>2, <1>4, ThreePassesShape
  <2>2. ASSUME NEW u \in Types, NEW id \in 1..MaxId, id \in DOMAIN mTreeItems[u]
        PROVE  id \in DOMAIN mTreeItems'[u]
    BY <1>1, <2>2 DEF ThreePasses, Pass, PassMaps
  <2>3. ASSUME NEW u \in Types, NEW id \in 1..MaxId, <<u, id>> \in removed
        PROVE  id \in DOMAIN mTreeItems'[u] /\ <<u, id>> \notin DOMAIN items'
    <3>1. id \in DOMAIN mTreeItems[u] /\ <<u, id>> \notin DOMAIN items
      BY <1>1, <2>3 DEF RemovedInv
    <3>2. ASSUME NEW v \in Types, NEW old, NEW new, Pass(v, listed'[v], old, new),
                 id \in DOMAIN old.map[u], <<u, id>> \notin DOMAIN old.items
          PROVE  id \in DOMAIN new.map[u] /\ <<u, id>> \notin DOMAIN new.items
      <4>1. id \in DOMAIN new.map[u]
        BY <3>2 DEF Pass, PassMaps
      <4>2. \A i \in Fresh(v, listed'[v], old.map) : <<u, id>> # <<v, i>>
        BY <3>2, PairParts DEF Fresh
      <4> QED
        BY <3>2, <4>1, <4>2 DEF Pass, PassItems
    <3>3. "organization" \in Types /\ "season" \in Types /\ "event" \in Types
      BY DEF Types
    <3>4. id \in DOMAIN first.map[u] /\ <<u, id>> \notin DOMAIN first.items
      BY <1>1, <3>1, <3>2, <3>3 DEF ThreePasses
    <3>5. id \in DOMAIN second.map[u] /\ <<u, id>> \notin DOMAIN second.items
      BY <1>1, <3>4, <3>2, <3>3 DEF ThreePasses
    <3>6. id \in DOMAIN third.map[u] /\ <<u, id>> \notin DOMAIN third.items
      BY <1>1, <3>5, <3>2, <3>3 DEF ThreePasses
    <3> QED
      BY <1>1, <3>6
  <2>4. ASSUME NEW u \in Types, NEW id \in 1..MaxId, id \in DOMAIN mTreeItems'[u],
               <<u, id>> \notin removed
        PROVE  <<u, id>> \in DOMAIN items'
    <3>1. \/ id \in DOMAIN mTreeItems[u]
          \/ id \in Fresh("organization", listed'["organization"], Tree.map) /\ u = "organization"
          \/ id \in Fresh("season", listed'["season"], first.map) /\ u = "season"
          \/ id \in Fresh("event", listed'["event"], second.map) /\ u = "event"
      BY <1>1, <2>4 DEF ThreePasses, Pass, PassMaps
    <3>2. id \in DOMAIN mTreeItems[u] => <<u, id>> \in DOMAIN items
      BY <1>1, <2>4 DEF RemovedInv
    <3>3. \/ <<u, id>> \in DOMAIN items \/ <<u, id>> \in DOMAIN first.items
          \/ <<u, id>> \in DOMAIN second.items \/ <<u, id>> \in DOMAIN third.items
      BY <1>1, <3>1, <3>2 DEF ThreePasses, Pass, PassItems
    <3> QED
      BY <1>1, <3>3 DEF ThreePasses, Pass, PassItems
  <2> QED
    BY <1>1, <1>4, <2>3, <2>4 DEF RemovedInv
<1> QED
  BY <1>3, <1>4

LEMMA DeleteRemoved ==
  ASSUME TreeInv, FormInv, MapInv, ListInv, RemovedInv, deleteClicked
  PROVE  RemovedInv'
<1>1. /\ ~crashed /\ current \in DOMAIN items /\ items[current].type # "organization"
      /\ UNCHANGED <<mTreeItems, crashed>> /\ items' = Without(current)
      /\ removed' = removed \cup {<<items[p].type, items[p].id>> : p \in Below(current)}
      /\ ShapeOK(items, mTreeItems)
  <2>1. removed' = removed \cup {<<items[p].type, items[p].id>> : p \in Below(current)}
    BY Zenon DEF deleteClicked
  <2>2. /\ ~crashed /\ current \in DOMAIN items /\ items[current].type # "organization"
        /\ UNCHANGED <<mTreeItems, crashed>> /\ items' = Without(current)
    <3>1. ~crashed /\ current # Nil /\ items[current].type # "organization"
      BY DEF deleteClicked, FormInv, FormFollowsTree, AddingIsExclusive
    <3>2. UNCHANGED <<mTreeItems, crashed>> /\ items' = Without(current)
      BY DEF deleteClicked
    <3> QED
      BY <3>1, <3>2 DEF FormInv
  <2>3. ShapeOK(items, mTreeItems)
    BY <2>2 DEF TreeInv
  <2> QED
    BY <2>1, <2>2, <2>3
<1>2. DOMAIN items' = DOMAIN items \ Below(current)
  BY <1>1, WithoutShape
<1>3. ASSUME NEW p \in Below(current)
      PROVE  /\ p \in DOMAIN items /\ items[p].type # "organization"
             /\ IF p[1] = "new" THEN items[p].id = 0
                ELSE p = <<items[p].type, items[p].id>> /\ p[2] \in DOMAIN mTreeItems[p[1]]
  <2>1. p \in DOMAIN items /\ p \in Addresses /\ InPlace(items, p)
        /\ AtAddress(items, mTreeItems, p)
    BY <1>1 DEF Below, ShapeOK, ItemsOK
  <2>2. items[p].type # "organization"
    <3>1. items[p].type = "organization" => items[p].parent = Nil
      BY <2>1 DEF InPlace
    <3>2. current # Nil
      BY <1>1, NilIsNoForm DEF ShapeOK, ItemsOK
    <3> QED
      BY <1>1, <3>1, <3>2 DEF Below
  <2>3. p = <<p[1], p[2]>>
    BY <2>1, AddressParts
  <2> QED
    BY <2>1, <2>2, <2>3 DEF AtAddress
<1>4. ASSUME NEW t \in Types, NEW id \in 1..MaxId
      PROVE  <<t, id>> \in removed' <=> <<t, id>> \in removed \/ <<t, id>> \in Below(current)
  <2>1. ASSUME NEW p \in Below(current), <<t, id>> = <<items[p].type, items[p].id>>
        PROVE  <<t, id>> \in Below(current)
    <3>1. items[p].id = id /\ id # 0
      BY <2>1, PairParts
    <3> QED
      BY <2>1, <3>1, <1>3
  <2>2. ASSUME <<t, id>> \in Below(current)
        PROVE  <<t, id>> \in removed'
    <3>1. <<t, id>>[1] # "new"
      BY PairParts, AddressParts
    <3>2. <<t, id>> = <<items[<<t, id>>].type, items[<<t, id>>].id>>
      BY <2>2, <3>1, <1>3
    <3> QED
      BY <1>1, <2>2, <3>2
  <2> QED
    BY <1>1, <2>1, <2>2
<1>5. \A t \in Types, id \in 1..MaxId :
        <<t, id>> \in Below(current) =>
          t # "organization" /\ id \in DOMAIN mTreeItems[t] /\ <<t, id>> \in DOMAIN items
  <2> SUFFICES ASSUME NEW t \in Types, NEW id \in 1..MaxId, <<t, id>> \in Below(current)
               PROVE  t # "organization" /\ id \in DOMAIN mTreeItems[t] /\ <<t, id>> \in DOMAIN items
    OBVIOUS
  <2>1. <<t, id>>[1] = t /\ <<t, id>>[2] = id /\ t # "new"
    BY PairParts, AddressParts
  <2>2. <<t, id>> \in DOMAIN items /\ id \in DOMAIN mTreeItems[t]
    BY <2>1, <1>3
  <2>3. items[<<t, id>>].type = t
    BY <1>1, <2>1, <2>2 DEF ShapeOK, AtAddress
  <2> QED
    BY <2>2, <2>3, <1>3
<1>6. "organization" \in Types
  BY DEF Types
<1> QED
  BY <1>1, <1>2, <1>4, <1>5, <1>6 DEF RemovedInv

(* Nothing is below an event.                                              *)
LEMMA BelowEvent ==
  ASSUME NEW map, ShapeOK(items, map), NEW p \in DOMAIN items, items[p].type = "event"
  PROVE  Below(p) = {p}
<1>1. \A q \in DOMAIN items : items[q].parent # Nil =>
        /\ items[q].parent \in DOMAIN items /\ items[items[q].parent].type # "event"
  <2> SUFFICES ASSUME NEW q \in DOMAIN items, items[q].parent # Nil
               PROVE  items[q].parent \in DOMAIN items /\ items[items[q].parent].type # "event"
    OBVIOUS
  <2>1. InPlace(items, q) /\ items[q].type \in Types
    BY ItemParts DEF ShapeOK, ItemsOK
  <2> QED
    BY <2>1, ParentTypes DEF InPlace
<1>2. p # Nil
  BY NilIsNoForm DEF ShapeOK, ItemsOK
<1>3. \A q \in DOMAIN items : items[q].parent # p
  BY <1>1, <1>2
<1>4. \A q \in DOMAIN items : items[q].parent # Nil => items[items[q].parent].parent # p
  BY <1>1, <1>3
<1> QED
  BY <1>3, <1>4 DEF Below

LEMMA InitRemoved == Init => RemovedInv
BY NoRows DEF Init, RemovedInv

LEMMA StepRemoved ==
  ListInv /\ MapInv /\ TreeInv /\ FormInv /\ RemovedInv /\ [Next]_vars => RemovedInv'
<1> SUFFICES ASSUME ListInv, MapInv, TreeInv, FormInv, RemovedInv, [Next]_vars
             PROVE  RemovedInv'
  OBVIOUS
<1>1. ASSUME UNCHANGED <<mTreeItems, removed, crashed>>,
             ~crashed => \A t \in Types, id \in 1..MaxId :
                           <<t, id>> \in DOMAIN items' <=> <<t, id>> \in DOMAIN items
      PROVE  RemovedInv'
  BY <1>1 DEF RemovedInv
<1>2. CASE ChangeElsewhere \/ UNCHANGED vars
  BY <1>1, <1>2 DEF ChangeElsewhere, vars, ui
<1>3. ASSUME NEW t \in Types, ReadList(t)
      PROVE  RemovedInv'
  BY <1>1, <1>3 DEF ReadList, ui
<1>4. ASSUME NEW p, Select(p)
      PROVE  RemovedInv'
  BY <1>1, <1>4 DEF Select
<1>5. CASE addClicked
  <2>1. PICK k \in 1..MaxAdds : DOMAIN items' = DOMAIN items \cup {<<"new", k>>}
    BY <1>5 DEF addClicked, Put
  <2>2. \A t \in Types, id \in 1..MaxId : <<t, id>> # <<"new", k>>
    BY PairParts, AddressParts
  <2> QED
    BY <1>1, <1>5, <2>1, <2>2 DEF addClicked
<1>6. ASSUME NEW name \in Names, eventSaved(name)
      PROVE  RemovedInv'
  <2>1. DOMAIN items' = DOMAIN items
    BY <1>6, SavedItem DEF Renamed
  <2> QED
    BY <1>1, <1>6, <2>1 DEF eventSaved
<1>7. CASE eventCancelled
  <2>1. CASE mpAddItem = Nil
    BY <1>1, <1>7, <2>1 DEF eventCancelled
  <2>2. CASE mpAddItem # Nil
    <3>1. /\ ~crashed /\ ShapeOK(items, mTreeItems) /\ mpAddItem \in DOMAIN items
          /\ mpAddItem[1] = "new" /\ items[mpAddItem].type = "event"
      BY <1>7, <2>2 DEF eventCancelled, FormInv, TreeInv, ShapeOK, AtAddress
    <3>2. Below(mpAddItem) = {mpAddItem}
      BY <3>1, BelowEvent
    <3>3. DOMAIN items' = DOMAIN items \ {mpAddItem}
      BY <1>7, <2>2, <3>2 DEF eventCancelled, Without, Restrict
    <3>4. \A t \in Types, id \in 1..MaxId : <<t, id>> # mpAddItem
      BY <3>1, PairParts, AddressParts
    <3> QED
      BY <1>1, <1>7, <3>3, <3>4 DEF eventCancelled
  <2> QED
    BY <2>1, <2>2
<1> QED
  BY <1>2, <1>3, <1>4, <1>5, <1>6, <1>7, DeliverRemoved, DeleteRemoved DEF Next

-----------------------------------------------------------------------------
(* What is stored.                                                         *)

LEMMA InitStored == Init => StoredInv
<1> SUFFICES ASSUME Init
             PROVE  StoredInv
  OBVIOUS
<1>1. /\ \A t \in Types : DOMAIN jobs[t].rows = {} /\ DOMAIN listed[t] = {} /\ db[t] = InitialDb[t]
      /\ lastId = InitialLastId
  BY NoRows DEF Init
<1>2. "event" \in Types \ {"organization"} /\ ParentType["event"] = "season"
  BY ParentTypes DEF Types
<1>3. \A id \in DOMAIN db["event"] : db["event"][id].parent \in DOMAIN db["season"]
  BY <1>2, AdminAssumption DEF Init
<1>4. \A t \in Types : \A id \in DOMAIN db[t] : id <= lastId
  BY <1>1, InitialId
<1> QED
  BY <1>1, <1>2, <1>3, <1>4 DEF StoredInv, UpToLast, SameParents, SameNames

(* Rows that go, and rows with new IDs, do not matter to those read.       *)
LEMMA RowsGoOrCome ==
  ASSUME ListInv, StoredInv, UNCHANGED <<jobs, listed, mTreeItems>>,
         lastId' \in Nat, lastId <= lastId',
         \A t \in Types : \A id \in DOMAIN db'[t] : id <= lastId',
         DOMAIN mTreeItems["event"] = {} => overwritten \subseteq overwritten',
         \A id \in DOMAIN db'["event"] :
           \/ id > lastId
           \/ /\ id \in DOMAIN db["event"]
              /\ db'["event"][id].parent = db["event"][id].parent
              /\ DOMAIN mTreeItems["event"] = {} =>
                   db'["event"][id].name = db["event"][id].name \/ id \in overwritten',
         \A id \in DOMAIN db'["event"] : db'["event"][id].parent \in DOMAIN db'["season"]
  PROVE  StoredInv'
<1>0. "event" \in Types /\ lastId \in Nat
  BY Bounds DEF Types, ListInv
<1>1. ASSUME NEW rows, RowsOK(rows), UpToLast(rows), SameParents(rows)
      PROVE  /\ \A id \in DOMAIN rows : id <= lastId'
             /\ \A id \in DOMAIN rows \cap DOMAIN db'["event"] :
                  rows[id].parent = db'["event"][id].parent
             /\ DOMAIN mTreeItems["event"] = {} /\ SameNames(rows) =>
                  \A id \in DOMAIN rows \cap DOMAIN db'["event"] :
                    rows[id].name = db'["event"][id].name \/ id \in overwritten'
  <2>1. \A id \in DOMAIN rows : id \in Nat /\ id <= lastId
    BY <1>1 DEF UpToLast, RowsOK
  <2>2. \A id \in DOMAIN rows : id <= lastId' /\ ~(id > lastId)
    BY <1>0, <2>1
  <2> QED
    BY <1>1, <2>2 DEF SameParents, SameNames
<1>2. ASSUME NEW t \in Types, NEW rows, RowsOK(rows), UpToLast(rows)
      PROVE  \A id \in DOMAIN rows : id <= lastId'
  BY <1>0, <1>2 DEF UpToLast, RowsOK
<1>3. \A t \in Types : RowsOK(jobs[t].rows) /\ RowsOK(listed[t])
  BY DEF ListInv, ListsOK
<1>4. \A t \in Types : UpToLast(db[t])' /\ UpToLast(jobs[t].rows)' /\ UpToLast(listed[t])'
  BY <1>2, <1>3 DEF StoredInv, UpToLast
<1>5. SameParents(jobs["event"].rows)' /\ SameParents(listed["event"])'
  BY <1>0, <1>1, <1>3 DEF StoredInv, SameParents
<1>6. DOMAIN mTreeItems["event"] = {} =>
        SameNames(jobs["event"].rows)' /\ SameNames(listed["event"])'
  BY <1>0, <1>1, <1>3 DEF StoredInv, SameNames
<1> QED
  BY <1>4, <1>5, <1>6 DEF StoredInv

LEMMA RowGone ==
  ASSUME ListInv, StoredInv, UNCHANGED <<jobs, listed, mTreeItems, lastId, overwritten>>,
         NEW t \in Types, NEW id, ~HasEvents(t, id),
         db' = [db EXCEPT ![t] = Restrict(@, DOMAIN @ \ {id})]
  PROVE  StoredInv'
<1>0. /\ "event" \in Types /\ "season" \in Types /\ lastId' \in Nat /\ lastId <= lastId'
      /\ db = [u \in Types |-> db[u]]
  BY Bounds DEF Types, ListInv, ListsOK
<1>1. \A u \in Types : /\ DOMAIN db'[u] \subseteq DOMAIN db[u]
                       /\ \A i \in DOMAIN db'[u] : db'[u][i] = db[u][i]
                       /\ u # t => db'[u] = db[u]
                       /\ u = t => DOMAIN db'[u] = DOMAIN db[u] \ {id}
  BY <1>0 DEF Restrict
<1>2. \A i \in DOMAIN db'["event"] : db'["event"][i].parent \in DOMAIN db'["season"]
  <2> SUFFICES ASSUME NEW i \in DOMAIN db'["event"]
               PROVE  db'["event"][i].parent \in DOMAIN db'["season"]
    OBVIOUS
  <2>1. /\ i \in DOMAIN db["event"] /\ db'["event"][i] = db["event"][i]
        /\ db["event"][i].parent \in DOMAIN db["season"]
    BY <1>0, <1>1 DEF StoredInv
  <2>2. t = "season" => db["event"][i].parent # id
    BY <2>1 DEF HasEvents
  <2> QED
    BY <1>0, <1>1, <2>1, <2>2
<1>3. \A u \in Types : \A i \in DOMAIN db'[u] : i <= lastId'
  BY <1>1 DEF StoredInv, UpToLast
<1>4. \A i \in DOMAIN db'["event"] : i \in DOMAIN db["event"] /\ db'["event"][i] = db["event"][i]
  BY <1>0, <1>1
<1>5. \A i \in DOMAIN db'["event"] :
        /\ db'["event"][i].parent = db["event"][i].parent
        /\ DOMAIN mTreeItems["event"] = {} =>
             db'["event"][i].name = db["event"][i].name \/ i \in overwritten'
  BY <1>4
<1> QED
  BY <1>0, <1>2, <1>3, <1>4, <1>5, RowsGoOrCome

LEMMA RowComes ==
  ASSUME ListInv, StoredInv, UNCHANGED <<jobs, listed, mTreeItems, overwritten>>,
         NEW t \in {"season", "event"}, NEW parent \in DOMAIN db[ParentType[t]], NEW name \in Names,
         lastId < MaxId, lastId' = lastId + 1,
         db' = [db EXCEPT ![t] = Put(@, lastId', [parent |-> parent, name |-> name])]
  PROVE  StoredInv'
<1>0. /\ "event" \in Types /\ "season" \in Types /\ t \in Types
      /\ lastId \in Nat /\ lastId' \in Nat /\ lastId < lastId' /\ lastId <= lastId'
      /\ db = [u \in Types |-> db[u]] /\ \A u \in Types : DOMAIN db[u] \subseteq Nat
  BY Bounds DEF Types, ListInv, ListsOK, RowsOK
<1>1. \A u \in Types \ {t} : db'[u] = db[u]
  BY <1>0
<1>2. /\ DOMAIN db'[t] = DOMAIN db[t] \cup {lastId'}
      /\ db'[t][lastId'] = [parent |-> parent, name |-> name]
      /\ \A i \in DOMAIN db[t] : i # lastId' => db'[t][i] = db[t][i]
  BY <1>0 DEF Put
<1>3. \A u \in Types : \A i \in DOMAIN db[u] : i <= lastId /\ i # lastId' /\ i <= lastId'
  BY <1>0 DEF StoredInv, UpToLast
<1>4. \A u \in Types : \A i \in DOMAIN db'[u] : i <= lastId'
  BY <1>0, <1>1, <1>2, <1>3
<1>5. \A i \in DOMAIN db'["event"] :
        i > lastId \/ (i \in DOMAIN db["event"] /\ db'["event"][i] = db["event"][i])
  BY <1>0, <1>1, <1>2, <1>3
<1>6. DOMAIN db["season"] \subseteq DOMAIN db'["season"]
  BY <1>0, <1>1, <1>2
<1>7. \A i \in DOMAIN db'["event"] : db'["event"][i].parent \in DOMAIN db'["season"]
  <2>1. \A i \in DOMAIN db["event"] : db["event"][i].parent \in DOMAIN db'["season"]
    BY <1>6 DEF StoredInv
  <2>2. CASE t = "season"
    BY <1>0, <1>1, <2>1, <2>2
  <2>3. CASE t = "event"
    <3>1. parent \in DOMAIN db'["season"]
      BY <1>6, <2>3, ParentTypes
    <3> QED
      BY <1>2, <1>3, <2>1, <2>3, <3>1, <1>0
  <2> QED
    BY <2>2, <2>3
<1> QED
  BY <1>0, <1>4, <1>5, <1>7, RowsGoOrCome

LEMMA RowSavedElsewhere ==
  ASSUME ListInv, StoredInv, UNCHANGED <<jobs, listed, mTreeItems, lastId>>,
         NEW id \in DOMAIN db["event"], NEW name \in Names,
         db' = [db EXCEPT !["event"][id].name = name], overwritten' = overwritten \cup {id}
  PROVE  StoredInv'
<1>0. "event" \in Types /\ "season" \in Types /\ lastId' \in Nat /\ lastId <= lastId'
  BY Bounds DEF Types, ListInv
<1>1. /\ \A t \in Types : DOMAIN db'[t] = DOMAIN db[t]
      /\ \A i \in DOMAIN db["event"] : /\ db'["event"][i].parent = db["event"][i].parent
                                       /\ i # id => db'["event"][i] = db["event"][i]
  BY SavedElsewhere
<1>2. \A t \in Types : \A i \in DOMAIN db'[t] : i <= lastId'
  BY <1>1 DEF StoredInv, UpToLast
<1>3. \A i \in DOMAIN db'["event"] : db'["event"][i].parent \in DOMAIN db'["season"]
  BY <1>0, <1>1 DEF StoredInv
<1>4. \A i \in DOMAIN db'["event"] :
        /\ i \in DOMAIN db["event"]
        /\ db'["event"][i].parent = db["event"][i].parent
        /\ db'["event"][i].name = db["event"][i].name \/ i \in overwritten'
  BY <1>0, <1>1
<1>5. overwritten \subseteq overwritten'
  OBVIOUS
<1> QED
  BY ONLY ListInv, StoredInv, UNCHANGED <<jobs, listed, mTreeItems>>, <1>0, <1>2, <1>3, <1>4,
          <1>5, RowsGoOrCome

(* An event that is updated has an item, which is below its season's.      *)
LEMMA UpdatedEvent ==
  ASSUME ListInv, MapInv, TreeInv, FormInv, StoredInv, ~crashed,
         current \in DOMAIN items, items[current].type = "event",
         InDb("event", items[current].id)
  PROVE  /\ current = <<"event", items[current].id>>
         /\ DOMAIN mTreeItems["event"] # {}
         /\ items[items[current].parent].id = db["event"][items[current].id].parent
         /\ InDb("season", items[items[current].parent].id)
<1> DEFINE id == items[current].id
           s == items[current].parent
<1>0. "event" \in Types /\ "season" \in Types
  BY DEF Types
<1>1. ShapeOK(items, mTreeItems) /\ PlacedOK(items, listed)
  BY DEF TreeInv
<1>2. id \in 1..MaxId /\ id # 0
  BY <1>0 DEF InDb, ListInv, ListsOK, RowsOK
<1>3. /\ current[1] = "event" /\ current[2] = id /\ current \in Addresses
      /\ id \in DOMAIN mTreeItems["event"]
  BY <1>1, <1>2 DEF ShapeOK, ItemsOK, AtAddress
<1>4. current = <<"event", id>>
  BY <1>3, AddressParts
<1>5. s = <<"season", listed["event"][id].parent>>
  BY <1>1, <1>3, ParentTypes DEF PlacedOK, PlacedIn
<1>6. s[1] = "season" /\ s[2] = listed["event"][id].parent /\ s[1] # "new"
  BY <1>5, PairParts
<1>7. s \in DOMAIN items
  BY <1>1 DEF ShapeOK, InPlace
<1>8. items[s].id = listed["event"][id].parent
  BY <1>1, <1>6, <1>7 DEF ShapeOK, AtAddress
<1>9. id \in DOMAIN listed["event"]
  BY <1>0, <1>3, MapsOfOK DEF MapInv, ListInv
<1>10. listed["event"][id].parent = db["event"][id].parent /\ id \in DOMAIN db["event"]
  BY <1>9 DEF StoredInv, SameParents, InDb
<1>11. items[s].id \in DOMAIN db["season"]
  BY <1>8, <1>10 DEF StoredInv
<1> QED
  BY <1>3, <1>4, <1>8, <1>10, <1>11 DEF InDb

LEMMA SaveStored ==
  ASSUME ListInv, MapInv, TreeInv, FormInv, StoredInv, NEW name \in Names, eventSaved(name)
  PROVE  StoredInv'
<1> DEFINE item == items[current]
           season == items[item.parent].id
<1>0. "event" \in Types /\ "season" \in Types /\ ParentType["event"] = "season"
  BY ParentTypes DEF Types
<1>1. /\ ~crashed /\ current \in DOMAIN items /\ item.type = "event"
      /\ UNCHANGED <<jobs, listed, mTreeItems>>
  BY SavedItem DEF eventSaved
<1>2. CASE UNCHANGED <<db, lastId, overwritten>>
  BY <1>1, <1>2 DEF StoredInv, UpToLast, SameParents, SameNames
<1>3. CASE /\ InDb("season", season) /\ lastId < MaxId /\ lastId' = lastId + 1
           /\ UNCHANGED overwritten
           /\ db' = [db EXCEPT !["event"] = Put(@, lastId', [parent |-> season, name |-> name])]
  <2> HIDE DEF item, season
  <2>1. season \in DOMAIN db[ParentType["event"]]
    BY <1>0, <1>3 DEF InDb
  <2> QED
    BY <1>1, <1>3, <2>1, RowComes
<1>4. CASE /\ InDb("event", item.id) /\ InDb("season", season) /\ UNCHANGED lastId
           /\ db' = [db EXCEPT !["event"][item.id] = [parent |-> season, name |-> name]]
  <2>1. /\ DOMAIN mTreeItems["event"] # {}
        /\ season = db["event"][item.id].parent
    BY <1>1, <1>4, UpdatedEvent
  <2> HIDE DEF season
  <2>2. /\ DOMAIN db'["event"] = DOMAIN db["event"]
        /\ \A u \in Types \ {"event"} : db'[u] = db[u]
        /\ \A i \in DOMAIN db["event"] : i # item.id => db'["event"][i] = db["event"][i]
        /\ db'["event"][item.id].parent = season
    <3> HIDE DEF item
    <3>1. db = [u \in Types |-> db[u]] /\ item.id \in DOMAIN db["event"]
          /\ db["event"] \in [DOMAIN db["event"] -> Row]
      BY <1>0, <1>4 DEF ListInv, ListsOK, RowsOK, InDb
    <3> QED
      BY <1>0, <1>4, <3>1
  <2> HIDE DEF item
  <2>3. \A u \in Types : DOMAIN db'[u] = DOMAIN db[u]
    BY <2>2
  <2>4. \A i \in DOMAIN db["event"] : db'["event"][i].parent = db["event"][i].parent
    BY <2>1, <2>2
  <2>5. \A i \in DOMAIN db'["event"] : db'["event"][i].parent \in DOMAIN db'["season"]
    BY <1>0, <2>3, <2>4 DEF StoredInv
  <2>6. lastId' \in Nat /\ lastId <= lastId'
    BY <1>4, Bounds DEF ListInv
  <2>7. \A u \in Types : \A i \in DOMAIN db'[u] : i <= lastId'
    BY <1>4, <2>3 DEF StoredInv, UpToLast
  <2>8. \A i \in DOMAIN db'["event"] :
          /\ i \in DOMAIN db["event"]
          /\ db'["event"][i].parent = db["event"][i].parent
          /\ DOMAIN mTreeItems["event"] = {} =>
               db'["event"][i].name = db["event"][i].name \/ i \in overwritten'
    BY <1>0, <2>1, <2>3, <2>4
  <2>9. DOMAIN mTreeItems["event"] = {} => overwritten \subseteq overwritten'
    BY <2>1
  <2> QED
    BY <1>1, <2>5, <2>6, <2>7, <2>8, <2>9, RowsGoOrCome
<1>5. CASE mpAddItem # Nil
  <2>1. CreateEvent(season, name) /\ UNCHANGED overwritten
    BY <1>5 DEF eventSaved
  <2> QED
    BY <2>1, <1>2, <1>3 DEF CreateEvent
<1>6. CASE mpAddItem = Nil
  <2>1. UpdateEvent(item.id, season, name)
    BY <1>6 DEF eventSaved, UpdatedId
  <2> QED
    BY <2>1, <1>2, <1>4 DEF UpdateEvent
<1> QED
  BY <1>5, <1>6

LEMMA StepStored ==
  ListInv /\ MapInv /\ TreeInv /\ FormInv /\ StoredInv /\ [Next]_vars => StoredInv'
<1> SUFFICES ASSUME ListInv, MapInv, TreeInv, FormInv, StoredInv, [Next]_vars
             PROVE  StoredInv'
  OBVIOUS
<1>0. "event" \in Types /\ "season" \in Types
  BY DEF Types
<1>1. CASE UNCHANGED <<db, lastId, overwritten, jobs, listed, mTreeItems>>
  BY <1>1 DEF StoredInv, UpToLast, SameParents, SameNames
<1>2. CASE ChangeElsewhere
  <2>1. UNCHANGED <<jobs, listed, mTreeItems>>
    BY <1>2 DEF ChangeElsewhere
  <2>2. ASSUME NEW id \in DOMAIN db["event"], NEW name \in Names, UNCHANGED lastId,
               db' = [db EXCEPT !["event"][id].name = name], overwritten' = overwritten \cup {id}
        PROVE  StoredInv'
    BY <2>1, <2>2, RowSavedElsewhere
  <2> QED
    BY <1>0, <1>2, <2>1, <2>2, RowComes, RowGone DEF ChangeElsewhere
<1>3. ASSUME NEW t \in Types, ReadList(t)
      PROVE  StoredInv'
  <2>1. UNCHANGED <<db, lastId, listed, mTreeItems>>
    BY <1>3 DEF ReadList
  <2>2. \A u \in Types : \/ jobs'[u].rows = jobs[u].rows \/ jobs'[u].rows = EmptyMap
                         \/ jobs'[u].rows = db[u]
    BY <1>3 DEF ReadList, ListInv
  <2>3. \A u \in Types : UpToLast(jobs[u].rows)'
    BY <2>1, <2>2, NoRows DEF UpToLast, StoredInv
  <2>4. SameParents(jobs["event"].rows)'
    BY <1>0, <2>1, <2>2, NoRows DEF SameParents, StoredInv
  <2>5. DOMAIN mTreeItems["event"] = {} =>
          SameNames(jobs["event"].rows)' /\ SameNames(listed["event"])'
    <3>1. CASE t = "event"
      <4>1. DOMAIN listed'["event"] = {}
        BY <1>0, <1>3, <3>1 DEF ReadList, ListInv
      <4>2. jobs'["event"].rows = EmptyMap \/ jobs'["event"].rows = db'["event"]
        BY <1>0, <1>3, <2>1, <3>1 DEF ReadList, ListInv
      <4> QED
        BY <4>1, <4>2, NoRows DEF SameNames
    <3>2. CASE t # "event"
      <4>1. UNCHANGED overwritten
        BY <1>3, <3>2 DEF ReadList
      <4> QED
        BY <1>0, <2>1, <2>2, <4>1, NoRows DEF SameNames, StoredInv
    <3> QED
      BY <3>1, <3>2
  <2> QED
    BY <2>1, <2>3, <2>4, <2>5 DEF StoredInv, UpToLast, SameParents
<1>4. ASSUME NEW t \in Types, DeliverList(t)
      PROVE  StoredInv'
  <2>1. UNCHANGED <<db, lastId, overwritten>> /\ DOMAIN listed[t] = {} /\ DOMAIN mTreeItems["event"] = {}
    BY <1>4, DeliverListEffect, NoEventBefore DEF DeliverList
  <2>2. \A u \in Types : jobs'[u].rows = jobs[u].rows \/ jobs'[u].rows = EmptyMap
    BY <1>4 DEF DeliverList, ListInv
  <2>3. \A u \in Types : listed'[u] = listed[u] \/ listed'[u] = jobs[u].rows
    BY <1>4 DEF DeliverList, ListInv, ListsOK
  <2>4. \A u \in Types : UpToLast(jobs[u].rows)' /\ UpToLast(listed[u])' /\ UpToLast(db[u])'
    BY <2>1, <2>2, <2>3, NoRows DEF UpToLast, StoredInv
  <2>5. SameParents(jobs["event"].rows)' /\ SameParents(listed["event"])'
    BY <1>0, <2>1, <2>2, <2>3, NoRows DEF SameParents, StoredInv
  <2>6. SameNames(jobs["event"].rows)' /\ SameNames(listed["event"])'
    BY <1>0, <2>1, <2>2, <2>3, NoRows DEF SameNames, StoredInv
  <2> QED
    BY <2>1, <2>4, <2>5, <2>6 DEF StoredInv
<1>5. CASE deleteClicked
  <2> DEFINE type == items[current].type
             id == items[current].id
  <2>1. /\ UNCHANGED <<lastId, overwritten, jobs, listed, mTreeItems>>
        /\ Destroy(type, id) /\ ~crashed /\ current # Nil
    BY <1>5 DEF deleteClicked
  <2>2. type \in Types
    BY <2>1, ItemParts DEF FormInv, TreeInv, ShapeOK, ItemsOK
  <2> HIDE DEF type, id
  <2>3. CASE ~HasEvents(type, id) /\ db' = [db EXCEPT ![type] = Restrict(@, DOMAIN @ \ {id})]
    BY <2>1, <2>2, <2>3, RowGone
  <2>4. CASE UNCHANGED db
    BY <2>1, <2>4, <1>1
  <2> QED
    BY <2>1, <2>3, <2>4 DEF Destroy
<1>6. CASE (\E p \in DOMAIN items \cup {Nil} : Select(p)) \/ addClicked \/ eventCancelled
           \/ UNCHANGED vars
  BY <1>1, <1>6 DEF Select, addClicked, eventCancelled, vars
<1> QED
  BY <1>2, <1>3, <1>4, <1>5, <1>6, SaveStored DEF Next

-----------------------------------------------------------------------------
(* What the items show.                                                    *)

LEMMA InitShown == Init => ShownInv
BY NoRows DEF Init, ShownInv

(* The item of an event has a row that was listed.                         *)
LEMMA ItemWasListed ==
  ASSUME ListInv, MapInv, TreeInv, StoredInv, ~crashed, NEW id, <<"event", id>> \in DOMAIN items
  PROVE  id \in DOMAIN mTreeItems["event"] /\ id \in Nat /\ id <= lastId
<1>0. "event" \in Types /\ "event" # "new"
  BY DEF Types
<1>1. <<"event", id>>[1] = "event" /\ <<"event", id>>[2] = id
  BY PairParts
<1>2. id \in DOMAIN mTreeItems["event"]
  BY <1>0, <1>1 DEF TreeInv, ShapeOK, AtAddress
<1>3. id \in DOMAIN listed["event"]
  BY <1>0, <1>2, MapsOfOK DEF MapInv, ListInv
<1> QED
  BY <1>0, <1>2, <1>3 DEF ListInv, ListsOK, RowsOK, StoredInv, UpToLast

LEMMA FewerFailures == ListInv /\ (failures' = failures \/ Fail) /\ failures' = 0 => failures' = failures
BY Bounds DEF ListInv, Fail

(* Rows and items may go, and rows with new IDs come.                      *)
LEMMA ShownStays ==
  ASSUME ListInv, MapInv, TreeInv, StoredInv, ShownInv,
         crashed' = crashed,
         failures' = 0 => failures = 0, overwritten \subseteq overwritten',
         \A id \in DOMAIN db'["event"] :
           \/ id > lastId
           \/ /\ id \in DOMAIN db["event"]
              /\ db'["event"][id].name = db["event"][id].name \/ id \in overwritten',
         ~crashed => \A id : <<"event", id>> \in DOMAIN items' =>
                       /\ <<"event", id>> \in DOMAIN items
                       /\ items'[<<"event", id>>].name = items[<<"event", id>>].name
  PROVE  ShownInv'
<1> SUFFICES ASSUME ~crashed, failures = 0, NEW id \in DOMAIN db'["event"],
                    <<"event", id>> \in DOMAIN items'
             PROVE  items'[<<"event", id>>].name = db'["event"][id].name \/ id \in overwritten'
  BY DEF ShownInv
<1>1. <<"event", id>> \in DOMAIN items /\ items'[<<"event", id>>].name = items[<<"event", id>>].name
  OBVIOUS
<1>2. id \in Nat /\ id <= lastId /\ lastId \in Nat
  BY <1>1, ItemWasListed, Bounds DEF ListInv
<1>3. ~(id > lastId)
  BY <1>2
<1>4. /\ id \in DOMAIN db["event"]
      /\ db'["event"][id].name = db["event"][id].name \/ id \in overwritten'
  BY <1>3
<1>5. items[<<"event", id>>].name = db["event"][id].name \/ id \in overwritten
  BY <1>1, <1>4 DEF ShownInv
<1> QED
  BY <1>1, <1>4, <1>5

LEMMA DeliverShown ==
  ASSUME ListInv, MapInv, TreeInv, StoredInv, NEW t \in Types, DeliverList(t)
  PROVE  ShownInv'
<1> DEFINE first == First(listed', Tree)
           second == Second(listed', Tree)
           third == Rebuilt(listed')
<1> SUFFICES ASSUME ~crashed', NEW id \in DOMAIN db'["event"], <<"event", id>> \in DOMAIN items'
             PROVE  items'[<<"event", id>>].name = db'["event"][id].name \/ id \in overwritten'
  BY DEF ShownInv
<1>0. "event" \in Types
  BY DEF Types
<1>1. /\ ListsOK(listed) /\ ListsOK(listed') /\ Longer(listed, listed') /\ DOMAIN listed[t] = {}
      /\ ThreePasses(listed', Tree, first, second, third)
      /\ items' = third.items /\ third.ok
      /\ Tree.map = mTreeItems /\ Tree.items = items
  BY DeliverListEffect DEF ListInv
<1>2. ~crashed /\ UNCHANGED <<db, overwritten>> /\ ShapeOK(items, mTreeItems)
  BY DEF DeliverList, TreeInv
<1> HIDE DEF first, second, third
<1>3. DOMAIN mTreeItems["event"] = {}
  BY <1>1, NoEventBefore
<1>4. DOMAIN second.map["event"] = {}
  BY <1>1, <1>3, ThreePassesMap DEF MapInv
<1>5. /\ id \in DOMAIN listed'["event"]
      /\ items'[<<"event", id>>].name = listed'["event"][id].name
  BY <1>1, <1>2, <1>4, ThreePassesNames
<1>6. listed'["event"] = listed["event"] \/ listed'["event"] = jobs["event"].rows
  BY <1>0 DEF DeliverList, ListInv, ListsOK
<1> QED
  BY <1>2, <1>3, <1>5, <1>6 DEF StoredInv, SameNames

LEMMA SaveShown ==
  ASSUME ListInv, MapInv, TreeInv, FormInv, StoredInv, ShownInv,
         NEW name \in Names, eventSaved(name)
  PROVE  ShownInv'
<1> DEFINE item == items[current]
           season == items[item.parent].id
<1> SUFFICES ASSUME ~crashed', failures' = 0, NEW id \in DOMAIN db'["event"],
                    <<"event", id>> \in DOMAIN items'
             PROVE  items'[<<"event", id>>].name = db'["event"][id].name \/ id \in overwritten'
  BY DEF ShownInv
<1>0. "event" \in Types /\ "event" \notin {"new"}
  BY DEF Types
<1>1. /\ ~crashed /\ current \in DOMAIN items /\ item.type = "event"
      /\ items' = Renamed(items, current, name) /\ ShapeOK(items, mTreeItems)
  BY SavedItem
<1>2. /\ <<"event", id>> \in DOMAIN items
      /\ <<"event", id>> # current => items'[<<"event", id>>] = items[<<"event", id>>]
      /\ <<"event", id>> = current => items'[<<"event", id>>].name = name
  <2>1. items \in [DOMAIN items -> AnyItem]
    BY <1>1 DEF ShapeOK, ItemsOK
  <2>2. \A i \in AnyItem : [i EXCEPT !.name = name].name = name
    BY DEF AnyItem
  <2>3. DOMAIN items' = DOMAIN items
        /\ \A q \in DOMAIN items : q # current => items'[q] = items[q]
    BY <1>1, <2>1 DEF Renamed
  <2>4. items'[current].name = name
    BY <1>1, <2>1, <2>2 DEF Renamed
  <2> QED
    BY <2>3, <2>4
<1>3. id \in Nat /\ id <= lastId /\ lastId \in Nat /\ lastId + 1 # id
  BY <1>1, <1>2, ItemWasListed, Bounds DEF ListInv
<1>4. failures = 0 /\ failures' = failures /\ ~Fail
  BY FewerFailures, Bounds DEF eventSaved, CreateEvent, UpdateEvent, ListInv, Fail
<1>5. <<"event", id>> = current => item.id = id /\ mpAddItem = Nil
  <2> SUFFICES ASSUME <<"event", id>> = current
               PROVE  item.id = id /\ mpAddItem = Nil
    OBVIOUS
  <2>1. current[1] = "event" /\ current[2] = id
    BY PairParts
  <2>2. item.id = id
    BY <1>0, <1>1, <2>1 DEF ShapeOK, AtAddress
  <2>3. mpAddItem # Nil => current[1] = "new"
    BY <1>1 DEF FormInv, FormFollowsTree, AddingIsExclusive
  <2> QED
    BY <1>0, <2>1, <2>2, <2>3
<1>6. CASE mpAddItem # Nil
  <2>1. CreateEvent(season, name) /\ UNCHANGED overwritten
    BY <1>6 DEF eventSaved
  <2>2. <<"event", id>> # current
    BY <1>5, <1>6
  <2>3. id \in DOMAIN db["event"] /\ db'["event"][id] = db["event"][id]
    <3>1. CASE UNCHANGED db
      BY <3>1
    <3>2. CASE lastId' = lastId + 1 /\
                 db' = [db EXCEPT !["event"] = Put(@, lastId', [parent |-> season, name |-> name])]
      <4>1. db'["event"] = Put(db["event"], lastId', [parent |-> season, name |-> name])
        BY <1>0, <3>2 DEF ListInv, ListsOK
      <4>2. id # lastId'
        BY <1>3, <3>2
      <4> HIDE DEF season
      <4> QED
        BY <4>1, <4>2 DEF Put
    <3> QED
      BY <2>1, <3>1, <3>2 DEF CreateEvent
  <2>4. items[<<"event", id>>].name = db["event"][id].name \/ id \in overwritten
    BY <1>1, <1>2, <1>4, <2>3 DEF ShownInv
  <2> QED
    BY <1>2, <2>1, <2>2, <2>3, <2>4
<1>7. CASE mpAddItem = Nil
  <2>1. UpdateEvent(item.id, season, name)
    BY <1>7 DEF eventSaved, UpdatedId
  <2>2. CASE InDb("event", item.id)
    <3>1. InDb("season", season) /\ current = <<"event", item.id>>
      BY <1>1, <2>2, UpdatedEvent
    <3>2. /\ db' = [db EXCEPT !["event"][item.id] = [parent |-> season, name |-> name]]
          /\ overwritten' = overwritten \ {item.id}
      BY <1>4, <2>1, <2>2, <3>1 DEF UpdateEvent
    <3>3. /\ DOMAIN db'["event"] = DOMAIN db["event"]
          /\ \A i \in DOMAIN db["event"] : i # item.id => db'["event"][i] = db["event"][i]
          /\ db'["event"][item.id].name = name
      <4>1. db = [u \in Types |-> db[u]] /\ item.id \in DOMAIN db["event"]
            /\ db["event"] \in [DOMAIN db["event"] -> Row]
        BY <1>0, <2>2 DEF ListInv, ListsOK, RowsOK, InDb
      <4> HIDE DEF item, season
      <4> QED
        BY <1>0, <3>2, <4>1
    <3> HIDE DEF item, season
    <3>4. CASE id = item.id
      BY <1>2, <3>1, <3>3, <3>4
    <3>5. CASE id # item.id
      <4>1. <<"event", id>> # current
        BY <1>5, <3>5
      <4>2. items[<<"event", id>>].name = db["event"][id].name \/ id \in overwritten
        BY <1>1, <1>2, <1>4, <3>3 DEF ShownInv
      <4> QED
        BY <1>2, <3>2, <3>3, <3>5, <4>1, <4>2
    <3> QED
      BY <3>4, <3>5
  <2>3. CASE ~InDb("event", item.id)
    <3>1. UNCHANGED <<db, overwritten>>
      BY <1>4, <2>1, <2>3 DEF UpdateEvent
    <3>2. <<"event", id>> # current
      BY <1>5, <2>3, <3>1 DEF InDb
    <3>3. items[<<"event", id>>].name = db["event"][id].name \/ id \in overwritten
      BY <1>1, <1>2, <1>4, <3>1 DEF ShownInv
    <3> QED
      BY <1>2, <3>1, <3>2, <3>3
  <2> QED
    BY <2>2, <2>3
<1> QED
  BY <1>6, <1>7

LEMMA StepShown ==
  ListInv /\ MapInv /\ TreeInv /\ FormInv /\ StoredInv /\ ShownInv /\ [Next]_vars => ShownInv'
<1> SUFFICES ASSUME ListInv, MapInv, TreeInv, FormInv, StoredInv, ShownInv, [Next]_vars
             PROVE  ShownInv'
  OBVIOUS
<1>0. "event" \in Types /\ db = [u \in Types |-> db[u]]
  BY DEF Types, ListInv, ListsOK
<1>1. CASE UNCHANGED <<db, overwritten, failures, items, crashed>>
  BY <1>1 DEF ShownInv
<1>2. CASE ChangeElsewhere
  <2>1. UNCHANGED <<failures, items, crashed>>
    BY <1>2 DEF ChangeElsewhere, ui
  <2>2. ASSUME NEW t \in {"season", "event"}, NEW row, lastId' = lastId + 1,
               db' = [db EXCEPT ![t] = Put(@, lastId', row)]
        PROVE  \A id \in DOMAIN db'["event"] :
                 \/ id > lastId
                 \/ id \in DOMAIN db["event"] /\ db'["event"][id].name = db["event"][id].name
    <3>1. db'["event"] = db["event"] \/ db'["event"] = Put(db["event"], lastId', row)
      BY <1>0, <2>2
    <3>2. lastId' > lastId
      BY <2>2, Bounds DEF ListInv
    <3> QED
      BY <3>1, <3>2 DEF Put
  <2>3. ASSUME NEW t \in {"season", "event"}, NEW i,
               db' = [db EXCEPT ![t] = Restrict(@, DOMAIN @ \ {i})]
        PROVE  \A id \in DOMAIN db'["event"] :
                 \/ id > lastId
                 \/ id \in DOMAIN db["event"] /\ db'["event"][id].name = db["event"][id].name
    <3>1. db'["event"] = db["event"] \/ db'["event"] = Restrict(db["event"], DOMAIN db["event"] \ {i})
      BY <1>0, <2>3
    <3> QED
      BY <3>1 DEF Restrict
  <2>4. ASSUME NEW i \in DOMAIN db["event"], NEW name \in Names,
               db' = [db EXCEPT !["event"][i].name = name], overwritten' = overwritten \cup {i}
        PROVE  \A id \in DOMAIN db'["event"] :
                 /\ id \in DOMAIN db["event"]
                 /\ db'["event"][id].name = db["event"][id].name \/ id \in overwritten'
    <3>1. /\ DOMAIN db'["event"] = DOMAIN db["event"]
          /\ \A id \in DOMAIN db["event"] : id # i => db'["event"][id] = db["event"][id]
      BY <1>0, <2>4, SavedElsewhere
    <3> QED
      BY <2>4, <3>1
  <2>5. /\ overwritten \subseteq overwritten'
        /\ \A id \in DOMAIN db'["event"] :
             \/ id > lastId
             \/ /\ id \in DOMAIN db["event"]
                /\ db'["event"][id].name = db["event"][id].name \/ id \in overwritten'
    BY <1>2, <2>2, <2>3, <2>4 DEF ChangeElsewhere
  <2> QED
    BY <2>1, <2>5, ShownStays
<1>3. ASSUME NEW t \in Types, ReadList(t)
      PROVE  ShownInv'
  <2>1. UNCHANGED <<db, items, crashed>> /\ (failures' = failures \/ Fail)
    BY <1>3 DEF ReadList, ui
  <2>2. failures' = 0 => failures = 0
    BY <2>1, FewerFailures
  <2>3. CASE t = "event"
    <3>1. DOMAIN listed["event"] = {}
      BY <1>0, <1>3, <2>3 DEF ReadList, ListInv
    <3>2. DOMAIN mTreeItems["event"] = {}
      BY <1>0, <3>1, NoEventBefore
    <3>3. ~crashed => \A id : <<"event", id>> \notin DOMAIN items
      BY <3>2, ItemWasListed
    <3> QED
      BY <2>1, <3>3 DEF ShownInv
  <2>4. CASE t # "event"
    <3>1. UNCHANGED overwritten
      BY <1>3, <2>4 DEF ReadList
    <3> QED
      BY <2>1, <2>2, <3>1 DEF ShownInv
  <2> QED
    BY <2>3, <2>4
<1>4. CASE addClicked
  <2>1. PICK k \in 1..MaxAdds :
          \E item : items' = Put(items, <<"new", k>>, item)
    BY <1>4 DEF addClicked
  <2>2. \A id : <<"event", id>> # <<"new", k>>
    BY PairParts
  <2>3. \A id : <<"event", id>> \in DOMAIN items' =>
          <<"event", id>> \in DOMAIN items /\ items'[<<"event", id>>] = items[<<"event", id>>]
    BY <2>1, <2>2 DEF Put
  <2> QED
    BY <1>4, <2>3 DEF addClicked, ShownInv
<1>5. CASE deleteClicked
  <2> DEFINE type == items[current].type
             i == items[current].id
  <2>1. /\ items' = Without(current) /\ UNCHANGED <<crashed, overwritten>> /\ Destroy(type, i)
    BY <1>5 DEF deleteClicked
  <2>2. \A id : <<"event", id>> \in DOMAIN items' =>
          <<"event", id>> \in DOMAIN items /\ items'[<<"event", id>>] = items[<<"event", id>>]
    BY <2>1 DEF Without, Restrict
  <2> HIDE DEF type, i
  <2>3. failures' = failures \/ Fail
    BY <2>1 DEF Destroy
  <2>4. failures' = 0 => failures = 0
    BY <2>3, FewerFailures
  <2>5. UNCHANGED db \/ db' = [db EXCEPT ![type] = Restrict(@, DOMAIN @ \ {i})]
    BY <2>1 DEF Destroy
  <2>6. db'["event"] = db["event"]
        \/ db'["event"] = Restrict(db["event"], DOMAIN db["event"] \ {i})
    BY <1>0, <2>5
  <2>7. \A id \in DOMAIN db'["event"] :
          id \in DOMAIN db["event"] /\ db'["event"][id].name = db["event"][id].name
    BY <2>6 DEF Restrict
  <2> QED
    BY <2>1, <2>2, <2>4, <2>7, ShownStays
<1>6. CASE eventCancelled
  <2>1. items' = items \/ items' = Without(mpAddItem)
    BY <1>6 DEF eventCancelled
  <2>2. \A id : <<"event", id>> \in DOMAIN items' =>
          <<"event", id>> \in DOMAIN items /\ items'[<<"event", id>>] = items[<<"event", id>>]
    BY <2>1 DEF Without, Restrict
  <2> QED
    BY <1>6, <2>2 DEF eventCancelled, ShownInv
<1>7. CASE (\E p \in DOMAIN items \cup {Nil} : Select(p)) \/ UNCHANGED vars
  BY <1>1, <1>7 DEF Select, vars, ui
<1> QED
  BY <1>2, <1>3, <1>4, <1>5, <1>6, <1>7, DeliverShown, SaveShown DEF Next

-----------------------------------------------------------------------------
(* The theorems.                                                           *)

(* AdminWidget, EventWidget: the lists, the maps, the items, the form, what*)
(* was removed and what is stored agree in every state.                    *)
THEOREM AdminInvariant == Spec => []AdminInv
<1>1. Init => AdminInv
  BY InitLists, InitMaps, InitLook, InitRemoved, InitStored, InitShown
     DEF AdminInv, OverwrittenInv, Init
<1>2. AdminInv /\ [Next]_vars => AdminInv'
  BY StepLists, StepMaps, StepLook, StepRemoved, StepStored, StepShown,
     StepOverwritten DEF AdminInv
<1> QED
  BY <1>1, <1>2, PTL DEF Spec

(* AdminWidget.h, EventWidget.h: the current item and the item being added *)
(* are in the tree, and a tree without deleted items has only items with   *)
(* their parents.                                                          *)
THEOREM TypeCorrect == Spec => []TypeOK
<1>1. AdminInv => TypeOK
  <2> SUFFICES ASSUME AdminInv
               PROVE  TypeOK
    OBVIOUS
  <2>1. ASSUME ~crashed
        PROVE  items \in [DOMAIN items -> Item]
    <3>1. ShapeOK(items, mTreeItems)
      BY <2>1 DEF AdminInv, TreeInv
    <3>2. ASSUME NEW p \in DOMAIN items
          PROVE  items[p] \in Item
      <4>1. items[p] \in AnyItem /\ InPlace(items, p)
        BY <3>1 DEF ShapeOK, ItemsOK
      <4>2. items[p].parent \in DOMAIN items \cup {Nil}
        BY <4>1, ItemParts, ParentTypes DEF InPlace
      <4> QED
        BY <4>1, <4>2 DEF AnyItem, Item
    <3> QED
      BY <3>1, <3>2 DEF ShapeOK, ItemsOK
  <2>2. \A t \in Types : /\ RowsOK(db[t]) /\ RowsOK(listed[t]) /\ RowsOK(jobs[t].rows)
                         /\ jobs[t].state \in {"asked", "read", "delivered"}
    BY DEF AdminInv, ListInv, ListsOK
  <2> QED
    BY <2>1, <2>2 DEF AdminInv, ListInv, FormInv, RowsOK, OverwrittenInv, TypeOK
<1> QED
  BY <1>1, AdminInvariant, PTL

(* treeSelectionChanged, addClicked, deleteClicked, eventSaved,            *)
(* eventCancelled: the form is open exactly when the current item is an    *)
(* event's and edits that one, and the user is never locked out.           *)
THEOREM FormFollows == Spec => []FormFollowsTree
<1>1. AdminInv => FormFollowsTree
  BY DEF AdminInv, FormInv
<1> QED
  BY <1>1, AdminInvariant, PTL

(* rebuildTree: when all lists are delivered, in whatever order, the       *)
(* rooted rows the user did not delete have one item each, below that of   *)
(* their parent, and nobody else has; and no deleted item is used unless a *)
(* season was deleted.                                                     *)
THEOREM EachRowOnce == Spec => []TreeComplete
<1>1. AdminInv => TreeComplete
  <2> SUFFICES ASSUME AdminInv
               PROVE  TreeComplete
    OBVIOUS
  <2>1. crashed => \E id \in 1..MaxId : <<"season", id>> \in removed
    BY DEF AdminInv, RemovedInv
  <2>2. ASSUME ~crashed, NEW t \in Types, NEW id \in 1..MaxId
        PROVE  Cardinality({p \in DOMAIN items : Shows(p, t, id)}) =
                 IF Rooted(t, id) /\ <<t, id>> \notin removed THEN 1 ELSE 0
    <3> DEFINE shown == {p \in DOMAIN items : Shows(p, t, id)}
    <3>1. ShapeOK(items, mTreeItems) /\ PlacedOK(items, listed)
      BY <2>2 DEF AdminInv, TreeInv
    <3>2. id \in DOMAIN mTreeItems[t] <=> Rooted(t, id)
      <4>1. id \in DOMAIN mTreeItems[t] <=> id \in DOMAIN listed[t] /\ RootedIn(listed, t, id)
        BY MapsOfOK DEF AdminInv, ListInv, MapInv
      <4> QED
        BY <4>1 DEF Rooted, RootedIn
    <3>3. <<t, id>> \in DOMAIN items <=> Rooted(t, id) /\ <<t, id>> \notin removed
      <4>1. <<t, id>>[1] = t /\ <<t, id>>[2] = id /\ t # "new"
        BY PairParts, AddressParts
      <4>2. <<t, id>> \in DOMAIN items => id \in DOMAIN mTreeItems[t]
        BY <3>1, <4>1 DEF ShapeOK, AtAddress
      <4> QED
        BY <2>2, <3>2, <4>2 DEF AdminInv, RemovedInv
    <3>4. ASSUME NEW p \in DOMAIN items, Shows(p, t, id)
          PROVE  p = <<t, id>>
      <4>1. items[p].type = t /\ items[p].id = id /\ id # 0
        BY <3>4 DEF Shows
      <4>2. p[1] = t /\ p[2] = id
        BY <3>1, <4>1 DEF ShapeOK, AtAddress
      <4> QED
        BY <3>1, <4>2, AddressParts DEF ShapeOK, ItemsOK
    <3>5. ASSUME <<t, id>> \in DOMAIN items
          PROVE  Shows(<<t, id>>, t, id)
      <4> DEFINE p == <<t, id>>
      <4>1. p[1] = t /\ p[2] = id /\ t # "new"
        BY PairParts, AddressParts
      <4>2. items[p].type = t /\ items[p].id = id /\ InPlace(items, p)
        BY <3>1, <3>5, <4>1 DEF ShapeOK, AtAddress
      <4>3. ASSUME t # "organization"
            PROVE  items[items[p].parent].id = listed[t][id].parent
        <5> DEFINE u == ParentType[t]
                   i == listed[t][id].parent
        <5>1. items[p].parent = <<u, i>> /\ u \in Types
          BY <3>1, <3>5, <4>1, <4>3, ParentTypes DEF PlacedOK, PlacedIn
        <5>2. items[p].parent \in DOMAIN items
          BY <4>2, <4>3, ParentTypes DEF InPlace
        <5>3. <<u, i>>[1] = u /\ <<u, i>>[2] = i /\ u # "new"
          BY <5>1, PairParts, AddressParts
        <5> HIDE DEF u, i
        <5>4. items[<<u, i>>].id = i
          BY <3>1, <5>1, <5>2, <5>3 DEF ShapeOK, AtAddress
        <5> QED
          BY <5>1, <5>4 DEF i
      <4> QED
        BY <4>2, <4>3 DEF Shows
    <3>6. CASE Rooted(t, id) /\ <<t, id>> \notin removed
      <4>1. shown = {<<t, id>>}
        BY <3>3, <3>4, <3>5, <3>6
      <4> QED
        BY <3>6, <4>1, FS_Singleton
    <3>7. CASE ~(Rooted(t, id) /\ <<t, id>> \notin removed)
      <4>1. shown = {}
        BY <3>3, <3>4, <3>7
      <4> QED
        BY <3>7, <4>1, FS_EmptySet
    <3> QED
      BY <3>6, <3>7
  <2> QED
    BY <2>1, <2>2 DEF TreeComplete
<1> QED
  BY <1>1, AdminInvariant, PTL

(* eventSaved, setEvents: with no failed query, an event item that has an  *)
(* ID shows what is stored under it, however often it was edited here,     *)
(* unless another client saved that event after this one read or saved it  *)
(* last.                                                                   *)
THEOREM ShowsWhatIsStored == Spec => []ItemsShowTheirRow
<1>1. AdminInv => ItemsShowTheirRow
  <2> SUFFICES ASSUME AdminInv, ~crashed, failures = 0, NEW p \in DOMAIN items,
                      items[p].type = "event", InDb("event", items[p].id)
               PROVE  items[p].name = db.event[items[p].id].name \/ items[p].id \in overwritten
    BY DEF ItemsShowTheirRow
  <2> DEFINE id == items[p].id
  <2>1. ShapeOK(items, mTreeItems)
    BY DEF AdminInv, TreeInv
  <2>2. id \in DOMAIN db["event"] /\ id # 0
    BY DEF AdminInv, ListInv, ListsOK, RowsOK, InDb, Types
  <2>3. p[1] = "event" /\ p[2] = id /\ p \in Addresses
    BY <2>1, <2>2 DEF ShapeOK, ItemsOK, AtAddress
  <2>4. p = <<"event", id>>
    BY <2>3, AddressParts
  <2> HIDE DEF id
  <2>5. items[<<"event", id>>].name = db["event"][id].name \/ id \in overwritten
    BY <2>2, <2>4 DEF AdminInv, ShownInv
  <2> QED
    BY <2>4, <2>5 DEF id
<1> QED
  BY <1>1, AdminInvariant, PTL
=============================================================================
