--------------------------- MODULE PlaylistProofs ---------------------------
(***************************************************************************)
(* Theorems about PlaylistEngine, for every set of songs, names and        *)
(* documents, any last id and any number of calls.                         *)
(*                                                                         *)
(* The calls of the engine are functions, so each has a lemma of its own:  *)
(* from an engine that is EngineOK it makes one that is, and Advances says *)
(* what it may have changed.  What is in storage is tied to the engine by  *)
(* SavesOK, of the saves under way.                                        *)
(***************************************************************************)
EXTENDS PlaylistEngine, FiniteSetTheorems, TLAPS

Item    == [id : Nat, song : Songs]
Titles  == Names \cup {Anonymous} \cup {doc.name : doc \in Documents}
List    == [name : Titles, items : Seq(Item), content : Nat, structure : Nat, saved : Nat]
Pending == {"None", "Start", "Forward", "Backward"}
Cursor  == [list : Nat, current : Nat, position : Nat, pending : Pending, failures : Nat,
            removed : BOOLEAN]

Ids(items)      == {items[i].id : i \in DOMAIN items}
Distinct(items) == \A i, j \in DOMAIN items : items[i].id = items[j].id => i = j

-----------------------------------------------------------------------------
(* Sequences of items. *)

(* A set of numbers has a least one. *)
LEMMA LeastExists ==
  ASSUME NEW T \in SUBSET Nat, T # {}
  PROVE  Ext!Min(T) \in T
<1> DEFINE R == OpToRel(<, Nat)
<1>1. IsWellFoundedOn(R, Nat)
  BY NatLessThanWellFounded
<1>2. \A x, y \in Nat : x < y => <<x, y>> \in R
  BY Zenon DEF OpToRel
<1> HIDE DEF R
<1>3. PICK x \in T : \A y \in T : ~ (<<y, x>> \in R)
  BY <1>1, WFMin, Zenon
<1>4. \A y \in T : ~ (y < x)
  BY <1>2, <1>3
<1>5. \A y \in T : x <= y
  BY <1>4
<1>6. QED
  BY <1>5 DEF Ext!Min

(* IndexOf finds the item that has the id. *)
LEMMA IndexFact ==
  ASSUME NEW items \in Seq(Item), NEW id
  PROVE  /\ IndexOf(items, id) \in 0..Len(items)
         /\ IndexOf(items, id) = 0 <=> id \notin Ids(items)
         /\ IndexOf(items, id) # 0 => items[IndexOf(items, id)].id = id
<1> DEFINE at == {i \in 1..Len(items) : items[i].id = id}
<1>1. IndexOf(items, id) = IF at # {} THEN Ext!Min(at) ELSE 0
  BY DEF IndexOf, Ext!SelectInSeq
<1>2. at # {} => Ext!Min(at) \in at
  <2>1. at \in SUBSET Nat
    OBVIOUS
  <2> HIDE DEF at
  <2>2. QED
    BY <2>1, LeastExists
<1>3. DOMAIN items = 1..Len(items) /\ Len(items) \in Nat
  OBVIOUS
<1>4. at # {} <=> id \in Ids(items)
  BY <1>3 DEF Ids
<1> HIDE DEF at
<1>5. CASE at = {}
  BY <1>1, <1>3, <1>4, <1>5
<1>6. CASE at # {}
  <2>1. IndexOf(items, id) \in 1..Len(items) /\ items[IndexOf(items, id)].id = id
    BY <1>1, <1>2, <1>6 DEF at
  <2>2. QED
    BY <1>3, <1>4, <1>6, <2>1
<1>7. QED
  BY <1>5, <1>6

(* What a list is left with: items that are distinct, and of its ids none  *)
(* that were not there.                                                    *)
LEMMA AppendFact ==
  ASSUME NEW items \in Seq(Item), Distinct(items), NEW item \in Item,
         item.id \notin Ids(items)
  PROVE  LET new == Append(items, item)
         IN  /\ new \in Seq(Item) /\ Distinct(new) /\ Ids(new) = Ids(items) \cup {item.id}
             /\ Ext!IsPrefix(items, new)
<1> DEFINE new == Append(items, item)
<1>1. /\ new \in Seq(Item) /\ Len(new) = Len(items) + 1 /\ Len(items) \in Nat
      /\ \A i \in 1..Len(items) : new[i] = items[i]
      /\ new[Len(items) + 1] = item
      /\ DOMAIN items = 1..Len(items) /\ DOMAIN new = 1..(Len(items) + 1)
  OBVIOUS
<1>2. Ext!IsPrefix(items, new)
  <2>1. SubSeq(new, 1, Len(items)) = SubSeq(items, 1, Len(items))
    BY <1>1
  <2>2. QED
    BY <1>1, <2>1 DEF Ext!IsPrefix
<1> HIDE DEF new
<1>3. Distinct(new)
  BY <1>1 DEF Distinct, Ids
<1>4. Ids(new) = Ids(items) \cup {item.id}
  BY <1>1 DEF Ids
<1>5. QED
  BY <1>1, <1>2, <1>3, <1>4 DEF new

LEMMA EditFact ==
  ASSUME NEW items \in Seq(Item), Distinct(items), NEW at \in 1..Len(items), NEW song \in Songs
  PROVE  LET new == [items EXCEPT ![at].song = song]
         IN  new \in Seq(Item) /\ Distinct(new) /\ Ids(new) = Ids(items)
<1> DEFINE new == [items EXCEPT ![at].song = song]
<1>1. /\ DOMAIN items = 1..Len(items) /\ DOMAIN new = DOMAIN items
      /\ \A i \in DOMAIN items : items[i] \in Item
      /\ \A i \in DOMAIN items : new[i] = IF i = at THEN [items[i] EXCEPT !.song = song]
                                           ELSE items[i]
  OBVIOUS
<1>2. \A i \in DOMAIN items : new[i] \in Item /\ new[i].id = items[i].id
  BY <1>1 DEF Item
<1>3. new \in Seq(Item)
  <2>1. Len(items) \in Nat
    OBVIOUS
  <2>2. new = [i \in DOMAIN items |-> new[i]]
    OBVIOUS
  <2> HIDE DEF new
  <2>3. new \in [1..Len(items) -> Item]
    BY <1>1, <1>2, <2>2
  <2>4. QED
    BY <2>1, <2>3
<1> HIDE DEF new
<1>4. Distinct(new) /\ Ids(new) = Ids(items)
  BY <1>1, <1>2 DEF Distinct, Ids
<1>5. QED
  BY <1>3, <1>4 DEF new

LEMMA RemoveFact ==
  ASSUME NEW items \in Seq(Item), Distinct(items), NEW at \in 1..Len(items)
  PROVE  LET new == Ext!RemoveAt(items, at)
         IN  /\ new \in Seq(Item) /\ Distinct(new) /\ Ids(new) = Ids(items) \ {items[at].id}
             /\ Len(new) = Len(items) - 1
             /\ \A i \in 1..(Len(items) - 1) :
                  new[i] = IF i < at THEN items[i] ELSE items[i + 1]
<1> DEFINE new == Ext!RemoveAt(items, at)
           n   == Len(items)
<1>1. /\ new \in Seq(Item) /\ Len(new) = n - 1 /\ n \in Nat
      /\ \A i \in 1..(n - 1) : new[i] = IF i < at THEN items[i] ELSE items[i + 1]
  <2> DEFINE head == SubSeq(items, 1, at - 1)
             tail == SubSeq(items, at + 1, n)
  <2>1. /\ head \in Seq(Item) /\ Len(head) = at - 1
        /\ \A i \in 1..(at - 1) : head[i] = items[i]
    OBVIOUS
  <2>2. /\ tail \in Seq(Item) /\ Len(tail) = n - at
        /\ \A i \in 1..(n - at) : tail[i] = items[at + i]
    OBVIOUS
  <2>3. new = head \o tail /\ n \in Nat
    BY DEF Ext!RemoveAt
  <2> HIDE DEF head, tail, new
  <2>4. new \in Seq(Item) /\ Len(new) = n - 1
    BY <2>1, <2>2, <2>3
  <2>5. ASSUME NEW i \in 1..(n - 1)
        PROVE  new[i] = IF i < at THEN items[i] ELSE items[i + 1]
    <3>1. CASE i < at
      BY <2>1, <2>2, <2>3, <3>1
    <3>2. CASE ~(i < at)
      <4>1. new[i] = tail[i - (at - 1)] /\ i - (at - 1) \in 1..(n - at)
        BY <2>1, <2>2, <2>3, <3>2
      <4>2. at + (i - (at - 1)) = i + 1
        BY <2>3
      <4>3. QED
        BY <2>2, <3>2, <4>1, <4>2
    <3>3. QED
      BY <3>1, <3>2
  <2>6. QED
    BY <2>3, <2>4, <2>5
<1>2. DOMAIN items = 1..n /\ DOMAIN new = 1..(n - 1)
  BY <1>1
<1> HIDE DEF new, n
<1>3. Distinct(new)
  <2> DEFINE from(i) == IF i < at THEN i ELSE i + 1
  <2>1. \A i \in DOMAIN new : from(i) \in DOMAIN items /\ new[i] = items[from(i)]
    BY <1>1, <1>2 DEF n
  <2>2. \A i, j \in DOMAIN new : from(i) = from(j) => i = j
    BY <1>1, <1>2 DEF n
  <2> HIDE DEF from
  <2>3. QED
    BY <2>1, <2>2 DEF Distinct
<1>4. Ids(new) = Ids(items) \ {items[at].id}
  <2>1. Ids(new) \subseteq Ids(items) \ {items[at].id}
    BY <1>1, <1>2 DEF Distinct, Ids, n
  <2>2. ASSUME NEW i \in DOMAIN items, items[i].id # items[at].id
        PROVE  items[i].id \in Ids(new)
    <3>1. CASE i < at
      BY <1>1, <1>2, <3>1 DEF Ids, n
    <3>2. CASE i > at
      <4>1. i - 1 \in DOMAIN new /\ new[i - 1] = items[i]
        BY <1>1, <1>2, <3>2 DEF n
      <4>2. QED
        BY <4>1 DEF Ids
    <3>3. QED
      BY <1>2, <2>2, <3>1, <3>2 DEF n
  <2>3. QED
    BY <2>1, <2>2 DEF Ids
<1>5. QED
  BY <1>1, <1>3, <1>4 DEF new, n

LEMMA InsertFact ==
  ASSUME NEW items \in Seq(Item), Distinct(items), NEW at \in 1..(Len(items) + 1),
         NEW item \in Item, item.id \notin Ids(items)
  PROVE  LET new == Ext!InsertAt(items, at, item)
         IN  new \in Seq(Item) /\ Distinct(new) /\ Ids(new) = Ids(items) \cup {item.id}
<1> DEFINE new     == Ext!InsertAt(items, at, item)
           n       == Len(items)
           from(i) == IF i < at THEN i ELSE i - 1
<1>1. new \in Seq(Item) /\ Len(new) = n + 1 /\ n \in Nat /\ new[at] = item
      /\ \A i \in 1..(n + 1) : i # at => new[i] = items[from(i)]
  <2> DEFINE head == SubSeq(items, 1, at - 1)
             tail == SubSeq(items, at, n)
  <2>1. /\ head \in Seq(Item) /\ Len(head) = at - 1
        /\ \A i \in 1..(at - 1) : head[i] = items[i]
    OBVIOUS
  <2>2. /\ tail \in Seq(Item) /\ Len(tail) = n - at + 1
        /\ \A i \in 1..(n - at + 1) : tail[i] = items[at + i - 1]
    OBVIOUS
  <2>3. new = (head \o <<item>>) \o tail /\ n \in Nat
    BY DEF Ext!InsertAt
  <2> DEFINE front == head \o <<item>>
  <2> HIDE DEF head, tail, new
  <2>4. /\ front \in Seq(Item) /\ Len(front) = at /\ front[at] = item
        /\ \A i \in 1..(at - 1) : front[i] = items[i]
    BY <2>1
  <2> HIDE DEF front
  <2>5. new = front \o tail
    BY <2>3 DEF front
  <2>6. new \in Seq(Item) /\ Len(new) = n + 1 /\ new[at] = item
    <3>1. new \in Seq(Item) /\ Len(new) = at + (n - at + 1)
      BY <2>2, <2>4, <2>5
    <3>2. new[at] = front[at]
      BY <2>2, <2>4, <2>5
    <3>3. QED
      BY <2>3, <2>4, <3>1, <3>2
  <2>7. ASSUME NEW i \in 1..(n + 1), i # at
        PROVE  new[i] = items[from(i)]
    <3>1. CASE i < at
      BY <2>2, <2>4, <2>5, <3>1
    <3>2. CASE i > at
      <4>1. new[i] = tail[i - at] /\ i - at \in 1..(n - at + 1)
        BY <2>2, <2>3, <2>4, <2>5, <3>2
      <4>2. at + (i - at) - 1 = i - 1
        BY <2>3
      <4>3. QED
        BY <2>2, <3>2, <4>1, <4>2
    <3>3. i < at \/ i > at
      BY <2>3, <2>7
    <3>4. QED
      BY <3>1, <3>2, <3>3
  <2>8. QED
    BY <2>3, <2>6, <2>7
<1>2. \A i \in 1..(n + 1) : i # at => new[i] = items[from(i)] /\ from(i) \in 1..n
  BY <1>1
<1>3. DOMAIN items = 1..n /\ DOMAIN new = 1..(n + 1)
  BY <1>1
<1>4. \A i, j \in DOMAIN new \ {at} : from(i) = from(j) => i = j
  BY <1>3
<1>5. ASSUME NEW i \in DOMAIN items
      PROVE  \E j \in DOMAIN new \ {at} : from(j) = i
  <2>1. CASE i < at
    BY <1>1, <1>3, <2>1
  <2>2. CASE ~(i < at)
    <3>1. i + 1 \in DOMAIN new \ {at} /\ from(i + 1) = i
      BY <1>1, <1>3, <2>2
    <3>2. QED
      BY <3>1
  <2>3. QED
    BY <2>1, <2>2
<1> HIDE DEF new, n, from
<1>6. \A i \in DOMAIN new \ {at} : from(i) \in DOMAIN items /\ new[i] = items[from(i)]
  BY <1>2, <1>3
<1>7. at \in DOMAIN new
  BY <1>3 DEF n
<1>8. Distinct(new)
  <2>1. ASSUME NEW i \in DOMAIN new \ {at}
        PROVE  new[i].id \in Ids(items) /\ new[i].id # new[at].id
    BY <1>1, <1>6 DEF Ids
  <2>2. QED
    BY <1>4, <1>6, <2>1 DEF Distinct
<1>9. Ids(new) = Ids(items) \cup {item.id}
  BY <1>1, <1>5, <1>6, <1>7 DEF Ids
<1>10. QED
  BY <1>1, <1>8, <1>9 DEF new

-----------------------------------------------------------------------------
(* Engines. *)

Shaped(e) ==
  e \in [lists : {e.lists}, nextList : Nat, nextItem : Nat, revision : Nat,
         cursor : Cursor, mode : {Sequential, Loop}]

(* No two items go by one id, no playlist is acknowledged past its content. *)
Storage(e) ==
  /\ e.lists \in [DOMAIN e.lists -> List] /\ DOMAIN e.lists \subseteq 1..e.nextList
  /\ \A id \in DOMAIN e.lists :
       /\ Distinct(Items(e, id)) /\ Ids(Items(e, id)) \subseteq 1..e.nextItem
       /\ e.lists[id].saved <= e.lists[id].content
  /\ \A l1, l2 \in DOMAIN e.lists : l1 # l2 => Ids(Items(e, l1)) \cap Ids(Items(e, l2)) = {}

(* The cursor is on a playlist that is stored, counts from 1, and knows    *)
(* whether its item is in it.                                              *)
CursorOK(e) ==
  Playing(e) =>
    LET c == e.cursor
    IN  /\ Stored(e, c.list) /\ c.position >= 1 /\ c.current <= e.nextItem
        /\ c.current # NoId => (c.removed <=> c.current \notin Ids(Items(e, c.list)))

EngineOK(e) == Shaped(e) /\ Storage(e) /\ CursorOK(e)

(* What a step may do to a playlist that is stored before and after it. *)
Edited(l, l2) ==
  /\ l2.content >= l.content
  /\ l2.content = l.content => l2.name = l.name /\ l2.items = l.items
  /\ l2.structure = l.structure => Ext!IsPrefix(l.items, l2.items)

(* What is acknowledged moves only with content that was. *)
KeepsSaved(l, l2) ==
  l2.saved # l.saved =>
    /\ l.saved = l.content /\ l2.saved = l2.content
    /\ l2.name = l.name /\ l2.items = l.items

Advances(e, e2) ==
  /\ e2.nextList >= e.nextList
  /\ \A id \in DOMAIN e2.lists \ DOMAIN e.lists : id > e.nextList
  /\ DOMAIN e2.lists # DOMAIN e.lists => e2.revision > e.revision
  /\ \A id \in DOMAIN e.lists \cap DOMAIN e2.lists :
       /\ Edited(e.lists[id], e2.lists[id])
       /\ e2.lists[id].content # e.lists[id].content => e2.revision > e.revision

Unacknowledged(e, e2) ==
  \A id \in DOMAIN e.lists \cap DOMAIN e2.lists : KeepsSaved(e.lists[id], e2.lists[id])

Sound(e, e2) == EngineOK(e2) /\ Advances(e, e2) /\ Unacknowledged(e, e2)

(* The fields of an engine, set one at a time. *)
LEMMA SetLists ==
  ASSUME NEW e, Shaped(e), NEW lists
  PROVE  LET e2 == [e EXCEPT !.lists = lists]
         IN  /\ Shaped(e2) /\ e2.lists = lists /\ e2.nextList = e.nextList
             /\ e2.nextItem = e.nextItem /\ e2.cursor = e.cursor /\ e2.revision = e.revision
BY DEF Shaped

LEMMA SetNextList ==
  ASSUME NEW e, Shaped(e), NEW n \in Nat
  PROVE  LET e2 == [e EXCEPT !.nextList = n]
         IN  /\ Shaped(e2) /\ e2.lists = e.lists /\ e2.nextList = n
             /\ e2.nextItem = e.nextItem /\ e2.cursor = e.cursor /\ e2.revision = e.revision
BY DEF Shaped

LEMMA SetNextItem ==
  ASSUME NEW e, Shaped(e), NEW n \in Nat
  PROVE  LET e2 == [e EXCEPT !.nextItem = n]
         IN  /\ Shaped(e2) /\ e2.lists = e.lists /\ e2.nextList = e.nextList
             /\ e2.nextItem = n /\ e2.cursor = e.cursor /\ e2.revision = e.revision
BY DEF Shaped

LEMMA SetCursor ==
  ASSUME NEW e, Shaped(e), NEW cursor \in Cursor
  PROVE  LET e2 == [e EXCEPT !.cursor = cursor]
         IN  /\ Shaped(e2) /\ e2.lists = e.lists /\ e2.nextList = e.nextList
             /\ e2.nextItem = e.nextItem /\ e2.cursor = cursor /\ e2.revision = e.revision
             /\ e2.mode = e.mode
BY DEF Shaped

LEMMA TouchedFact ==
  ASSUME NEW e, Shaped(e)
  PROVE  LET e2 == Touched(e)
         IN  /\ Shaped(e2) /\ e2.lists = e.lists /\ e2.nextList = e.nextList
             /\ e2.nextItem = e.nextItem /\ e2.cursor = e.cursor
             /\ e2.revision = e.revision + 1
BY DEF Shaped, Touched

LEMMA NoChange ==
  ASSUME NEW e, EngineOK(e)
  PROVE  Sound(e, e)
<1>1. \A l \in List : Edited(l, l) /\ KeepsSaved(l, l)
  BY DEF Edited, KeepsSaved, List, Ext!IsPrefix
<1>2. QED
  BY <1>1 DEF Sound, EngineOK, Shaped, Storage, Advances, Unacknowledged

(* One playlist is replaced. *)
Replaces(e, e2, id, l2) ==
  /\ Shaped(e2) /\ e2.lists = [e.lists EXCEPT ![id] = l2]
  /\ e2.nextList = e.nextList /\ e2.nextItem >= e.nextItem
  /\ l2 \in List /\ Distinct(l2.items) /\ l2.saved <= l2.content
  /\ Ids(l2.items) \subseteq Ids(Items(e, id)) \cup (e.nextItem + 1)..e2.nextItem
  /\ Edited(e.lists[id], l2)
  /\ l2.content # e.lists[id].content => e2.revision > e.revision

LEMMA ReplaceStorage ==
  ASSUME NEW e, NEW e2, NEW id, NEW l2, Shaped(e), Storage(e), Stored(e, id),
         Replaces(e, e2, id, l2)
  PROVE  Storage(e2) /\ Advances(e, e2)
<1>1. /\ DOMAIN e2.lists = DOMAIN e.lists /\ id \in DOMAIN e.lists
      /\ e2.lists[id] = l2 /\ \A o \in DOMAIN e.lists \ {id} : e2.lists[o] = e.lists[o]
  BY DEF Replaces, Storage, Stored
<1>2. e.nextItem \in Nat /\ e2.nextItem \in Nat /\ e.nextList \in Nat /\ e.revision \in Nat
  BY DEF Shaped, Replaces
<1>3. \A o \in DOMAIN e.lists : e.lists[o] \in List
  BY DEF Storage
<1>4. Storage(e2)
  <2>1. e2.lists \in [DOMAIN e2.lists -> List] /\ DOMAIN e2.lists \subseteq 1..e2.nextList
    BY <1>1 DEF Storage, Replaces
  <2>2. ASSUME NEW o \in DOMAIN e.lists \ {id}
        PROVE  /\ Items(e2, o) = Items(e, o) /\ Ids(Items(e2, o)) \subseteq 1..e.nextItem
               /\ Distinct(Items(e2, o)) /\ e2.lists[o].saved <= e2.lists[o].content
    BY <1>1 DEF Storage, Items
  <2>3. /\ Items(e2, id) = l2.items /\ Distinct(Items(e2, id))
        /\ e2.lists[id].saved <= e2.lists[id].content
        /\ Ids(Items(e2, id)) \subseteq Ids(Items(e, id)) \cup (e.nextItem + 1)..e2.nextItem
        /\ Ids(Items(e, id)) \subseteq 1..e.nextItem
    BY <1>1 DEF Storage, Items, Replaces
  <2>4. 1..e.nextItem \subseteq 1..e2.nextItem
        /\ (e.nextItem + 1)..e2.nextItem \subseteq 1..e2.nextItem
        /\ (1..e.nextItem) \cap ((e.nextItem + 1)..e2.nextItem) = {}
    BY <1>2 DEF Replaces
  <2>5. ASSUME NEW o \in DOMAIN e.lists \ {id}
        PROVE  Ids(Items(e2, id)) \cap Ids(Items(e2, o)) = {}
    <3>1. Ids(Items(e, id)) \cap Ids(Items(e, o)) = {}
      BY <1>1 DEF Storage
    <3>2. QED
      BY <2>2, <2>3, <2>4, <3>1
  <2>6. \A l1, l3 \in DOMAIN e2.lists :
           l1 # l3 => Ids(Items(e2, l1)) \cap Ids(Items(e2, l3)) = {}
    <3>1. \A l1, l3 \in DOMAIN e.lists \ {id} :
             l1 # l3 => Ids(Items(e2, l1)) \cap Ids(Items(e2, l3)) = {}
      BY <2>2 DEF Storage
    <3>2. QED
      BY <1>1, <2>5, <3>1
  <2>7. ASSUME NEW o \in DOMAIN e2.lists
        PROVE  /\ Distinct(Items(e2, o)) /\ Ids(Items(e2, o)) \subseteq 1..e2.nextItem
               /\ e2.lists[o].saved <= e2.lists[o].content
    BY <1>1, <2>2, <2>3, <2>4
  <2>8. QED
    BY <2>1, <2>6, <2>7 DEF Storage
<1>5. Advances(e, e2)
  <2>1. \A l \in List : Edited(l, l)
    BY DEF Edited, List, Ext!IsPrefix
  <2>2. ASSUME NEW o \in DOMAIN e.lists
        PROVE  /\ Edited(e.lists[o], e2.lists[o])
               /\ e2.lists[o].content # e.lists[o].content => e2.revision > e.revision
    BY <1>1, <1>3, <2>1 DEF Replaces
  <2>3. QED
    BY <1>1, <1>2, <2>2 DEF Advances, Replaces
<1>6. QED
  BY <1>4, <1>5

(* The cursor stays, and keeps its item if it has one. *)
LEMMA ReplaceKeepsCursor ==
  ASSUME NEW e, NEW e2, NEW id, NEW l2, EngineOK(e), Stored(e, id),
         Replaces(e, e2, id, l2), e2.cursor = e.cursor,
         e.cursor.list = id /\ e.cursor.current \in Ids(Items(e, id))
           => e.cursor.current \in Ids(l2.items)
  PROVE  EngineOK(e2) /\ Advances(e, e2)
<1>1. /\ DOMAIN e2.lists = DOMAIN e.lists /\ id \in DOMAIN e.lists
      /\ e2.lists[id] = l2 /\ \A o \in DOMAIN e.lists \ {id} : e2.lists[o] = e.lists[o]
  BY DEF EngineOK, Replaces, Storage, Stored
<1>2. Storage(e2) /\ Advances(e, e2) /\ Shaped(e2)
  BY ReplaceStorage DEF EngineOK, Replaces
<1>3. CursorOK(e2)
  <2> SUFFICES ASSUME Playing(e)
               PROVE  LET c == e.cursor
                      IN  /\ Stored(e2, c.list) /\ c.position >= 1 /\ c.current <= e2.nextItem
                          /\ c.current # NoId =>
                               (c.removed <=> c.current \notin Ids(Items(e2, c.list)))
    BY DEF CursorOK, Playing
  <2> DEFINE c == e.cursor
  <2>1. /\ Stored(e, c.list) /\ c.position >= 1 /\ c.current <= e.nextItem
        /\ c.current # NoId => (c.removed <=> c.current \notin Ids(Items(e, c.list)))
    BY DEF EngineOK, CursorOK
  <2>2. c.current \in Nat /\ e.nextItem \in Nat /\ e2.nextItem \in Nat
        /\ e.nextItem <= e2.nextItem
    BY DEF EngineOK, Shaped, Cursor, Replaces
  <2>3. c.current <= e2.nextItem /\ c.current \notin (e.nextItem + 1)..e2.nextItem
    BY <2>1, <2>2
  <2>4. c.list # id => Items(e2, c.list) = Items(e, c.list)
    BY <1>1, <2>1 DEF Items, Stored
  <2>5. c.list = id => (c.current \in Ids(Items(e2, id)) <=> c.current \in Ids(Items(e, id)))
    BY <1>1, <2>3 DEF Items, Replaces
  <2>6. QED
    BY <1>1, <2>1, <2>3, <2>4, <2>5 DEF Stored
<1>4. QED
  BY <1>2, <1>3 DEF EngineOK

-----------------------------------------------------------------------------
(* The calls. *)

(* A restructured playlist is a new revision of both kinds. *)
LEMMA RestructuredFact ==
  ASSUME NEW e, Shaped(e), NEW id \in DOMAIN e.lists, NEW list \in List
  PROVE  LET e2 == Restructured(e, id, list)
             l2 == StructureTouched(list)
         IN  /\ Shaped(e2) /\ e2.lists = [e.lists EXCEPT ![id] = l2]
             /\ e2.nextList = e.nextList /\ e2.nextItem = e.nextItem
             /\ e2.cursor = e.cursor /\ e2.revision = e.revision + 1
             /\ l2 \in List /\ l2.name = list.name /\ l2.items = list.items
             /\ l2.content = list.content + 1 /\ l2.structure = list.structure + 1
             /\ l2.saved = list.saved
<1> DEFINE l2 == StructureTouched(list)
           e1 == [e EXCEPT !.lists = [e.lists EXCEPT ![id] = l2]]
           e2 == Restructured(e, id, list)
<1>1. /\ l2 \in List /\ l2.name = list.name /\ l2.items = list.items
      /\ l2.content = list.content + 1 /\ l2.structure = list.structure + 1
      /\ l2.saved = list.saved
  <2> DEFINE c == ContentTouched(list)
  <2>1. /\ c \in List /\ c.name = list.name /\ c.items = list.items
        /\ c.content = list.content + 1 /\ c.structure = list.structure /\ c.saved = list.saved
    BY DEF ContentTouched, List
  <2>2. l2 = [c EXCEPT !.structure = @ + 1]
    BY DEF StructureTouched
  <2> HIDE DEF c, l2
  <2>3. QED
    BY <2>1, <2>2 DEF List
<1>2. e2 = [e1 EXCEPT !.revision = @ + 1]
  BY DEF Restructured, Touched
<1>3. /\ Shaped(e2) /\ e2.lists = [e.lists EXCEPT ![id] = l2]
      /\ e2.nextList = e.nextList /\ e2.nextItem = e.nextItem
      /\ e2.cursor = e.cursor /\ e2.revision = e.revision + 1
  <2> HIDE DEF l2, e2
  <2>1. /\ e1.lists = [e.lists EXCEPT ![id] = l2] /\ e1.nextList = e.nextList
        /\ e1.nextItem = e.nextItem /\ e1.cursor = e.cursor /\ e1.revision = e.revision
        /\ Shaped(e1)
    BY DEF Shaped
  <2> HIDE DEF e1
  <2>2. QED
    BY <1>2, <2>1 DEF Shaped
<1>4. QED
  BY <1>1, <1>3

(* The calls that restructure a playlist and leave the cursor where it is. *)
LEMMA RestructuredSound ==
  ASSUME NEW e, EngineOK(e), NEW id, Stored(e, id), NEW list \in List,
         list.content = e.lists[id].content, list.structure = e.lists[id].structure,
         list.saved = e.lists[id].saved,
         Distinct(list.items), Ids(list.items) = Ids(Items(e, id))
  PROVE  Sound(e, Restructured(e, id, list))
<1> DEFINE l  == e.lists[id]
           l2 == StructureTouched(list)
           e2 == Restructured(e, id, list)
<1>1. /\ Shaped(e2) /\ e2.lists = [e.lists EXCEPT ![id] = l2]
      /\ e2.nextList = e.nextList /\ e2.nextItem = e.nextItem
      /\ e2.cursor = e.cursor /\ e2.revision = e.revision + 1
      /\ l2 \in List /\ l2.items = list.items
      /\ l2.content = l.content + 1 /\ l2.structure = l.structure + 1
      /\ l2.saved = l.saved
  BY RestructuredFact DEF EngineOK, Stored
<1>2. /\ l \in List /\ l.content \in Nat /\ l.structure \in Nat /\ l.saved \in Nat
      /\ l.saved <= l.content /\ e.revision \in Nat /\ e.nextItem \in Nat
  BY DEF EngineOK, Storage, Stored, List, Shaped
<1> HIDE DEF l, l2, e2
<1>3. Edited(l, l2) /\ KeepsSaved(l, l2) /\ l2.saved <= l2.content
  BY <1>1, <1>2 DEF Edited, KeepsSaved
<1>4. Replaces(e, e2, id, l2)
  BY <1>1, <1>2, <1>3 DEF Replaces, l
<1>5. EngineOK(e2) /\ Advances(e, e2)
  BY <1>1, <1>4, ReplaceKeepsCursor
<1>6. Unacknowledged(e, e2)
  <2>1. \A l1 \in List : KeepsSaved(l1, l1)
    BY DEF KeepsSaved
  <2>2. QED
    BY <1>1, <1>3, <2>1 DEF Unacknowledged, EngineOK, Storage, l
<1>7. QED
  BY <1>5, <1>6 DEF Sound, e2

LEMMA RenameSound ==
  ASSUME NEW e, EngineOK(e), NEW id, NEW name \in Titles
  PROVE  Sound(e, Rename(e, id, name))
<1>1. CASE ~Stored(e, id) \/ e.lists[id].name = name
  BY <1>1, NoChange DEF Rename
<1>2. CASE ~(~Stored(e, id) \/ e.lists[id].name = name)
  <2> DEFINE l    == e.lists[id]
             list == [l EXCEPT !.name = name]
  <2>1. l \in List /\ Distinct(l.items)
    BY <1>2 DEF EngineOK, Storage, Stored, Items
  <2>2. /\ list \in List /\ list.content = l.content /\ list.structure = l.structure
        /\ list.saved = l.saved /\ list.items = l.items
    BY <2>1 DEF List
  <2>3. Rename(e, id, name) = Restructured(e, id, list)
    BY <1>2 DEF Rename
  <2> HIDE DEF list
  <2>4. QED
    BY <1>2, <2>1, <2>2, <2>3, RestructuredSound DEF Items
<1>3. QED
  BY <1>1, <1>2

LEMMA EditSound ==
  ASSUME NEW e, EngineOK(e), NEW id, NEW item, NEW song \in Songs
  PROVE  Sound(e, EditItem(e, id, item, song))
<1> DEFINE at == IndexOf(Items(e, id), item)
<1>1. CASE ~Stored(e, id) \/ at = 0
  BY <1>1, NoChange DEF EditItem
<1>2. CASE Stored(e, id) /\ at # 0
  <2> DEFINE l    == e.lists[id]
             new  == [l.items EXCEPT ![at].song = song]
             list == [l EXCEPT !.items = new]
  <2>1. l \in List /\ Distinct(l.items) /\ l.items \in Seq(Item) /\ Items(e, id) = l.items
    BY <1>2 DEF EngineOK, Storage, Stored, Items, List
  <2>2. at \in 1..Len(l.items)
    BY <1>2, <2>1, IndexFact
  <2>3. new \in Seq(Item) /\ Distinct(new) /\ Ids(new) = Ids(l.items)
    BY <2>1, <2>2, EditFact
  <2>4. EditItem(e, id, item, song) = Restructured(e, id, list)
    BY <1>2 DEF EditItem
  <2> HIDE DEF new, at
  <2>5. /\ list \in List /\ list.content = l.content /\ list.structure = l.structure
        /\ list.saved = l.saved /\ list.items = new
    BY <2>1, <2>3 DEF List
  <2> HIDE DEF list
  <2>6. QED
    BY <1>2, <2>1, <2>3, <2>4, <2>5, RestructuredSound
<1>3. QED
  BY <1>1, <1>2

LEMMA MoveSound ==
  ASSUME NEW e, EngineOK(e), NEW id, NEW item, NEW after
  PROVE  Sound(e, MoveItem(e, id, item, after))
<1> DEFINE items == Items(e, id)
           from  == IndexOf(items, item)
           to    == IF after = NoId THEN 1 ELSE IndexOf(items, after) + 1
           dest  == IF from < to THEN to - 1 ELSE to
           stays == \/ after = item \/ ~Stored(e, id) \/ from = 0
                    \/ after # NoId /\ IndexOf(items, after) = 0
                    \/ dest = from
<1>1. CASE stays
  BY <1>1, NoChange DEF MoveItem
<1>2. CASE ~stays
  <2> DEFINE l    == e.lists[id]
             rest == Ext!RemoveAt(items, from)
             new  == Ext!InsertAt(rest, dest, items[from])
             list == [l EXCEPT !.items = new]
  <2>1. l \in List /\ Distinct(items) /\ items \in Seq(Item) /\ items = l.items
    BY <1>2 DEF EngineOK, Storage, Stored, Items, List
  <2>2. from \in 1..Len(items) /\ IndexOf(items, after) \in 0..Len(items)
    BY <1>2, <2>1, IndexFact
  <2>3. dest \in 1..Len(items)
    <3>1. from # to /\ to \in 1..(Len(items) + 1)
      <4>1. to \in 1..(Len(items) + 1)
        BY <2>2
      <4>2. from # to \/ dest = from
        BY <2>2
      <4>3. QED
        BY <1>2, <4>1, <4>2
    <3> HIDE DEF from, to
    <3>2. QED
      BY <2>2, <3>1
  <2>4. MoveItem(e, id, item, after) = Restructured(e, id, list)
    BY <1>2, <2>1 DEF MoveItem
  <2> HIDE DEF items, from, dest
  <2>5. /\ rest \in Seq(Item) /\ Distinct(rest) /\ Ids(rest) = Ids(items) \ {items[from].id}
        /\ Len(rest) = Len(items) - 1
    BY <2>1, <2>2, RemoveFact
  <2>6. items[from] \in Item /\ items[from].id \in Ids(items) /\ dest \in 1..(Len(rest) + 1)
    BY <2>1, <2>2, <2>3, <2>5 DEF Ids
  <2> HIDE DEF rest
  <2>7. new \in Seq(Item) /\ Distinct(new) /\ Ids(new) = Ids(items)
    <3>1. items[from].id \notin Ids(rest)
      BY <2>5
    <3>2. /\ new \in Seq(Item) /\ Distinct(new)
          /\ Ids(new) = Ids(rest) \cup {items[from].id}
      BY <2>5, <2>6, <3>1, InsertFact
    <3>3. QED
      BY <2>5, <2>6, <3>2
  <2> HIDE DEF new
  <2>8. /\ list \in List /\ list.content = l.content /\ list.structure = l.structure
        /\ list.saved = l.saved /\ list.items = new
    BY <2>1, <2>7 DEF List
  <2> HIDE DEF list
  <2>9. QED
    BY <1>2, <2>1, <2>4, <2>7, <2>8, RestructuredSound DEF items
<1>3. QED
  BY <1>1, <1>2

LEMMA TouchSound ==
  ASSUME NEW e, EngineOK(e), NEW id
  PROVE  Sound(e, TouchStructurePreservingDirty(e, id))
<1> DEFINE e2 == TouchStructurePreservingDirty(e, id)
           l  == e.lists[id]
           l1 == StructureTouched(l)
           l2 == IF IsDirty(l) THEN l1 ELSE [l1 EXCEPT !.saved = l1.content]
           lists == [e.lists EXCEPT ![id] = l2]
<1>1. CASE ~Stored(e, id)
  BY <1>1, NoChange DEF TouchStructurePreservingDirty
<1>2. CASE Stored(e, id)
  <2>1. /\ l \in List /\ l.content \in Nat /\ l.structure \in Nat /\ l.saved \in Nat
        /\ l.saved <= l.content /\ e.revision \in Nat /\ e.nextItem \in Nat
        /\ Distinct(l.items) /\ id \in DOMAIN e.lists /\ Items(e, id) = l.items
    BY <1>2 DEF EngineOK, Storage, Stored, List, Shaped, Items
  <2>2. e2 = Touched([e EXCEPT !.lists = lists])
    BY <1>2 DEF TouchStructurePreservingDirty
  <2>3. /\ l1 \in List /\ l1.name = l.name /\ l1.items = l.items /\ l1.saved = l.saved
        /\ l1.content = l.content + 1 /\ l1.structure = l.structure + 1
    BY <2>1, RestructuredFact DEF EngineOK
  <2> HIDE DEF l1
  <2>4. /\ l2 \in List /\ l2.name = l.name /\ l2.items = l.items
        /\ l2.content = l.content + 1 /\ l2.structure = l.structure + 1
        /\ l2.saved = IF IsDirty(l) THEN l.saved ELSE l2.content
    BY <2>1, <2>3 DEF List
  <2> HIDE DEF l2, lists, e2
  <2>5. /\ Shaped(e2) /\ e2.lists = lists /\ e2.nextList = e.nextList
        /\ e2.nextItem = e.nextItem /\ e2.cursor = e.cursor /\ e2.revision = e.revision + 1
    <3> DEFINE e1 == [e EXCEPT !.lists = lists]
    <3>1. /\ Shaped(e1) /\ e1.lists = lists /\ e1.nextList = e.nextList
          /\ e1.nextItem = e.nextItem /\ e1.cursor = e.cursor /\ e1.revision = e.revision
      BY SetLists DEF EngineOK
    <3> HIDE DEF e1
    <3>2. QED
      BY <2>2, <3>1, TouchedFact DEF e1
  <2> HIDE DEF l
  <2>6. Edited(l, l2) /\ KeepsSaved(l, l2) /\ l2.saved <= l2.content
    BY <2>1, <2>4 DEF Edited, KeepsSaved, IsDirty
  <2>7. Replaces(e, e2, id, l2)
    BY <2>1, <2>4, <2>5, <2>6 DEF Replaces, l, lists
  <2>8. EngineOK(e2) /\ Advances(e, e2)
    BY <1>2, <2>1, <2>4, <2>5, <2>7, ReplaceKeepsCursor
  <2>9. Unacknowledged(e, e2)
    <3>1. \A o \in DOMAIN e.lists : o # id => e2.lists[o] = e.lists[o]
      BY <2>5 DEF EngineOK, Storage, lists
    <3>2. e2.lists[id] = l2
      BY <2>1, <2>5 DEF EngineOK, Storage, lists
    <3>3. QED
      BY <2>6, <3>1, <3>2 DEF Unacknowledged, KeepsSaved, l
  <2>10. QED
    BY <2>8, <2>9 DEF Sound, e2
<1>3. QED
  BY <1>1, <1>2

LEMMA AppendSound ==
  ASSUME NEW e, EngineOK(e), NEW id, NEW song \in Songs
  PROVE  Sound(e, AppendItem(e, id, song))
<1> DEFINE e2 == AppendItem(e, id, song)
           l  == e.lists[id]
           item == [id |-> e.nextItem + 1, song |-> song]
           new  == Append(l.items, item)
           l1 == [l EXCEPT !.items = new]
           l2 == ContentTouched(l1)
           lists == [e.lists EXCEPT ![id] = l2]
<1>1. CASE ~Stored(e, id) \/ ~CanMint(e.nextItem, 1)
  BY <1>1, NoChange DEF AppendItem
<1>2. CASE Stored(e, id) /\ CanMint(e.nextItem, 1)
  <2>1. /\ l \in List /\ l.content \in Nat /\ l.structure \in Nat /\ l.saved \in Nat
        /\ l.saved <= l.content /\ e.revision \in Nat /\ e.nextItem \in Nat
        /\ Distinct(l.items) /\ id \in DOMAIN e.lists /\ Items(e, id) = l.items
        /\ l.items \in Seq(Item) /\ Ids(l.items) \subseteq 1..e.nextItem
    BY <1>2 DEF EngineOK, Storage, Stored, List, Shaped, Items
  <2>2. e2 = Touched([e EXCEPT !.nextItem = item.id, !.lists = lists])
    BY <1>2 DEF AppendItem
  <2>3. /\ item \in Item /\ item.id = e.nextItem + 1 /\ item.id \notin Ids(l.items)
        /\ item.id \in Nat
    BY <2>1 DEF Item
  <2>4. /\ new \in Seq(Item) /\ Distinct(new) /\ Ids(new) = Ids(l.items) \cup {item.id}
        /\ Ext!IsPrefix(l.items, new)
    BY <2>1, <2>3, AppendFact
  <2> HIDE DEF new, item
  <2>5. /\ l1 \in List /\ l1.name = l.name /\ l1.items = new /\ l1.saved = l.saved
        /\ l1.content = l.content /\ l1.structure = l.structure
    BY <2>1, <2>4 DEF List
  <2> HIDE DEF l1
  <2>6. /\ l2 \in List /\ l2.name = l.name /\ l2.items = new /\ l2.saved = l.saved
        /\ l2.content = l.content + 1 /\ l2.structure = l.structure
    BY <2>1, <2>5 DEF List, ContentTouched
  <2> HIDE DEF l2, lists, e2
  <2>7. /\ Shaped(e2) /\ e2.lists = lists /\ e2.nextList = e.nextList
        /\ e2.nextItem = e.nextItem + 1 /\ e2.cursor = e.cursor /\ e2.revision = e.revision + 1
    <3> DEFINE e0 == [e EXCEPT !.nextItem = item.id]
               e1 == [e0 EXCEPT !.lists = lists]
    <3>1. /\ Shaped(e0) /\ e0.nextList = e.nextList /\ e0.cursor = e.cursor
          /\ e0.nextItem = item.id /\ e0.revision = e.revision
      BY <2>1, <2>3, SetNextItem DEF EngineOK
    <3>2. e2 = Touched(e1)
      BY <2>2
    <3> HIDE DEF e0
    <3>3. /\ Shaped(e1) /\ e1.lists = lists /\ e1.nextList = e0.nextList
          /\ e1.nextItem = e0.nextItem /\ e1.cursor = e0.cursor /\ e1.revision = e0.revision
      BY <3>1, SetLists
    <3> HIDE DEF e1
    <3>4. QED
      BY <2>3, <3>1, <3>2, <3>3, TouchedFact
  <2> HIDE DEF l
  <2>8. Edited(l, l2) /\ KeepsSaved(l, l2) /\ l2.saved <= l2.content
    BY <2>1, <2>4, <2>6 DEF Edited, KeepsSaved
  <2>9. Ids(l2.items) \subseteq Ids(Items(e, id)) \cup (e.nextItem + 1)..e2.nextItem
    BY <2>1, <2>3, <2>4, <2>6, <2>7
  <2>10. Replaces(e, e2, id, l2)
    BY <2>1, <2>4, <2>6, <2>7, <2>8, <2>9 DEF Replaces, l, lists
  <2>11. EngineOK(e2) /\ Advances(e, e2)
    BY <1>2, <2>1, <2>4, <2>6, <2>7, <2>10, ReplaceKeepsCursor
  <2>12. Unacknowledged(e, e2)
    <3>1. \A o \in DOMAIN e.lists : o # id => e2.lists[o] = e.lists[o]
      BY <2>7 DEF EngineOK, Storage, lists
    <3>2. e2.lists[id] = l2
      BY <2>1, <2>7 DEF EngineOK, Storage, lists
    <3>3. QED
      BY <2>8, <3>1, <3>2 DEF Unacknowledged, KeepsSaved, l
  <2>13. QED
    BY <2>11, <2>12 DEF Sound, e2
<1>3. QED
  BY <1>1, <1>2

LEMMA RemoveSound ==
  ASSUME NEW e, EngineOK(e), NEW id, NEW item
  PROVE  Sound(e, RemoveItem(e, id, item))
<1> DEFINE at == IndexOf(Items(e, id), item)
           e2 == RemoveItem(e, id, item)
<1>1. CASE ~Stored(e, id) \/ at = 0
  BY <1>1, NoChange DEF RemoveItem
<1>2. CASE Stored(e, id) /\ at # 0
  <2> DEFINE l    == e.lists[id]
             new  == Ext!RemoveAt(l.items, at)
             list == [l EXCEPT !.items = new]
             l2   == StructureTouched(list)
             cursor == CursorWithout(e, id, item)
             e1   == [e EXCEPT !.cursor = cursor]
  <2>1. /\ l \in List /\ l.content \in Nat /\ l.structure \in Nat /\ l.saved \in Nat
        /\ l.saved <= l.content /\ e.revision \in Nat /\ e.nextItem \in Nat
        /\ Distinct(l.items) /\ id \in DOMAIN e.lists /\ Items(e, id) = l.items
        /\ l.items \in Seq(Item) /\ Ids(l.items) \subseteq 1..e.nextItem
    BY <1>2 DEF EngineOK, Storage, Stored, List, Shaped, Items
  <2>2. at \in 1..Len(l.items) /\ l.items[at].id = item
    BY <1>2, <2>1, IndexFact
  <2>3. new \in Seq(Item) /\ Distinct(new) /\ Ids(new) = Ids(l.items) \ {item}
    BY <2>1, <2>2, RemoveFact
  <2>4. item \in Ids(l.items) /\ item \in Nat
    <3>1. item \in Ids(l.items)
      BY <1>2, <2>1, IndexFact
    <3>2. QED
      BY <2>1, <3>1
  <2>5. e2 = Restructured(e1, id, list)
    BY <1>2, <2>1 DEF RemoveItem
  <2>6. /\ cursor = IF e.cursor.list = id /\ e.cursor.current = item
                    THEN [e.cursor EXCEPT !.position = at, !.failures = 0, !.removed = TRUE]
                    ELSE e.cursor
        /\ e.cursor \in Cursor
    BY DEF CursorWithout, EngineOK, Shaped
  <2> HIDE DEF new, at, cursor
  <2>7. /\ cursor \in Cursor /\ cursor.list = e.cursor.list /\ cursor.current = e.cursor.current
        /\ e.cursor.list = id /\ e.cursor.current = item
             => cursor.position = at /\ cursor.removed = TRUE
        /\ ~(e.cursor.list = id /\ e.cursor.current = item) => cursor = e.cursor
    <3>1. at \in Nat
      BY <2>1, <2>2
    <3>2. CASE e.cursor.list = id /\ e.cursor.current = item
      BY <2>6, <3>1, <3>2 DEF Cursor
    <3>3. CASE ~(e.cursor.list = id /\ e.cursor.current = item)
      BY <2>6, <3>3
    <3>4. QED
      BY <3>2, <3>3
  <2>8. Shaped(e1) /\ e1.lists = e.lists /\ e1.nextList = e.nextList /\ e1.nextItem = e.nextItem
        /\ e1.revision = e.revision /\ e1.cursor = cursor
    BY <2>7 DEF EngineOK, Shaped
  <2> HIDE DEF e1
  <2>9. /\ list \in List /\ list.content = l.content /\ list.structure = l.structure
        /\ list.saved = l.saved /\ list.items = new
    BY <2>1, <2>3 DEF List
  <2> HIDE DEF list, e2
  <2>10. /\ Shaped(e2) /\ e2.lists = [e.lists EXCEPT ![id] = l2]
         /\ e2.nextList = e.nextList /\ e2.nextItem = e.nextItem
         /\ e2.cursor = cursor /\ e2.revision = e.revision + 1
         /\ l2 \in List /\ l2.items = new /\ l2.saved = l.saved
         /\ l2.content = l.content + 1 /\ l2.structure = l.structure + 1
    BY <2>1, <2>5, <2>8, <2>9, RestructuredFact
  <2> HIDE DEF l2, l
  <2>11. Edited(l, l2) /\ KeepsSaved(l, l2) /\ l2.saved <= l2.content
    BY <2>1, <2>10 DEF Edited, KeepsSaved
  <2>12. Replaces(e, e2, id, l2)
    BY <2>1, <2>3, <2>10, <2>11 DEF Replaces, l
  <2>13. Storage(e2) /\ Advances(e, e2)
    BY <1>2, <2>12, ReplaceStorage DEF EngineOK
  <2>14. /\ \A o \in DOMAIN e.lists : o # id => e2.lists[o] = e.lists[o]
         /\ e2.lists[id] = l2 /\ DOMAIN e2.lists = DOMAIN e.lists
    BY <2>1, <2>10 DEF EngineOK, Storage
  <2>15. Unacknowledged(e, e2)
    BY <2>11, <2>14 DEF Unacknowledged, KeepsSaved, l
  <2>16. CursorOK(e2)
    <3> SUFFICES ASSUME Playing(e2)
                 PROVE  /\ Stored(e2, cursor.list) /\ cursor.position >= 1
                        /\ cursor.current <= e2.nextItem
                        /\ cursor.current # NoId =>
                             (cursor.removed <=> cursor.current \notin Ids(Items(e2, cursor.list)))
      BY <2>10 DEF CursorOK
    <3>1. Playing(e)
      <4>1. CASE e.cursor.list = id
        <5>1. e.cursor.list # NoId
          BY <2>1, <4>1 DEF NoId, EngineOK, Storage
        <5>2. QED
          BY <5>1 DEF Playing, NoCursor
      <4>2. CASE e.cursor.list # id
        BY <2>7, <2>10, <4>2 DEF Playing
      <4>3. QED
        BY <4>1, <4>2
    <3>2. /\ Stored(e, e.cursor.list) /\ e.cursor.position >= 1
          /\ e.cursor.current <= e.nextItem
          /\ e.cursor.current # NoId =>
               (e.cursor.removed <=> e.cursor.current \notin Ids(Items(e, e.cursor.list)))
      BY <3>1 DEF EngineOK, CursorOK
    <3>3. Ids(Items(e2, id)) = Ids(Items(e, id)) \ {item}
      BY <2>1, <2>3, <2>10, <2>14 DEF Items
    <3>4. e.cursor.list # id => Items(e2, e.cursor.list) = Items(e, e.cursor.list)
      BY <2>14, <3>2 DEF Items, Stored
    <3>5. Stored(e2, cursor.list) /\ cursor.current <= e2.nextItem
      BY <2>7, <2>10, <2>14, <3>2 DEF Stored
    <3>6. CASE e.cursor.list = id /\ e.cursor.current = item
      BY <2>2, <2>7, <3>3, <3>5, <3>6
    <3>7. CASE ~(e.cursor.list = id /\ e.cursor.current = item)
      BY <2>7, <3>2, <3>3, <3>4, <3>5, <3>7
    <3>8. QED
      BY <3>6, <3>7
  <2>17. QED
    BY <2>10, <2>13, <2>15, <2>16 DEF Sound, EngineOK, e2
<1>3. QED
  BY <1>1, <1>2

(* A save acknowledges a revision that was serialized. *)
LEMMA SavedAdvances ==
  ASSUME NEW e, EngineOK(e), NEW id, NEW revision \in Nat
  PROVE  LET e2 == MarkRevisionSaved(e, id, revision)
         IN  /\ EngineOK(e2) /\ Advances(e, e2) /\ DOMAIN e2.lists = DOMAIN e.lists
             /\ \A o \in DOMAIN e.lists :
                  /\ e2.lists[o].name = e.lists[o].name /\ e2.lists[o].items = e.lists[o].items
                  /\ e2.lists[o].content = e.lists[o].content
                  /\ e2.lists[o].saved =
                       IF o = id /\ e.lists[o].saved <= revision /\ revision <= e.lists[o].content
                       THEN revision ELSE e.lists[o].saved
<1> DEFINE e2 == MarkRevisionSaved(e, id, revision)
           l  == e.lists[id]
           l2 == [l EXCEPT !.saved = IF revision > @ THEN revision ELSE @]
           lists == [e.lists EXCEPT ![id] = l2]
<1>1. \A o \in DOMAIN e.lists : e.lists[o] \in List /\ e.lists[o].saved <= e.lists[o].content
  BY DEF EngineOK, Storage
<1>2. CASE ~Stored(e, id) \/ revision > l.content
  <2>1. e2 = e
    BY <1>2 DEF MarkRevisionSaved
  <2>2. EngineOK(e2) /\ Advances(e, e2)
    BY <2>1, NoChange DEF Sound
  <2>3. \A o \in DOMAIN e.lists : o = id => ~(revision <= e.lists[o].content)
    BY <1>1, <1>2 DEF Stored, List
  <2>4. QED
    BY <2>1, <2>2, <2>3
<1>3. CASE ~(~Stored(e, id) \/ revision > l.content)
  <2>1. /\ l \in List /\ l.content \in Nat /\ l.structure \in Nat /\ l.saved \in Nat
        /\ l.saved <= l.content /\ revision <= l.content /\ e.nextItem \in Nat
        /\ Distinct(l.items) /\ id \in DOMAIN e.lists /\ Items(e, id) = l.items
        /\ l.items \in Seq(Item)
    BY <1>3 DEF EngineOK, Storage, Stored, List, Shaped, Items
  <2>2. e2 = [e EXCEPT !.lists = lists]
    BY <1>3 DEF MarkRevisionSaved
  <2>3. /\ l2 \in List /\ l2.name = l.name /\ l2.items = l.items /\ l2.content = l.content
        /\ l2.structure = l.structure
        /\ l2.saved = IF l.saved <= revision /\ revision <= l.content THEN revision ELSE l.saved
    BY <2>1 DEF List
  <2> HIDE DEF l2, lists, e2
  <2>4. /\ Shaped(e2) /\ e2.lists = lists /\ e2.nextList = e.nextList
        /\ e2.nextItem = e.nextItem /\ e2.cursor = e.cursor /\ e2.revision = e.revision
    BY <2>2, SetLists DEF EngineOK
  <2> HIDE DEF l
  <2>5. Edited(l, l2) /\ l2.saved <= l2.content
    BY <2>1, <2>3 DEF Edited, Ext!IsPrefix
  <2>6. Replaces(e, e2, id, l2)
    BY <2>1, <2>3, <2>4, <2>5 DEF Replaces, l, lists
  <2>7. EngineOK(e2) /\ Advances(e, e2)
    BY <1>3, <2>1, <2>3, <2>4, <2>6, ReplaceKeepsCursor
  <2>8. /\ \A o \in DOMAIN e.lists : o # id => e2.lists[o] = e.lists[o]
        /\ e2.lists[id] = l2 /\ DOMAIN e2.lists = DOMAIN e.lists
    BY <2>1, <2>4 DEF EngineOK, Storage, lists
  <2>9. QED
    BY <2>3, <2>7, <2>8 DEF e2, l
<1>4. QED
  BY <1>2, <1>3

(* A new playlist: created empty, or loaded with items of its own. *)
LEMMA AddedSound ==
  ASSUME NEW e, EngineOK(e), NEW name \in Titles, NEW items \in Seq(Item), NEW n \in Nat,
         n >= e.nextItem, Distinct(items), Ids(items) \subseteq (e.nextItem + 1)..n,
         NEW e2, Shaped(e2), e2.nextList = e.nextList + 1, e2.nextItem = n,
         e2.revision = e.revision + 1, e2.cursor = e.cursor,
         e2.lists = [l \in DOMAIN e.lists \cup {e.nextList + 1} |->
                       IF l = e.nextList + 1 THEN NewList(name, items) ELSE e.lists[l]]
  PROVE  Sound(e, e2)
<1> DEFINE id == e.nextList + 1
           l2 == NewList(name, items)
<1>1. /\ l2 \in List /\ l2.items = items /\ l2.saved = 0 /\ l2.content = 0
  BY DEF NewList, List
<1>2. /\ e.nextList \in Nat /\ e.nextItem \in Nat /\ e.revision \in Nat
      /\ DOMAIN e.lists \subseteq 1..e.nextList
      /\ \A o \in DOMAIN e.lists : e.lists[o] \in List
  BY DEF EngineOK, Shaped, Storage
<1>3. id \in 1..e2.nextList /\ id \notin DOMAIN e.lists /\ id > e.nextList
  BY <1>2
<1> HIDE DEF l2
<1>4. /\ DOMAIN e2.lists = DOMAIN e.lists \cup {id} /\ e2.lists[id] = l2
      /\ \A o \in DOMAIN e.lists : e2.lists[o] = e.lists[o]
  BY <1>3 DEF l2
<1>5. Storage(e2)
  <2>1. e2.lists \in [DOMAIN e2.lists -> List]
    <3>1. e2.lists = [o \in DOMAIN e2.lists |-> e2.lists[o]]
      BY <1>4
    <3>2. \A o \in DOMAIN e2.lists : e2.lists[o] \in List
      BY <1>1, <1>2, <1>4
    <3>3. QED
      BY <3>1, <3>2
  <2>2. DOMAIN e2.lists \subseteq 1..e2.nextList
    BY <1>2, <1>3, <1>4
  <2>3. 1..e.nextItem \subseteq 1..n /\ (e.nextItem + 1)..n \subseteq 1..n
        /\ (1..e.nextItem) \cap ((e.nextItem + 1)..n) = {}
    BY <1>2
  <2>4. Items(e2, id) = items /\ \A o \in DOMAIN e.lists : Items(e2, o) = Items(e, o)
    BY <1>1, <1>4 DEF Items
  <2>5. ASSUME NEW o \in DOMAIN e.lists
        PROVE  /\ Distinct(Items(e2, o)) /\ Ids(Items(e2, o)) \subseteq 1..e.nextItem
               /\ e2.lists[o].saved <= e2.lists[o].content
    BY <1>4, <2>4 DEF EngineOK, Storage
  <2>6. ASSUME NEW o \in DOMAIN e2.lists
        PROVE  /\ Distinct(Items(e2, o)) /\ Ids(Items(e2, o)) \subseteq 1..n
               /\ e2.lists[o].saved <= e2.lists[o].content
    <3>1. CASE o = id
      BY <1>1, <1>4, <2>3, <2>4, <3>1
    <3>2. CASE o \in DOMAIN e.lists
      BY <2>3, <2>5, <3>2
    <3>3. QED
      BY <1>4, <3>1, <3>2
  <2>7. \A o \in DOMAIN e.lists : Ids(Items(e2, id)) \cap Ids(Items(e2, o)) = {}
    BY <2>3, <2>4, <2>5
  <2>8. \A l1, l3 \in DOMAIN e.lists :
           l1 # l3 => Ids(Items(e2, l1)) \cap Ids(Items(e2, l3)) = {}
    BY <2>4 DEF EngineOK, Storage
  <2>9. \A l1, l3 \in DOMAIN e2.lists :
           l1 # l3 => Ids(Items(e2, l1)) \cap Ids(Items(e2, l3)) = {}
    BY <1>4, <2>7, <2>8
  <2>10. QED
    BY <2>1, <2>2, <2>6, <2>9 DEF Storage
<1>6. CursorOK(e2)
  <2>1. ASSUME Stored(e, e.cursor.list)
        PROVE  Stored(e2, e.cursor.list) /\ Items(e2, e.cursor.list) = Items(e, e.cursor.list)
    BY <1>4, <2>1 DEF Stored, Items
  <2>2. e.cursor.current \in Nat
    BY DEF EngineOK, Shaped, Cursor
  <2>3. e.cursor.current <= e.nextItem => e.cursor.current <= e2.nextItem
    BY <1>2, <2>2
  <2>4. QED
    BY <2>1, <2>3 DEF EngineOK, CursorOK, Playing
<1>7. \A l \in List : Edited(l, l) /\ KeepsSaved(l, l)
  BY DEF Edited, KeepsSaved, List, Ext!IsPrefix
<1>8. Advances(e, e2) /\ Unacknowledged(e, e2)
  BY <1>2, <1>3, <1>4, <1>7 DEF Advances, Unacknowledged
<1>9. QED
  BY <1>5, <1>6, <1>8 DEF Sound, EngineOK

LEMMA CreateSound ==
  ASSUME NEW e, EngineOK(e), NEW name \in Titles
  PROVE  Sound(e, Create(e, name))
<1>1. CASE ~CanMint(e.nextList, 1)
  BY <1>1, NoChange DEF Create
<1>2. CASE CanMint(e.nextList, 1)
  <2> DEFINE id == e.nextList + 1
             lists == [l \in DOMAIN e.lists \cup {id} |->
                         IF l = id THEN NewList(name, <<>>) ELSE e.lists[l]]
             e0 == [e EXCEPT !.nextList = id]
             e1 == [e0 EXCEPT !.lists = lists]
             e2 == Create(e, name)
  <2>1. id \in Nat /\ e.nextItem \in Nat /\ Shaped(e)
    BY DEF EngineOK, Shaped
  <2>2. e0.lists = e.lists
    BY <2>1, SetNextList
  <2>3. e2 = Touched(e1)
    BY <1>2 DEF Create
  <2> HIDE DEF id, lists, e2
  <2>4. /\ Shaped(e0) /\ e0.nextList = id /\ e0.nextItem = e.nextItem
        /\ e0.cursor = e.cursor /\ e0.revision = e.revision
    BY <2>1, SetNextList
  <2> HIDE DEF e0
  <2>5. /\ Shaped(e1) /\ e1.lists = lists /\ e1.nextList = id /\ e1.nextItem = e.nextItem
        /\ e1.cursor = e.cursor /\ e1.revision = e.revision
    BY <2>4, SetLists
  <2> HIDE DEF e1
  <2>6. /\ Shaped(e2) /\ e2.lists = lists /\ e2.nextList = id /\ e2.nextItem = e.nextItem
        /\ e2.cursor = e.cursor /\ e2.revision = e.revision + 1
    BY <2>3, <2>5, TouchedFact
  <2>7. <<>> \in Seq(Item) /\ Distinct(<<>>) /\ Ids(<<>>) = {}
    BY DEF Distinct, Ids
  <2>8. e.nextItem >= e.nextItem /\ Ids(<<>>) \subseteq (e.nextItem + 1)..e.nextItem
    BY <2>1, <2>7
  <2>9. Sound(e, e2)
    BY <2>1, <2>6, <2>7, <2>8, AddedSound DEF id, lists
  <2>10. QED
    BY <2>9 DEF e2
<1>3. QED
  BY <1>1, <1>2

LEMMA LoadSound ==
  ASSUME NEW e, EngineOK(e), NEW doc \in Documents
  PROVE  Sound(e, FromBytes(e, doc))
<1> DEFINE ok == ~(\/ doc.version # 2
                   \/ ~CanMint(e.nextList, 1) \/ ~CanMint(e.nextItem, Len(doc.songs)))
<1>1. CASE ~ok
  BY <1>1, NoChange DEF FromBytes
<1>2. CASE ok
  <2> DEFINE id == e.nextList + 1
             n  == e.nextItem + Len(doc.songs)
             items == [i \in DOMAIN doc.songs |-> [id |-> e.nextItem + i, song |-> doc.songs[i]]]
             lists == [l \in DOMAIN e.lists \cup {id} |->
                         IF l = id THEN NewList(doc.name, items) ELSE e.lists[l]]
             e0 == [e EXCEPT !.nextList = id]
             e1 == [e0 EXCEPT !.nextItem = n]
             e2 == [e1 EXCEPT !.lists = lists]
             e3 == FromBytes(e, doc)
  <2>1. /\ doc.songs \in Seq(Songs) /\ Len(doc.songs) \in Nat
        /\ e.nextList \in Nat /\ e.nextItem \in Nat /\ Shaped(e) /\ doc.name \in Titles
    BY DocumentsAssumption DEF EngineOK, Shaped, Titles
  <2>2. id \in Nat /\ n \in Nat /\ n >= e.nextItem
    BY <2>1
  <2>3. /\ items \in Seq(Item) /\ DOMAIN items = 1..Len(doc.songs)
        /\ \A i \in DOMAIN items : items[i].id = e.nextItem + i
    <3>1. DOMAIN doc.songs = 1..Len(doc.songs)
      BY <2>1
    <3>2. \A i \in DOMAIN doc.songs : [id |-> e.nextItem + i, song |-> doc.songs[i]] \in Item
      BY <2>1, <3>1 DEF Item
    <3>3. items \in [1..Len(doc.songs) -> Item]
      BY <3>1, <3>2
    <3>4. QED
      BY <2>1, <3>1, <3>3
  <2>4. e3 = Touched(e2)
    <3>1. e0.lists = e.lists /\ e0.nextItem = e.nextItem /\ Shaped(e0)
      BY <2>1, <2>2, SetNextList
    <3>2. e1.lists = e.lists
      BY <2>2, <3>1, SetNextItem
    <3>3. e3 = Touched([e EXCEPT !.nextList = id, !.nextItem = n, !.lists = lists])
      BY <1>2 DEF FromBytes
    <3>4. QED
      BY <3>3
  <2> HIDE DEF id, n, items, lists, e3
  <2>5. /\ Shaped(e0) /\ e0.nextList = id /\ e0.nextItem = e.nextItem
        /\ e0.cursor = e.cursor /\ e0.revision = e.revision
    BY <2>1, <2>2, SetNextList
  <2> HIDE DEF e0
  <2>6. /\ Shaped(e1) /\ e1.nextList = id /\ e1.nextItem = n
        /\ e1.cursor = e.cursor /\ e1.revision = e.revision
    BY <2>2, <2>5, SetNextItem
  <2> HIDE DEF e1
  <2>7. /\ Shaped(e2) /\ e2.lists = lists /\ e2.nextList = id /\ e2.nextItem = n
        /\ e2.cursor = e.cursor /\ e2.revision = e.revision
    BY <2>6, SetLists
  <2> HIDE DEF e2
  <2>8. /\ Shaped(e3) /\ e3.lists = lists /\ e3.nextList = id /\ e3.nextItem = n
        /\ e3.cursor = e.cursor /\ e3.revision = e.revision + 1
    BY <2>4, <2>7, TouchedFact
  <2>9. Distinct(items)
    BY <2>1, <2>3 DEF Distinct
  <2>10. Ids(items) \subseteq (e.nextItem + 1)..n
    BY <2>1, <2>3 DEF Ids, n
  <2>11. Sound(e, e3)
    BY <2>1, <2>2, <2>3, <2>8, <2>9, <2>10, AddedSound DEF id, lists
  <2>12. QED
    BY <2>11 DEF e3
<1>3. QED
  BY <1>1, <1>2

(* A playlist that goes, the cursor not being on it. *)
LEMMA WithoutSound ==
  ASSUME NEW e, EngineOK(e), NEW id, Stored(e, id), Playing(e) => e.cursor.list # id
  PROVE  Sound(e, Without(e, id))
<1> DEFINE lists == Ext!Restrict(e.lists, DOMAIN e.lists \ {id})
           e1 == [e EXCEPT !.lists = lists]
           e2 == Without(e, id)
<1>1. /\ DOMAIN lists = DOMAIN e.lists \ {id}
      /\ \A o \in DOMAIN e.lists \ {id} : lists[o] = e.lists[o]
      /\ lists = [o \in DOMAIN lists |-> lists[o]]
  BY DEF Ext!Restrict
<1>2. e2 = Touched(e1)
  BY DEF Without
<1> HIDE DEF lists, e2
<1>3. /\ Shaped(e1) /\ e1.lists = lists /\ e1.nextList = e.nextList
      /\ e1.nextItem = e.nextItem /\ e1.cursor = e.cursor /\ e1.revision = e.revision
  BY SetLists DEF EngineOK
<1> HIDE DEF e1
<1>4. /\ Shaped(e2) /\ e2.lists = lists /\ e2.nextList = e.nextList
      /\ e2.nextItem = e.nextItem /\ e2.cursor = e.cursor /\ e2.revision = e.revision + 1
  BY <1>2, <1>3, TouchedFact
<1>5. \A o \in DOMAIN e2.lists :
        /\ o \in DOMAIN e.lists /\ e2.lists[o] = e.lists[o] /\ Items(e2, o) = Items(e, o)
  BY <1>1, <1>4 DEF Items
<1>6. Storage(e2)
  <2>1. e2.lists \in [DOMAIN e2.lists -> List] /\ DOMAIN e2.lists \subseteq 1..e2.nextList
    BY <1>1, <1>4, <1>5 DEF EngineOK, Storage
  <2>2. QED
    BY <1>4, <1>5, <2>1 DEF EngineOK, Storage
<1>7. CursorOK(e2)
  <2>1. ASSUME Playing(e)
        PROVE  Stored(e2, e.cursor.list) /\ Items(e2, e.cursor.list) = Items(e, e.cursor.list)
    BY <1>1, <1>4, <2>1 DEF Stored, Items, EngineOK, CursorOK
  <2>2. QED
    BY <1>4, <2>1 DEF EngineOK, CursorOK, Playing
<1>8. Advances(e, e2) /\ Unacknowledged(e, e2)
  <2>1. \A l \in List : Edited(l, l) /\ KeepsSaved(l, l)
    BY DEF Edited, KeepsSaved, List, Ext!IsPrefix
  <2>2. \A o \in DOMAIN e.lists : e.lists[o] \in List
    BY DEF EngineOK, Storage
  <2>3. e.revision \in Nat /\ e.nextList \in Nat
    BY DEF EngineOK, Shaped
  <2>4. QED
    BY <1>4, <1>5, <2>1, <2>2, <2>3 DEF Advances, Unacknowledged
<1>9. QED
  BY <1>4, <1>6, <1>7, <1>8 DEF Sound, EngineOK, e2

(* After a sound step, the cursor and the mode may be set as well. *)
LEMMA ThenCursor ==
  ASSUME NEW e, NEW e1, NEW e2, Sound(e, e1), Shaped(e2), CursorOK(e2),
         e2.lists = e1.lists, e2.nextList = e1.nextList, e2.nextItem = e1.nextItem,
         e2.revision = e1.revision
  PROVE  Sound(e, e2)
BY DEF Sound, EngineOK, Storage, Items, Advances, Unacknowledged

LEMMA NoCursorFact == NoCursor \in Cursor /\ NoCursor.list = NoId /\ NoCursor.current = NoId
BY DEF NoCursor, Cursor, Pending, NoId

LEMMA DeleteSound ==
  ASSUME NEW e, EngineOK(e), NEW id
  PROVE  Sound(e, Delete(e, id))
<1>1. CASE ~Stored(e, id)
  BY <1>1, NoChange DEF Delete
<1>2. CASE Stored(e, id)
  <2> DEFINE cursor == IF e.cursor.list = id THEN NoCursor ELSE e.cursor
             e1 == [e EXCEPT !.cursor = cursor]
  <2>1. Delete(e, id) = Without(e1, id)
    BY <1>2 DEF Delete
  <2>2. cursor \in Cursor /\ (cursor = NoCursor \/ (cursor = e.cursor /\ cursor.list # id))
    BY NoCursorFact DEF EngineOK, Shaped
  <2> HIDE DEF cursor
  <2>3. /\ Shaped(e1) /\ e1.lists = e.lists /\ e1.nextList = e.nextList
        /\ e1.nextItem = e.nextItem /\ e1.cursor = cursor /\ e1.revision = e.revision
    BY <2>2, SetCursor DEF EngineOK
  <2> HIDE DEF e1
  <2>4. CursorOK(e1)
    BY <2>2, <2>3 DEF EngineOK, CursorOK, Playing, Stored, Items
  <2>5. EngineOK(e1)
    BY <2>3, <2>4, NoChange, ThenCursor DEF Sound
  <2>6. Sound(e1, Without(e1, id))
    BY <1>2, <2>2, <2>3, <2>5, WithoutSound DEF Stored, Playing
  <2>7. QED
    BY <2>1, <2>3, <2>6 DEF Sound, Advances, Unacknowledged
<1>3. QED
  BY <1>1, <1>2

LEMMA StopSound ==
  ASSUME NEW e, EngineOK(e)
  PROVE  Sound(e, Stop(e)) /\ ~Playing(Stop(e))
<1> DEFINE e1 == [e EXCEPT !.cursor = NoCursor]
           id == e.cursor.list
<1>1. /\ Shaped(e1) /\ e1.lists = e.lists /\ e1.nextList = e.nextList
      /\ e1.nextItem = e.nextItem /\ e1.cursor = NoCursor /\ e1.revision = e.revision
  BY NoCursorFact, SetCursor DEF EngineOK
<1>2. Stop(e) = IF Stored(e, id) /\ e.lists[id].name = Anonymous THEN Without(e1, id) ELSE e1
  BY DEF Stop
<1> HIDE DEF e1
<1>3. CursorOK(e1) /\ ~Playing(e1)
  BY <1>1 DEF CursorOK, Playing
<1>4. Sound(e, e1) /\ EngineOK(e1)
  BY <1>1, <1>3, NoChange, ThenCursor DEF Sound
<1>5. ASSUME Stored(e, id)
      PROVE  Sound(e, Without(e1, id)) /\ ~Playing(Without(e1, id))
  <2>1. Sound(e1, Without(e1, id))
    BY <1>1, <1>3, <1>4, <1>5, WithoutSound DEF Stored
  <2>2. Sound(e, Without(e1, id))
    BY <1>1, <2>1 DEF Sound, Advances, Unacknowledged
  <2>3. Without(e1, id).cursor = e1.cursor
    <3> DEFINE e2 == [e1 EXCEPT !.lists = Ext!Restrict(e1.lists, DOMAIN e1.lists \ {id})]
    <3>1. Without(e1, id) = Touched(e2)
      BY DEF Without
    <3>2. Shaped(e2) /\ e2.cursor = e1.cursor
      BY <1>1, SetLists
    <3> HIDE DEF e2
    <3>3. QED
      BY <3>1, <3>2, TouchedFact
  <2>4. QED
    BY <1>3, <2>2, <2>3 DEF Playing
<1>6. QED
  BY <1>2, <1>3, <1>4, <1>5

(* Only the cursor is set, and it stays on its playlist and item. *)
LEMMA TurnedSound ==
  ASSUME NEW e, EngineOK(e), Playing(e), NEW cursor \in Cursor,
         cursor.list = e.cursor.list, cursor.current = e.cursor.current,
         cursor.position = e.cursor.position, cursor.removed = e.cursor.removed
  PROVE  LET e2 == [e EXCEPT !.cursor = cursor]
         IN  Sound(e, e2) /\ Playing(e2) /\ e2.lists = e.lists /\ e2.cursor = cursor
<1> DEFINE e2 == [e EXCEPT !.cursor = cursor]
<1>1. /\ Shaped(e2) /\ e2.lists = e.lists /\ e2.nextList = e.nextList
      /\ e2.nextItem = e.nextItem /\ e2.cursor = cursor /\ e2.revision = e.revision
  BY SetCursor DEF EngineOK
<1> HIDE DEF e2
<1>2. CursorOK(e2)
  BY <1>1 DEF EngineOK, CursorOK, Stored, Items
<1>3. Playing(e2)
  <2>1. cursor.list \in 1..e.nextList /\ e.nextList \in Nat
    BY DEF EngineOK, CursorOK, Storage, Stored, Shaped
  <2>2. QED
    BY <1>1, <2>1, NoCursorFact DEF Playing, NoId
<1>4. QED
  BY <1>1, <1>2, <1>3, NoChange, ThenCursor DEF e2

LEMMA AdvanceSound ==
  ASSUME NEW e, EngineOK(e), Playing(e)
  PROVE  Sound(e, Advance(e)) /\ Playing(Advance(e))
<1> DEFINE c == e.cursor
           cursor == [[c EXCEPT !.failures = 0] EXCEPT !.pending = "Forward"]
<1>1. /\ cursor \in Cursor /\ cursor.list = c.list /\ cursor.current = c.current
      /\ cursor.position = c.position /\ cursor.removed = c.removed
  BY DEF EngineOK, Shaped, Cursor, Pending
<1>2. Advance(e) = [e EXCEPT !.cursor = cursor]
  BY DEF Advance, EngineOK, Shaped
<1> HIDE DEF cursor
<1>3. QED
  BY <1>1, <1>2, TurnedSound

LEMMA PreviousSound ==
  ASSUME NEW e, EngineOK(e)
  PROVE  Sound(e, Previous(e))
<1> DEFINE c == e.cursor
           cursor == [[c EXCEPT !.failures = 0] EXCEPT !.pending = "Backward"]
           turns == Playing(e) /\ e.cursor.pending = "None" /\ PreviousPosition(e) > 0
<1>1. /\ cursor \in Cursor /\ cursor.list = c.list /\ cursor.current = c.current
      /\ cursor.position = c.position /\ cursor.removed = c.removed
  BY DEF EngineOK, Shaped, Cursor, Pending
<1>2. turns => Previous(e) = [e EXCEPT !.cursor = cursor]
  BY DEF Previous, EngineOK, Shaped
<1>3. ~turns => Previous(e) = e
  BY DEF Previous
<1> HIDE DEF cursor
<1>4. Playing(e) => Sound(e, [e EXCEPT !.cursor = cursor])
  BY <1>1, TurnedSound
<1>5. QED
  BY <1>2, <1>3, <1>4, NoChange

LEMMA ModeSound ==
  ASSUME NEW e, EngineOK(e), NEW mode \in {Sequential, Loop}
  PROVE  Sound(e, SetMode(e, mode))
<1> DEFINE e2 == SetMode(e, mode)
<1>1. /\ Shaped(e2) /\ e2.lists = e.lists /\ e2.nextList = e.nextList
      /\ e2.nextItem = e.nextItem /\ e2.cursor = e.cursor /\ e2.revision = e.revision
  BY DEF SetMode, EngineOK, Shaped
<1> HIDE DEF e2
<1>2. CursorOK(e2)
  BY <1>1 DEF EngineOK, CursorOK, Playing, Stored, Items
<1>3. Sound(e, e2)
  BY <1>1, <1>2, NoChange, ThenCursor
<1>4. QED
  BY <1>3 DEF e2

LEMMA NextItemSound ==
  ASSUME NEW e, EngineOK(e)
  PROVE  Sound(e, NextItem(e)) /\ Sound(e, OnFinished(e))
BY AdvanceSound, NoChange DEF NextItem, OnFinished, AtRest

LEMMA FailedSound ==
  ASSUME NEW e, EngineOK(e)
  PROVE  Sound(e, OnFailed(e))
<1> DEFINE c == e.cursor
           counted == [c EXCEPT !.failures = @ + 1]
           turned == [counted EXCEPT !.pending = "Forward"]
           failed == [e EXCEPT !.cursor = counted]
           ends == e.mode = Loop /\ failed.cursor.failures >= Len(Items(e, e.cursor.list))
<1>1. CASE ~AtRest(e)
  BY <1>1, NoChange DEF OnFailed
<1>2. CASE AtRest(e) /\ e.cursor.removed
  BY <1>2, AdvanceSound DEF OnFailed, AtRest
<1>3. CASE AtRest(e) /\ ~e.cursor.removed
  <2>1. /\ counted \in Cursor /\ counted.list = c.list /\ counted.current = c.current
        /\ counted.position = c.position /\ counted.removed = c.removed
        /\ turned \in Cursor /\ turned.list = c.list /\ turned.current = c.current
        /\ turned.position = c.position /\ turned.removed = c.removed
    <3>1. c \in Cursor
      BY DEF EngineOK, Shaped
    <3>2. /\ counted \in Cursor /\ counted.list = c.list /\ counted.current = c.current
          /\ counted.position = c.position /\ counted.removed = c.removed
      BY <3>1 DEF Cursor
    <3> HIDE DEF counted
    <3>3. QED
      BY <3>2 DEF Cursor, Pending
  <2>2. Sound(e, failed) /\ Sound(e, [e EXCEPT !.cursor = turned])
    BY <1>3, <2>1, TurnedSound DEF AtRest
  <2>3. [failed EXCEPT !.cursor.pending = "Forward"] = [e EXCEPT !.cursor = turned]
    BY DEF EngineOK, Shaped
  <2>4. Sound(e, Stop(failed))
    <3>1. Sound(failed, Stop(failed))
      BY <2>2, StopSound DEF Sound
    <3>2. /\ failed.lists = e.lists /\ failed.nextList = e.nextList
          /\ failed.revision = e.revision
      BY <2>1, SetCursor DEF EngineOK
    <3> HIDE DEF failed
    <3>3. QED
      BY <3>1, <3>2 DEF Sound, Advances, Unacknowledged
  <2>5. OnFailed(e) = IF ends THEN Stop(failed) ELSE [failed EXCEPT !.cursor.pending = "Forward"]
    BY <1>3 DEF OnFailed
  <2> HIDE DEF failed, turned, counted, ends
  <2>6. QED
    BY <2>2, <2>3, <2>4, <2>5
<1>4. QED
  BY <1>1, <1>2, <1>3

LEMMA StartSound ==
  ASSUME NEW e, EngineOK(e), NEW id, NEW from
  PROVE  Sound(e, Start(e, id, from))
<1> DEFINE e1 == Stop(e)
           at == IF from = NoId THEN 1 ELSE IndexOf(Items(e1, id), from)
           cursor == [NoCursor EXCEPT !.list = id, !.pending = "Start", !.position = at]
           e2 == [e1 EXCEPT !.mode = Sequential, !.cursor = cursor]
           refused == \/ ~Stored(e1, id) \/ Items(e1, id) = <<>>
                      \/ from # NoId /\ IndexOf(Items(e1, id), from) = 0
<1>1. Sound(e, e1) /\ EngineOK(e1)
  BY StopSound DEF Sound
<1>2. Start(e, id, from) = IF refused THEN e1 ELSE e2
  BY DEF Start
<1> HIDE DEF e1
<1>3. ASSUME ~refused
      PROVE  Sound(e, e2)
  <2>1. id \in DOMAIN e1.lists /\ id \in Nat /\ Items(e1, id) \in Seq(Item)
    BY <1>1, <1>3 DEF EngineOK, Storage, Stored, List, Items, Shaped
  <2>2. at \in Nat /\ at >= 1
    <3>1. IndexOf(Items(e1, id), from) \in Nat
      BY <2>1, IndexFact
    <3>2. QED
      BY <1>3, <3>1
  <2> HIDE DEF at
  <2>3. /\ cursor \in Cursor /\ cursor.list = id /\ cursor.position = at
        /\ cursor.current = NoId
    BY <2>1, <2>2 DEF NoCursor, Cursor, Pending, NoId
  <2> HIDE DEF cursor
  <2>4. /\ Shaped(e2) /\ e2.lists = e1.lists /\ e2.nextList = e1.nextList
        /\ e2.nextItem = e1.nextItem /\ e2.cursor = cursor /\ e2.revision = e1.revision
    <3>1. [e1 EXCEPT !.mode = Sequential] = SetMode(e1, Sequential)
      BY DEF SetMode
    <3> DEFINE e3 == [e1 EXCEPT !.mode = Sequential]
    <3>2. /\ Shaped(e3) /\ e3.lists = e1.lists /\ e3.nextList = e1.nextList
          /\ e3.nextItem = e1.nextItem /\ e3.revision = e1.revision
      BY <1>1 DEF EngineOK, Shaped
    <3>3. e2 = [e3 EXCEPT !.cursor = cursor]
      OBVIOUS
    <3> HIDE DEF e3
    <3>4. QED
      BY <2>3, <3>2, <3>3, SetCursor
  <2> HIDE DEF e2
  <2>5. CursorOK(e2)
    <3>1. e1.nextItem \in Nat /\ NoId <= e1.nextItem
      BY <1>1 DEF EngineOK, Shaped, NoId
    <3>2. QED
      BY <2>1, <2>2, <2>3, <2>4, <3>1 DEF CursorOK, Stored
  <2>6. QED
    BY <1>1, <2>4, <2>5, ThenCursor
<1>4. QED
  BY <1>1, <1>2, <1>3

(* Where a poll looks: nowhere, or at a place counted from 1. *)
LEMMA TargetFact ==
  ASSUME NEW e, EngineOK(e), CanPoll(e)
  PROVE  TargetPosition(e) \in Nat
<1> DEFINE items == Items(e, e.cursor.list)
           here  == IndexOf(items, e.cursor.current)
<1>1. /\ e.cursor.position \in Nat /\ e.cursor.position >= 1
      /\ e.cursor.pending \in Pending \ {"None"} /\ items \in Seq(Item)
  <2>1. e.cursor \in Cursor /\ e.cursor.position >= 1 /\ Stored(e, e.cursor.list)
    BY DEF EngineOK, Shaped, CursorOK, CanPoll
  <2>2. QED
    BY <2>1 DEF Cursor, CanPoll, EngineOK, Storage, Stored, Items, List
<1>2. here \in 0..Len(items) /\ Len(items) \in Nat
  BY <1>1, IndexFact
<1>3. ForwardPosition(e) \in Nat
  BY <1>1, <1>2 DEF ForwardPosition
<1>4. PreviousPosition(e) \in Nat
  BY <1>1, <1>2 DEF PreviousPosition
<1>5. QED
  BY <1>1, <1>3, <1>4 DEF TargetPosition, Pending

LEMMA PollSound ==
  ASSUME NEW e, EngineOK(e), CanPoll(e), ~PollPanics(e)
  PROVE  Sound(e, Poll(e))
<1> DEFINE target == TargetPosition(e)
           c      == e.cursor
           items  == Items(e, c.list)
           item   == items[target]
           cursor == [c EXCEPT !.pending = "None", !.current = item.id,
                               !.position = target, !.removed = FALSE]
           e2     == [e EXCEPT !.cursor = cursor]
<1>1. CASE target = 0
  BY <1>1, StopSound DEF Poll
<1>2. CASE target # 0
  <2>1. /\ c \in Cursor /\ Stored(e, c.list) /\ items \in Seq(Item)
        /\ Ids(items) \subseteq 1..e.nextItem /\ e.nextItem \in Nat /\ c.list # NoId
    <3>1. c \in Cursor /\ Stored(e, c.list) /\ e.nextItem \in Nat /\ e.nextList \in Nat
      BY DEF EngineOK, Shaped, CursorOK, CanPoll
    <3>2. QED
      BY <3>1 DEF EngineOK, Storage, Stored, Items, List, NoId
  <2>2. target \in 1..Len(items)
    BY <1>2, <2>1, TargetFact DEF PollPanics
  <2>3. Poll(e) = e2
    BY <1>2 DEF Poll, PolledItem, EngineOK, Shaped
  <2> HIDE DEF target
  <2>4. item.id \in Ids(items) /\ item.id \in Nat /\ item.id <= e.nextItem
    <3>1. item.id \in Ids(items)
      BY <2>1, <2>2 DEF Ids
    <3>2. QED
      BY <2>1, <3>1
  <2> HIDE DEF item
  <2>5. /\ cursor \in Cursor /\ cursor.list = c.list /\ cursor.position = target
        /\ cursor.current = item.id /\ cursor.removed = FALSE
    <3> DEFINE c1 == [c EXCEPT !.pending = "None"]
               c2 == [c1 EXCEPT !.current = item.id]
               c3 == [c2 EXCEPT !.position = target]
    <3>1. c1 \in Cursor /\ c1.list = c.list
      BY <2>1 DEF Cursor, Pending
    <3>2. cursor = [c3 EXCEPT !.removed = FALSE]
      OBVIOUS
    <3> HIDE DEF c1
    <3>3. c2 \in Cursor /\ c2.list = c.list /\ c2.current = item.id
      BY <2>4, <3>1 DEF Cursor
    <3> HIDE DEF c2
    <3>4. target \in Nat
      BY <2>1, <2>2
    <3>5. /\ c3 \in Cursor /\ c3.list = c.list /\ c3.current = item.id /\ c3.position = target
      BY <3>3, <3>4 DEF Cursor
    <3> HIDE DEF c3, cursor
    <3>6. QED
      BY <3>2, <3>5 DEF Cursor
  <2> HIDE DEF cursor
  <2>6. /\ Shaped(e2) /\ e2.lists = e.lists /\ e2.nextList = e.nextList
        /\ e2.nextItem = e.nextItem /\ e2.cursor = cursor /\ e2.revision = e.revision
    BY <2>5, SetCursor DEF EngineOK
  <2> HIDE DEF e2
  <2>7. CursorOK(e2)
    <3>1. Stored(e2, c.list) /\ Items(e2, c.list) = items /\ target >= 1
      BY <2>1, <2>2, <2>6 DEF Stored, Items
    <3> HIDE DEF items
    <3>2. QED
      BY <2>4, <2>5, <2>6, <3>1 DEF CursorOK
  <2>8. QED
    BY <2>3, <2>6, <2>7, NoChange, ThenCursor
<1>3. QED
  BY <1>1, <1>2

(* Playback mints no playlist. *)
LEMMA PlaybackMints ==
  ASSUME NEW e, EngineOK(e)
  PROVE  /\ Poll(e).nextList = e.nextList /\ OnFinished(e).nextList = e.nextList
         /\ OnFailed(e).nextList = e.nextList
<1>1. ASSUME NEW e1, Shaped(e1)
      PROVE  Stop(e1).nextList = e1.nextList
  BY <1>1 DEF Stop, Without, Touched, Shaped
<1>2. Poll(e).nextList = e.nextList
  BY <1>1 DEF Poll, EngineOK, Shaped
<1>3. OnFinished(e).nextList = e.nextList
  BY DEF OnFinished, Advance, EngineOK, Shaped
<1>4. OnFailed(e).nextList = e.nextList
  <2> DEFINE failed == [e EXCEPT !.cursor.failures = @ + 1]
  <2>1. Stop(failed).nextList = e.nextList
    BY DEF Stop, Without, Touched, EngineOK, Shaped
  <2>2. QED
    BY <2>1 DEF OnFailed, Advance, EngineOK, Shaped
<1>5. QED
  BY <1>2, <1>3, <1>4

-----------------------------------------------------------------------------
(* The invariant. *)

(* A save under way is of a revision the playlist has had, and if it still *)
(* has it, of what the playlist is.                                        *)
SavesOK ==
  \A save \in saves :
    /\ save.revision \in Nat /\ save.list \in 1..engine.nextList
    /\ Stored(engine, save.list) =>
         /\ save.revision <= engine.lists[save.list].content
         /\ save.revision = engine.lists[save.list].content =>
              save.contents = Contents(engine, save.list)

(* The newest write is of a revision the playlist has had.  If the         *)
(* playlist is clean it is of what the playlist is, and so is any save     *)
(* under way that would become the newest.                                 *)
WritesOK ==
  \A id \in Lists :
    /\ stored[id].newest.revision \in Nat
    /\ stored[id].newest.revision <= engine.lists[id].content
    /\ stored[id].last.revision = stored[id].newest.revision => stored[id].last = stored[id].newest
    /\ ~IsDirty(engine.lists[id]) =>
         /\ Contents(engine, id) = stored[id].newest.contents
         /\ \A save \in saves :
              save.list = id /\ save.revision >= stored[id].newest.revision =>
                save.contents = Contents(engine, id)

PlaylistInv ==
  /\ EngineOK(engine)
  /\ stored = [id \in DOMAIN engine.lists |-> stored[id]]
  /\ SavesOK /\ WritesOK

LEMMA ContentsFact ==
  ASSUME NEW e, NEW e2, NEW id, e2.lists[id].name = e.lists[id].name,
         e2.lists[id].items = e.lists[id].items
  PROVE  Contents(e2, id) = Contents(e, id)
BY DEF Contents, ToBytes, Items

(* The host's calls, and the turns of its loop. *)
LEMMA CallStep ==
  ASSUME PlaylistInv, Sound(engine, engine'), saves' = saves,
         stored' = [id \in DOMAIN engine'.lists |->
                      IF id \in DOMAIN stored THEN stored[id] ELSE Began(engine', id)]
  PROVE  PlaylistInv'
<1>1. /\ EngineOK(engine) /\ EngineOK(engine') /\ Advances(engine, engine')
      /\ Unacknowledged(engine, engine') /\ DOMAIN stored = DOMAIN engine.lists
  BY DEF PlaylistInv, Sound
<1>2. ASSUME NEW id \in DOMAIN engine.lists \cap DOMAIN engine'.lists
      PROVE  LET l  == engine.lists[id]
                 l2 == engine'.lists[id]
             IN  /\ l.content \in Nat /\ l2.content \in Nat /\ l.saved \in Nat /\ l2.saved \in Nat
                 /\ l.saved <= l.content /\ l2.content >= l.content /\ KeepsSaved(l, l2)
                 /\ l2.content = l.content => Contents(engine', id) = Contents(engine, id)
                 /\ l2.saved # l.saved => Contents(engine', id) = Contents(engine, id)
  <2>1. engine.lists[id] \in List /\ engine'.lists[id] \in List
        /\ engine.lists[id].saved <= engine.lists[id].content
    BY <1>1 DEF EngineOK, Storage
  <2>2. Edited(engine.lists[id], engine'.lists[id]) /\ KeepsSaved(engine.lists[id], engine'.lists[id])
    BY <1>1 DEF Advances, Unacknowledged
  <2>3. QED
    BY <2>1, <2>2, ContentsFact DEF Edited, KeepsSaved, List
<1>3. WritesOK'
  <2> SUFFICES ASSUME NEW id \in DOMAIN engine'.lists
               PROVE  LET w == stored'[id]
                      IN  /\ w.newest.revision \in Nat
                          /\ w.newest.revision <= engine'.lists[id].content
                          /\ w.last.revision = w.newest.revision => w.last = w.newest
                          /\ ~IsDirty(engine'.lists[id]) =>
                               /\ Contents(engine', id) = w.newest.contents
                               /\ \A save \in saves :
                                    save.list = id /\ save.revision >= w.newest.revision =>
                                      save.contents = Contents(engine', id)
    BY DEF WritesOK, Lists
  <2>1. CASE id \notin DOMAIN engine.lists
    <3>1. stored'[id] = Began(engine', id) /\ engine'.lists[id].content \in Nat
      BY <1>1, <2>1 DEF EngineOK, Storage, List
    <3>2. \A save \in saves : save.list # id
      <4>1. id > engine.nextList /\ engine.nextList \in Nat
        BY <1>1, <2>1 DEF Advances, EngineOK, Shaped
      <4>2. QED
        BY <4>1 DEF PlaylistInv, SavesOK
    <3>3. QED
      BY <3>1, <3>2 DEF Began, Write
  <2>2. CASE id \in DOMAIN engine.lists
    <3>1. stored'[id] = stored[id]
      BY <1>1, <2>2
    <3>2. ~IsDirty(engine'.lists[id]) =>
            ~IsDirty(engine.lists[id]) /\ Contents(engine', id) = Contents(engine, id)
      BY <1>2, <2>2 DEF IsDirty, KeepsSaved
    <3>3. /\ stored[id].newest.revision \in Nat
          /\ stored[id].newest.revision <= engine.lists[id].content
          /\ stored[id].last.revision = stored[id].newest.revision => stored[id].last = stored[id].newest
          /\ ~IsDirty(engine.lists[id]) =>
               /\ Contents(engine, id) = stored[id].newest.contents
               /\ \A save \in saves :
                    save.list = id /\ save.revision >= stored[id].newest.revision =>
                      save.contents = Contents(engine, id)
      BY <2>2 DEF PlaylistInv, WritesOK, Lists
    <3>4. stored[id].newest.revision <= engine'.lists[id].content
      BY <1>2, <2>2, <3>3
    <3>5. QED
      BY <3>1, <3>2, <3>3, <3>4
  <2>3. QED
    BY <2>1, <2>2
<1>4. SavesOK'
  <2> SUFFICES ASSUME NEW save \in saves
               PROVE  /\ save.revision \in Nat /\ save.list \in 1..engine'.nextList
                      /\ Stored(engine', save.list) =>
                           /\ save.revision <= engine'.lists[save.list].content
                           /\ save.revision = engine'.lists[save.list].content =>
                                save.contents = Contents(engine', save.list)
    BY DEF SavesOK
  <2> DEFINE id == save.list
  <2>1. /\ save.revision \in Nat /\ id \in 1..engine.nextList
        /\ Stored(engine, id) =>
             /\ save.revision <= engine.lists[id].content
             /\ save.revision = engine.lists[id].content => save.contents = Contents(engine, id)
    BY DEF PlaylistInv, SavesOK
  <2> HIDE DEF id
  <2>2. id \in 1..engine'.nextList
    BY <1>1, <2>1 DEF Advances, EngineOK, Shaped
  <2>3. ASSUME Stored(engine', id)
        PROVE  /\ save.revision <= engine'.lists[id].content
               /\ save.revision = engine'.lists[id].content => save.contents = Contents(engine', id)
    <3>1. id \in DOMAIN engine.lists
      <4>1. id \in DOMAIN engine'.lists /\ ~(id > engine.nextList)
        BY <1>1, <2>1, <2>3 DEF Stored, EngineOK, Shaped
      <4>2. QED
        BY <1>1, <4>1 DEF Advances
    <3>2. QED
      BY <1>2, <2>1, <2>3, <3>1 DEF Stored
  <2>4. QED
    BY <2>1, <2>2, <2>3 DEF id
<1>5. QED
  BY <1>1, <1>3, <1>4 DEF PlaylistInv

(* Every call of the host is sound. *)
LEMMA CallsSound ==
  ASSUME EngineOK(engine), Editing \/ Transport
  PROVE  \E e2 : Sound(engine, e2) /\ Becomes(e2)
<1>1. CASE Editing
  <2>1. Names \cup {Anonymous} \subseteq Titles
    BY DEF Titles
  <2>2. ASSUME NEW name \in Names \cup {Anonymous}, CreateList(name)
        PROVE  \E e2 : Sound(engine, e2) /\ Becomes(e2)
    BY <2>1, <2>2, CreateSound DEF CreateList
  <2>3. ASSUME NEW name \in Names \cup {Anonymous}, NEW id, RenameList(id, name)
        PROVE  \E e2 : Sound(engine, e2) /\ Becomes(e2)
    BY <2>1, <2>3, RenameSound DEF RenameList
  <2>4. ASSUME NEW id, DeleteList(id) \/ RefreshList(id)
        PROVE  \E e2 : Sound(engine, e2) /\ Becomes(e2)
    BY <2>4, DeleteSound, TouchSound DEF DeleteList, RefreshList
  <2>5. ASSUME NEW id, NEW s \in Songs, NEW i, AppendSong(id, s) \/ EditSong(id, i, s)
        PROVE  \E e2 : Sound(engine, e2) /\ Becomes(e2)
    BY <2>5, AppendSound, EditSound DEF AppendSong, EditSong
  <2>6. ASSUME NEW id, NEW i, NEW after, RemoveSong(id, i) \/ MoveSong(id, i, after)
        PROVE  \E e2 : Sound(engine, e2) /\ Becomes(e2)
    BY <2>6, RemoveSound, MoveSound DEF RemoveSong, MoveSong
  <2>7. ASSUME NEW doc \in Documents, LoadList(doc)
        PROVE  \E e2 : Sound(engine, e2) /\ Becomes(e2)
    BY <2>7, LoadSound DEF LoadList
  <2>8. QED
    BY <1>1, <2>2, <2>3, <2>4, <2>5, <2>6, <2>7 DEF Editing
<1>2. CASE Transport
  <2>1. ASSUME NEW id, NEW from, StartList(id, from)
        PROVE  \E e2 : Sound(engine, e2) /\ Becomes(e2)
    BY <2>1, StartSound DEF StartList
  <2>2. ASSUME NEW mode \in {Sequential, Loop}, ChooseMode(mode)
        PROVE  \E e2 : Sound(engine, e2) /\ Becomes(e2)
    BY <2>2, ModeSound DEF ChooseMode
  <2>3. ASSUME StopPlaying \/ SkipForward \/ SkipBack
        PROVE  \E e2 : Sound(engine, e2) /\ Becomes(e2)
    BY <2>3, StopSound, NextItemSound, PreviousSound DEF StopPlaying, SkipForward, SkipBack
  <2>4. QED
    BY <1>2, <2>1, <2>2, <2>3 DEF Transport
<1>3. QED
  BY <1>1, <1>2

LEMMA PlaylistInit == Init => PlaylistInv
<1> SUFFICES ASSUME Init PROVE PlaylistInv
  OBVIOUS
<1>1. PICK doc \in Documents : engine = FromBytes(NewEngine, doc)
  BY DEF Init
<1>2. EngineOK(NewEngine)
  <2>1. Shaped(NewEngine)
    BY NoCursorFact DEF NewEngine, Shaped
  <2>2. DOMAIN NewEngine.lists = {} /\ NewEngine.lists \in [{} -> List]
    BY DEF NewEngine
  <2>3. Storage(NewEngine)
    BY <2>2 DEF Storage
  <2>4. CursorOK(NewEngine)
    BY DEF CursorOK, Playing, NewEngine
  <2>5. QED
    BY <2>1, <2>3, <2>4 DEF EngineOK
<1>3. EngineOK(engine)
  BY <1>1, <1>2, LoadSound DEF Sound
<1>4. SavesOK
  BY DEF Init, SavesOK
<1>5. WritesOK
  <2>1. \A id \in Lists : engine.lists[id].content \in Nat
    BY <1>3 DEF EngineOK, Storage, List, Lists
  <2>2. saves = {} /\ \A id \in Lists : stored[id] = Began(engine, id)
    BY DEF Init, Lists
  <2>3. \A id \in Lists : /\ stored[id].newest.revision = engine.lists[id].content
                         /\ stored[id].newest.contents = Contents(engine, id)
                         /\ stored[id].last = stored[id].newest
    <3> SUFFICES ASSUME NEW id \in Lists
                 PROVE  /\ stored[id].newest.revision = engine.lists[id].content
                        /\ stored[id].newest.contents = Contents(engine, id)
                        /\ stored[id].last = stored[id].newest
      OBVIOUS
    <3>1. stored[id] = Began(engine, id)
      BY <2>2
    <3>2. QED
      BY <3>1 DEF Began, Write
  <2>4. QED
    BY <2>1, <2>2, <2>3 DEF WritesOK
<1>6. QED
  BY <1>3, <1>4, <1>5 DEF Init, PlaylistInv

LEMMA PlaylistStep ==
  ASSUME PlaylistInv, [Next]_vars
  PROVE  PlaylistInv' /\ Advances(engine, engine')
<1>1. EngineOK(engine) /\ DOMAIN stored = DOMAIN engine.lists
  BY DEF PlaylistInv
<1>2. CASE Editing \/ Transport
  <2>1. PICK e2 : Sound(engine, e2) /\ Becomes(e2)
    BY <1>1, <1>2, CallsSound
  <2>2. /\ engine' = e2 /\ saves' = saves
        /\ stored' = [id \in DOMAIN e2.lists |->
                        IF id \in DOMAIN stored THEN stored[id] ELSE Began(e2, id)]
    BY <2>1 DEF Becomes
  <2>3. QED
    BY <2>1, <2>2, CallStep DEF Sound
<1>3. CASE PollNext \/ SongEnds
  <2>1. /\ Sound(engine, engine') /\ engine'.nextList = engine.nextList /\ saves' = saves
        /\ stored' = [id \in DOMAIN engine'.lists |-> stored[id]]
    <3>1. CASE PollNext
      BY <1>1, <3>1, PollSound, PlaybackMints DEF PollNext
    <3>2. CASE SongEnds
      BY <1>1, <3>2, NextItemSound, FailedSound, PlaybackMints DEF SongEnds
    <3>3. QED
      BY <1>3, <3>1, <3>2
  <2>2. DOMAIN engine'.lists \subseteq DOMAIN engine.lists
    <3>1. ASSUME NEW id \in DOMAIN engine'.lists
          PROVE  ~(id > engine.nextList)
      BY <1>1, <2>1 DEF Sound, EngineOK, Storage, Shaped
    <3>2. QED
      BY <2>1, <3>1 DEF Sound, Advances
  <2>3. stored' = [id \in DOMAIN engine'.lists |->
                    IF id \in DOMAIN stored THEN stored[id] ELSE Began(engine', id)]
    BY <1>1, <2>1, <2>2
  <2>4. QED
    BY <2>1, <2>3, CallStep DEF Sound
<1>4. CASE Saving
  <2>1. CASE \E id \in Lists : BeginSave(id)
    <3>1. PICK id \in Lists : BeginSave(id)
      BY <2>1
    <3>2. /\ engine' = engine /\ stored' = stored
          /\ saves' = saves \cup {[list |-> id, revision |-> engine.lists[id].content,
                                   contents |-> Contents(engine, id)]}
      BY <3>1 DEF BeginSave
    <3>3. Advances(engine, engine')
      BY <1>1, <3>2, NoChange DEF Sound
    <3>4. /\ id \in 1..engine.nextList /\ Stored(engine, id)
          /\ engine.lists[id].content \in Nat
      BY <1>1 DEF Lists, Stored, EngineOK, Storage, List
    <3>5. SavesOK'
      BY <3>2, <3>4 DEF PlaylistInv, SavesOK
    <3>6. WritesOK'
      BY <3>2 DEF PlaylistInv, WritesOK, Lists
    <3>7. QED
      BY <3>2, <3>3, <3>5, <3>6 DEF PlaylistInv
  <2>2. CASE \E save \in saves : EndSave(save)
    <3>1. PICK save \in saves : EndSave(save)
      BY <2>2
    <3> DEFINE on == save.list
    <3>2. /\ save.revision \in Nat
          /\ Stored(engine, on) =>
               /\ save.revision <= engine.lists[on].content
               /\ save.revision = engine.lists[on].content => save.contents = Contents(engine, on)
      BY DEF PlaylistInv, SavesOK
    <3> DEFINE write == Write(save.revision, save.contents)
               Newer(id) == IF write.revision >= stored[id].newest.revision
                            THEN write ELSE stored[id].newest
    <3>3. /\ engine' = MarkRevisionSaved(engine, on, save.revision) /\ saves' = saves \ {save}
          /\ stored' = [id \in DOMAIN stored |-> IF id # on THEN stored[id]
                                                 ELSE [last |-> write, newest |-> Newer(id)]]
      BY <3>1 DEF EndSave
    <3> HIDE DEF on
    <3>4. /\ EngineOK(engine') /\ Advances(engine, engine')
          /\ DOMAIN engine'.lists = DOMAIN engine.lists
          /\ \A o \in DOMAIN engine.lists :
               /\ engine'.lists[o].name = engine.lists[o].name
               /\ engine'.lists[o].items = engine.lists[o].items
               /\ engine'.lists[o].content = engine.lists[o].content
               /\ engine'.lists[o].saved =
                    IF o = on /\ engine.lists[o].saved <= save.revision
                         /\ save.revision <= engine.lists[o].content
                    THEN save.revision ELSE engine.lists[o].saved
      BY <1>1, <3>2, <3>3, SavedAdvances
    <3>5. \A o \in DOMAIN engine.lists : Contents(engine', o) = Contents(engine, o)
      BY <3>4, ContentsFact
    <3>6. engine'.nextList >= engine.nextList /\ engine.nextList \in Nat /\ engine'.nextList \in Nat
      BY <1>1, <3>4 DEF Advances, EngineOK, Shaped
    <3>7. SavesOK'
      BY <3>3, <3>4, <3>5, <3>6 DEF PlaylistInv, SavesOK, Stored
    <3>8. stored' = [id \in DOMAIN engine'.lists |-> stored'[id]]
      BY <3>3, <3>4 DEF PlaylistInv
    <3>9. WritesOK'
      <4> SUFFICES ASSUME NEW o \in DOMAIN engine.lists
                   PROVE  LET w == stored'[o]
                          IN  /\ w.newest.revision \in Nat
                              /\ w.newest.revision <= engine'.lists[o].content
                              /\ w.last.revision = w.newest.revision => w.last = w.newest
                              /\ ~IsDirty(engine'.lists[o]) =>
                                   /\ Contents(engine', o) = w.newest.contents
                                   /\ \A s \in saves' :
                                        s.list = o /\ s.revision >= w.newest.revision =>
                                          s.contents = Contents(engine', o)
        BY <3>4 DEF WritesOK, Lists
      <4>1. /\ engine.lists[o].saved <= engine.lists[o].content /\ engine.lists[o].saved \in Nat
            /\ engine.lists[o].content \in Nat
            /\ engine'.lists[o].content = engine.lists[o].content
            /\ Contents(engine', o) = Contents(engine, o) /\ saves' \subseteq saves
        BY <1>1, <3>3, <3>4, <3>5 DEF EngineOK, Storage, List
      <4>2. /\ stored[o].newest.revision \in Nat
            /\ stored[o].newest.revision <= engine.lists[o].content
            /\ stored[o].last.revision = stored[o].newest.revision => stored[o].last = stored[o].newest
            /\ ~IsDirty(engine.lists[o]) =>
                 /\ Contents(engine, o) = stored[o].newest.contents
                 /\ \A s \in saves : s.list = o /\ s.revision >= stored[o].newest.revision =>
                                      s.contents = Contents(engine, o)
        BY DEF PlaylistInv, WritesOK, Lists
      <4>3. CASE o # on
        <5>1. stored'[o] = stored[o] /\ (~IsDirty(engine'.lists[o]) => ~IsDirty(engine.lists[o]))
          BY <1>1, <3>3, <3>4, <4>3 DEF IsDirty
        <5>2. QED
          BY <4>1, <4>2, <5>1
      <4>4. CASE o = on
        <5>1. /\ save.revision \in Nat /\ save.revision <= engine.lists[o].content
              /\ save.revision = engine.lists[o].content => save.contents = Contents(engine, o)
          BY <3>2, <4>4 DEF Stored
        <5>2. /\ write.revision = save.revision /\ write.contents = save.contents
              /\ stored'[o].last = write /\ stored'[o].newest = Newer(o)
          BY <1>1, <3>3, <4>4 DEF Write
        <5>3. /\ Newer(o).revision \in Nat /\ Newer(o).revision <= engine.lists[o].content
              /\ Newer(o).revision >= stored[o].newest.revision
              /\ Newer(o).revision >= save.revision
              /\ write.revision = Newer(o).revision => write = Newer(o)
          BY <4>2, <5>1, <5>2
        <5>4. ASSUME ~IsDirty(engine'.lists[o]), ~IsDirty(engine.lists[o])
              PROVE  /\ Contents(engine, o) = Newer(o).contents
                     /\ \A s \in saves : s.list = o /\ s.revision >= Newer(o).revision =>
                                          s.contents = Contents(engine, o)
          <6>1. save \in saves /\ save.list = o
            BY <4>4 DEF on
          <6>2. Contents(engine, o) = Newer(o).contents
            BY <4>2, <5>2, <5>4, <6>1
          <6>3. \A s \in saves : s.list = o => s.revision \in Nat
            BY DEF PlaylistInv, SavesOK
          <6>4. QED
            BY <4>2, <5>3, <5>4, <6>2, <6>3
        <5>5. ASSUME ~IsDirty(engine'.lists[o]), IsDirty(engine.lists[o])
              PROVE  /\ Contents(engine, o) = Newer(o).contents
                     /\ \A s \in saves : s.list = o /\ s.revision >= Newer(o).revision =>
                                          s.contents = Contents(engine, o)
          <6>1. save.revision = engine.lists[o].content
            BY <3>4, <4>1, <4>4, <5>1, <5>5 DEF IsDirty
          <6>2. Newer(o) = write
            BY <4>2, <5>2, <6>1
          <6>3. Stored(engine, o)
            BY <1>1 DEF Stored
          <6>4. \A s \in saves : s.list = o =>
                  /\ s.revision \in Nat /\ s.revision <= engine.lists[o].content
                  /\ s.revision = engine.lists[o].content => s.contents = Contents(engine, o)
            BY <6>3 DEF PlaylistInv, SavesOK
          <6>5. QED
            BY <4>1, <5>1, <5>2, <6>1, <6>2, <6>4
        <5> HIDE DEF write, Newer
        <5>6. QED
          BY <4>1, <5>2, <5>3, <5>4, <5>5
      <4>5. QED
        BY <4>3, <4>4
    <3>10. QED
      BY <3>4, <3>7, <3>8, <3>9 DEF PlaylistInv
  <2>3. QED
    BY <1>4, <2>1, <2>2 DEF Saving
<1>5. CASE PollPastEnd \/ UNCHANGED vars
  <2>1. UNCHANGED <<engine, saves, stored>>
    BY <1>5 DEF PollPastEnd, vars
  <2>2. Advances(engine, engine')
    BY <1>1, <2>1, NoChange DEF Sound
  <2>3. QED
    BY <2>1, <2>2 DEF PlaylistInv, SavesOK, WritesOK, Lists
<1>6. QED
  BY <1>2, <1>3, <1>4, <1>5 DEF Next

LEMMA PlaylistInvHolds == Spec => []PlaylistInv
<1>1. PlaylistInv /\ [Next]_vars => PlaylistInv'
  BY PlaylistStep
<1>2. QED
  BY <1>1, PlaylistInit, PTL DEF Spec

-----------------------------------------------------------------------------
(* The theorems. *)

(* No two items of any playlists ever go by one id, whatever is loaded,    *)
(* appended, moved or removed (from_bytes, append, mint).                  *)
THEOREM IdsAreUniqueHolds == Spec => []IdsAreUnique
<1>1. PlaylistInv => IdsAreUnique
  <2> SUFFICES ASSUME PlaylistInv PROVE IdsAreUnique
    OBVIOUS
  <2>1. \A l \in Lists : ItemsOf(l) = Ids(Items(engine, l))
    BY DEF ItemsOf, Ids, Items
  <2>2. \A l1, l2 \in Lists : l1 # l2 => ItemsOf(l1) \cap ItemsOf(l2) = {}
    BY <2>1 DEF PlaylistInv, EngineOK, Storage, Lists
  <2>3. ASSUME NEW l \in Lists
        PROVE  Cardinality(ItemsOf(l)) = Len(engine.lists[l].items)
               /\ ItemsOf(l) \subseteq 1..engine.nextItem
    <3> DEFINE items == Items(engine, l)
               n == Len(items)
               f == [i \in 1..n |-> items[i].id]
    <3>1. /\ items \in Seq(Item) /\ Distinct(items) /\ Ids(items) \subseteq 1..engine.nextItem
          /\ items = engine.lists[l].items
      BY DEF PlaylistInv, EngineOK, Storage, Lists, List, Items
    <3>2. n \in Nat /\ DOMAIN items = 1..n
      BY <3>1
    <3>3. f \in Bijection(1..n, Ids(items))
      BY <3>1, <3>2 DEF Bijection, Injection, Surjection, IsInjective, Distinct, Ids
    <3>4. IsFiniteSet(1..n) /\ Cardinality(1..n) = n
      <4> HIDE DEF n
      <4>1. n \in Nat /\ n \in Int /\ 1 \in Int
        BY <3>2
      <4>2. /\ IsFiniteSet(1..n)
            /\ Cardinality(1..n) = IF 1 > n THEN 0 ELSE n - 1 + 1
        BY <4>1, FS_Interval
      <4>3. QED
        BY <4>1, <4>2
    <3>5. Cardinality(Ids(items)) = n
      BY <3>3, <3>4, FS_Bijection DEF ExistsBijection
    <3>6. QED
      BY <2>1, <3>1, <3>5
  <2>4. QED
    BY <2>2, <2>3 DEF IdsAreUnique
<1>2. QED
  BY <1>1, PlaylistInvHolds, PTL

(* The cursor is on a stored playlist, and its item in it exactly when it  *)
(* is not marked removed, whatever edits come between two polls            *)
(* (remove_item, move_item, delete, poll).                                 *)
THEOREM CursorIsTrueHolds == Spec => []CursorIsTrue
<1>1. PlaylistInv => CursorIsTrue
  BY DEF PlaylistInv, EngineOK, CursorOK, CursorIsTrue, Ids, Items, ItemsOf
<1>2. QED
  BY <1>1, PlaylistInvHolds, PTL

(* A playlist that is not dirty has been written as it is, however many    *)
(* saves of it are under way and in whatever order they end, and storage   *)
(* holds it unless an older save ended after a newer one                   *)
(* (mark_revision_saved, is_dirty).                                        *)
THEOREM CleanIsStoredHolds == Spec => []CleanIsStored
<1>1. PlaylistInv => CleanIsStored
  BY DEF PlaylistInv, WritesOK, CleanIsStored
<1>2. QED
  BY <1>1, PlaylistInvHolds, PTL

(* What the revisions tell a reader is true of every step (touch_content,  *)
(* touch_structure, touch).                                                *)
THEOREM RevisionsTellHolds == Spec => RevisionsTell
<1> DEFINE Tells ==
      /\ DOMAIN engine'.lists # DOMAIN engine.lists => engine'.revision > engine.revision
      /\ \A id \in Lists \cap DOMAIN engine'.lists :
           /\ ChangesTo(id)
           /\ engine'.lists[id].content # engine.lists[id].content
                => engine'.revision > engine.revision
<1>1. ASSUME PlaylistInv, [Next]_vars
      PROVE  [Tells]_vars
  <2>1. Advances(engine, engine')
    BY <1>1, PlaylistStep
  <2>2. Tells
    BY <2>1, ContentsFact DEF Advances, Edited, ChangesTo, Lists
  <2>3. QED
    BY <2>2
<1>2. QED
  BY <1>1, PlaylistInvHolds, PTL DEF Spec, RevisionsTell
=============================================================================
