----------------------------- MODULE PlaylistOps -----------------------------
(***************************************************************************)
(* The playlist engine (crates/playlist) as functions of its state: what   *)
(* each call of Engine returns the engine as.  PlaylistEngine drives them  *)
(* as a state machine of its own; the bridge's engine owns one.            *)
(*                                                                         *)
(* An engine is a record; its playlists are a function from their ids,     *)
(* which are minted in ascending order, so that the order of the code's    *)
(* vector is the order of the ids.  Positions count from 1.  A refused     *)
(* call returns the engine it was given.  An item's fields other than its  *)
(* id are one value, its song.                                             *)
(***************************************************************************)
EXTENDS Integers, Sequences
Ext == INSTANCE SequencesExt

CONSTANT MaxId        \* the last id there is (u64::MAX)
ASSUME MaxIdAssumption == MaxId \in Nat

Anonymous == "anonymous"     \* a playlist without a name
Sequential == "Sequential"
Loop == "Loop"

(* No id is 0, and an item is the current one only once polled. *)
NoId == 0
NoCursor == [list |-> NoId, current |-> NoId, position |-> 0, pending |-> "None",
             failures |-> 0, removed |-> FALSE]

NewEngine == [lists |-> <<>>, nextList |-> 0, nextItem |-> 0, revision |-> 0,
              cursor |-> NoCursor, mode |-> Sequential]

NewList(name, items) ==
  [name |-> name, items |-> items, content |-> 0, structure |-> 0, saved |-> 0]

-----------------------------------------------------------------------------
Stored(e, id) == id \in DOMAIN e.lists
Items(e, id)  == e.lists[id].items
IsDirty(list) == list.content # list.saved

(* item_index: 0 when no item has the id. *)
IndexOf(items, id) == Ext!SelectInSeq(items, LAMBDA item : item.id = id)

Playing(e) == e.cursor # NoCursor

(* current: gone once its item is removed. *)
HasCurrent(e) ==
  Playing(e) /\ Stored(e, e.cursor.list) /\ IndexOf(Items(e, e.cursor.list), e.cursor.current) # 0

Touched(e) == [e EXCEPT !.revision = @ + 1]

(* The revisions count edits, far below the saturation of a u64. *)
ContentTouched(list)   == [list EXCEPT !.content = @ + 1]
StructureTouched(list) == [ContentTouched(list) EXCEPT !.structure = @ + 1]

Restructured(e, id, list) == Touched([e EXCEPT !.lists[id] = StructureTouched(list)])

Without(e, id) == Touched([e EXCEPT !.lists = Ext!Restrict(@, DOMAIN @ \ {id})])

-----------------------------------------------------------------------------
(* Storage. *)

CanMint(last, count) == last + count <= MaxId

Create(e, name) ==
  IF CanMint(e.nextList, 1)
  THEN LET id == e.nextList + 1
       IN  Touched([e EXCEPT !.nextList = id,
                             !.lists = [l \in DOMAIN @ \cup {id} |->
                                          IF l = id THEN NewList(name, <<>>) ELSE @[l]]])
  ELSE e

(* Seeded fault: the cursor stays on a deleted playlist. *)
DeleteUnder(e, id) == IF ~Stored(e, id) THEN e ELSE Without(e, id)

Delete(e, id) ==
  IF ~Stored(e, id) THEN e
  ELSE Without([e EXCEPT !.cursor = IF @.list = id THEN NoCursor ELSE @], id)

Rename(e, id, name) ==
  IF ~Stored(e, id) \/ e.lists[id].name = name THEN e
  ELSE Restructured(e, id, [e.lists[id] EXCEPT !.name = name])

TouchStructurePreservingDirty(e, id) ==
  IF ~Stored(e, id) THEN e
  ELSE LET list == StructureTouched(e.lists[id])
       IN  Touched([e EXCEPT !.lists[id] =
                      IF IsDirty(@) THEN list ELSE [list EXCEPT !.saved = list.content]])

AppendItem(e, id, song) ==
  IF ~Stored(e, id) \/ ~CanMint(e.nextItem, 1) THEN e
  ELSE LET item == [id |-> e.nextItem + 1, song |-> song]
           list == [e.lists[id] EXCEPT !.items = Append(@, item)]
       IN  Touched([e EXCEPT !.nextItem = item.id, !.lists[id] = ContentTouched(list)])

(* The same for several songs, one call each, as long as there are ids.    *)
AppendItems(e, id, songs) ==
  LET count == IF CanMint(e.nextItem, Len(songs)) THEN Len(songs) ELSE MaxId - e.nextItem
      items == [i \in 1..count |-> [id |-> e.nextItem + i, song |-> songs[i]]]
      list  == [e.lists[id] EXCEPT !.items = @ \o items, !.content = @ + count]
  IN  [e EXCEPT !.nextItem = @ + count, !.revision = @ + count, !.lists[id] = list]

(* Seeded fault: an edit counts as an append. *)
EditQuietly(e, id, item, song) ==
  IF ~Stored(e, id) \/ IndexOf(Items(e, id), item) = 0 THEN e
  ELSE LET list == [e.lists[id] EXCEPT !.items[IndexOf(Items(e, id), item)].song = song]
       IN  Touched([e EXCEPT !.lists[id] = ContentTouched(list)])

EditItem(e, id, item, song) ==
  IF ~Stored(e, id) \/ IndexOf(Items(e, id), item) = 0 THEN e
  ELSE Restructured(e, id, [e.lists[id] EXCEPT
                              !.items[IndexOf(Items(e, id), item)].song = song])

(* The cursor keeps the place of a current item that is removed. *)
CursorWithout(e, id, item) ==
  IF e.cursor.list = id /\ e.cursor.current = item
  THEN [e.cursor EXCEPT !.position = IndexOf(Items(e, id), item),
                        !.failures = 0, !.removed = TRUE]
  ELSE e.cursor

RemoveItem(e, id, item) ==
  IF ~Stored(e, id) \/ IndexOf(Items(e, id), item) = 0 THEN e
  ELSE Restructured([e EXCEPT !.cursor = CursorWithout(e, id, item)], id,
                    [e.lists[id] EXCEPT !.items = Ext!RemoveAt(@, IndexOf(@, item))])

(* The same for every item behind the first `kept`, none of them current.  *)
RemoveItemsPast(e, id, kept) ==
  LET count == Len(Items(e, id)) - kept
      list  == [e.lists[id] EXCEPT !.items = SubSeq(@, 1, kept), !.content = @ + count,
                                   !.structure = @ + count]
  IN  [e EXCEPT !.revision = @ + count, !.lists[id] = list]

(* Moves the item to the front, or right behind `after`. *)
MoveItem(e, id, item, after) ==
  LET items == Items(e, id)
      from  == IndexOf(items, item)
      to    == IF after = NoId THEN 1 ELSE IndexOf(items, after) + 1
      dest  == IF from < to THEN to - 1 ELSE to
  IN  IF \/ after = item \/ ~Stored(e, id) \/ from = 0
         \/ after # NoId /\ IndexOf(items, after) = 0
         \/ dest = from
      THEN e
      ELSE Restructured(e, id, [e.lists[id] EXCEPT
                                  !.items = Ext!InsertAt(Ext!RemoveAt(@, from), dest, @[from])])

(* Seeded fault: a save acknowledges whatever is there when it ends. *)
MarkSavedNow(e, id, revision) ==
  IF ~Stored(e, id) THEN e ELSE [e EXCEPT !.lists[id].saved = e.lists[id].content]

(* A save may end after the playlist changed again: it acknowledges the    *)
(* revision that was serialized, never one that is not there yet.          *)
MarkRevisionSaved(e, id, revision) ==
  IF ~Stored(e, id) \/ revision > e.lists[id].content THEN e
  ELSE [e EXCEPT !.lists[id].saved = IF revision > @ THEN revision ELSE @]

(* to_bytes: the document leaves out the ids. *)
ToBytes(e, id) ==
  [version |-> 2, name |-> e.lists[id].name,
   songs |-> [i \in DOMAIN Items(e, id) |-> Items(e, id)[i].song]]

(* Seeded fault: a load forgets the ids it handed out. *)
LoadUncounted(e, doc) ==
  IF doc.version # 2 \/ ~CanMint(e.nextList, 1) \/ ~CanMint(e.nextItem, Len(doc.songs))
  THEN e
  ELSE LET id    == e.nextList + 1
           items == [i \in DOMAIN doc.songs |-> [id |-> e.nextItem + i, song |-> doc.songs[i]]]
       IN  Touched([e EXCEPT !.nextList = id,
                             !.lists = [l \in DOMAIN @ \cup {id} |->
                                          IF l = id THEN NewList(doc.name, items) ELSE @[l]]])

(* from_bytes: mints every id or none. *)
FromBytes(e, doc) ==
  IF \/ doc.version # 2
     \/ ~CanMint(e.nextList, 1) \/ ~CanMint(e.nextItem, Len(doc.songs))
  THEN e
  ELSE LET id    == e.nextList + 1
           items == [i \in DOMAIN doc.songs |-> [id |-> e.nextItem + i, song |-> doc.songs[i]]]
       IN  Touched([e EXCEPT !.nextList = id, !.nextItem = @ + Len(doc.songs),
                             !.lists = [l \in DOMAIN @ \cup {id} |->
                                          IF l = id THEN NewList(doc.name, items) ELSE @[l]]])

-----------------------------------------------------------------------------
(* Playback. *)

(* Playing a playlist without a name uses it up. *)
Stop(e) ==
  LET stopped == [e EXCEPT !.cursor = NoCursor]
  IN  IF Stored(e, e.cursor.list) /\ e.lists[e.cursor.list].name = Anonymous
      THEN Without(stopped, e.cursor.list) ELSE stopped

(* Stops first, whether or not the playlist can be started. *)
Start(e, id, from) ==
  LET stopped == Stop(e)
  IN  IF \/ ~Stored(stopped, id) \/ Items(stopped, id) = <<>>
         \/ from # NoId /\ IndexOf(Items(stopped, id), from) = 0
      THEN stopped
      ELSE [stopped EXCEPT
              !.mode = Sequential,
              !.cursor = [NoCursor EXCEPT
                 !.list = id, !.pending = "Start",
                 !.position = IF from = NoId THEN 1 ELSE IndexOf(Items(stopped, id), from)]]

SetMode(e, mode) == [e EXCEPT !.mode = mode]

(* The place the cursor counts from: the kept one, when the item is gone.  *)
(* Both return 0 for no such place.                                        *)
ForwardPosition(e) ==
  LET items == Items(e, e.cursor.list)
      here  == IndexOf(items, e.cursor.current)
      next  == IF here = 0 THEN e.cursor.position ELSE here + 1
  IN  IF ~Stored(e, e.cursor.list) \/ items = <<>> THEN 0
      ELSE IF next <= Len(items) THEN next
      ELSE IF e.mode = Loop THEN 1 ELSE 0

PreviousPosition(e) ==
  LET here == IndexOf(Items(e, e.cursor.list), e.cursor.current)
  IN  IF ~Stored(e, e.cursor.list) THEN 0
      ELSE (IF here = 0 THEN e.cursor.position ELSE here) - 1

TargetPosition(e) ==
  LET target == CASE e.cursor.pending = "Start"    -> e.cursor.position
                  [] e.cursor.pending = "Forward"  -> ForwardPosition(e)
                  [] e.cursor.pending = "Backward" -> PreviousPosition(e)
  IN  IF e.cursor.pending = "Start" /\ target > Len(Items(e, e.cursor.list)) THEN 0 ELSE target

(* poll: the engine after it and the item it hands out, if any.  The place *)
(* before a removed item is not checked against the items there still are. *)
CanPoll(e) == Playing(e) /\ e.cursor.pending # "None"
PollPanics(e) == TargetPosition(e) > Len(Items(e, e.cursor.list))
PolledItem(e) == Items(e, e.cursor.list)[TargetPosition(e)]
Poll(e) ==
  IF TargetPosition(e) = 0 THEN Stop(e)
  ELSE [e EXCEPT !.cursor.pending = "None", !.cursor.current = PolledItem(e).id,
                 !.cursor.position = TargetPosition(e), !.cursor.removed = FALSE]

AtRest(e) == Playing(e) /\ e.cursor.current # NoId /\ e.cursor.pending = "None"

Advance(e) == [e EXCEPT !.cursor.failures = 0, !.cursor.pending = "Forward"]
OnFinished(e) == IF AtRest(e) THEN Advance(e) ELSE e
NextItem(e)   == IF AtRest(e) THEN Advance(e) ELSE e

(* Seeded fault: a loop goes on whatever fails. *)
FailOnwards(e) ==
  IF AtRest(e) THEN [e EXCEPT !.cursor.failures = 0, !.cursor.pending = "Forward"] ELSE e

(* A loop none of whose items plays must end. *)
OnFailed(e) ==
  LET failed == [e EXCEPT !.cursor.failures = @ + 1]
  IN  IF ~AtRest(e) THEN e
      ELSE IF e.cursor.removed THEN Advance(e)
      ELSE IF e.mode = Loop /\ failed.cursor.failures >= Len(Items(e, e.cursor.list))
      THEN Stop(failed)
      ELSE [failed EXCEPT !.cursor.pending = "Forward"]

Previous(e) ==
  IF Playing(e) /\ e.cursor.pending = "None" /\ PreviousPosition(e) > 0
  THEN [e EXCEPT !.cursor.failures = 0, !.cursor.pending = "Backward"] ELSE e

(* peek_next: the item that would play next, if any. *)
HasNext(e) == Playing(e) /\ ForwardPosition(e) # 0
=============================================================================
