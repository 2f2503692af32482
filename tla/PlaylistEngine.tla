--------------------------- MODULE PlaylistEngine ----------------------------
(***************************************************************************)
(* The playlist engine and its host.  The host edits playlists, saves and  *)
(* loads them, and drives playback: it polls for the item to play, plays   *)
(* it, and reports how it ended.  A save takes time: the bytes are taken   *)
(* at one moment and acknowledged at a later one, edits and further saves  *)
(* in between.                                                             *)
(***************************************************************************)
EXTENDS PlaylistOps, FiniteSets

CONSTANTS
  Songs,      \* what an item may be
  Broken,     \* songs that fail to play
  Names,      \* names a playlist may have
  Documents,  \* saved playlists the host may load
  MaxCalls    \* calls the host makes (bound)

ASSUME SongsAssumption == Broken \subseteq Songs
ASSUME DocumentsAssumption == \A doc \in Documents : doc.songs \in Seq(Songs)
ASSUME CallsAssumption == MaxCalls \in Nat

VARIABLES
  engine,   \* the playlist engine
  playing,  \* the song the host plays, or NoSong
  saves,    \* saves under way: what was serialized, and of which revision
  stored,   \* playlist -> the last write to storage, and the newest so far
  panicked, \* whether a poll indexed past the end of a playlist
  calls     \* calls made so far

vars == <<engine, playing, saves, stored, panicked, calls>>

NoSong == "no song"

Contents(e, id) == [name |-> e.lists[id].name, songs |-> ToBytes(e, id).songs]

(* A write is of the contents a playlist had at a revision.  Storage holds *)
(* the write that ended last, whichever it is; which of them was of the    *)
(* newest revision is history.                                             *)
Write(revision, contents) == [revision |-> revision, contents |-> contents]
Began(e, id) ==
  LET began == Write(e.lists[id].content, Contents(e, id))
  IN  [last |-> began, newest |-> began]

(* The host starts with one playlist loaded from a document. *)
Init ==
  /\ \E doc \in Documents : engine = FromBytes(NewEngine, doc)
  /\ playing = NoSong
  /\ saves = {}
  /\ stored = [id \in DOMAIN engine.lists |-> Began(engine, id)]
  /\ panicked = FALSE
  /\ calls = 0

(* What a call leaves behind: a playlist that is new is as it began. *)
Becomes(e) ==
  /\ calls < MaxCalls /\ ~panicked
  /\ calls' = calls + 1
  /\ engine' = e
  /\ stored' = [id \in DOMAIN e.lists |->
                  IF id \in DOMAIN stored THEN stored[id] ELSE Began(e, id)]
  /\ playing' = IF Playing(e) THEN playing ELSE NoSong
  /\ UNCHANGED <<saves, panicked>>

Lists == DOMAIN engine.lists
ItemsOf(id) == {engine.lists[id].items[i].id : i \in DOMAIN engine.lists[id].items}

CreateList(name)  == Becomes(Create(engine, name))
DeleteList(id)    == Becomes(Delete(engine, id))
RenameList(id, n) == Becomes(Rename(engine, id, n))
RefreshList(id)   == Becomes(TouchStructurePreservingDirty(engine, id))
AppendSong(id, s) == Becomes(AppendItem(engine, id, s))
EditSong(id, i, s) == Becomes(EditItem(engine, id, i, s))
RemoveSong(id, i) == Becomes(RemoveItem(engine, id, i))
MoveSong(id, i, after) == Becomes(MoveItem(engine, id, i, after))
LoadList(doc)     == Becomes(FromBytes(engine, doc))
StartList(id, from) == Becomes(Start(engine, id, from))
StopPlaying       == Becomes(Stop(engine))
ChooseMode(mode)  == Becomes(SetMode(engine, mode))
SkipForward       == Becomes(NextItem(engine))
SkipBack          == Becomes(Previous(engine))

(* A save serializes now and is acknowledged when the write has succeeded. *)
BeginSave(id) ==
  /\ calls < MaxCalls /\ ~panicked
  /\ calls' = calls + 1
  /\ saves' = saves \cup {[list |-> id, revision |-> engine.lists[id].content,
                           contents |-> Contents(engine, id)]}
  /\ UNCHANGED <<engine, playing, stored, panicked>>

EndSave(save) ==
  LET write == Write(save.revision, save.contents)
  IN  /\ ~panicked
      /\ saves' = saves \ {save}
      /\ engine' = MarkRevisionSaved(engine, save.list, save.revision)
      /\ stored' = [id \in DOMAIN stored |->
                      IF id # save.list THEN stored[id]
                      ELSE [last |-> write, newest |-> IF write.revision >= stored[id].newest.revision
                                                       THEN write ELSE stored[id].newest]]
      /\ UNCHANGED <<playing, panicked, calls>>

(* The host's loop: poll for an item, play it, report its end. *)
PollNext ==
  /\ ~panicked /\ CanPoll(engine) /\ ~PollPanics(engine)
  /\ engine' = Poll(engine)
  /\ playing' = IF Playing(engine') THEN PolledItem(engine).song ELSE NoSong
  /\ stored' = [id \in DOMAIN engine'.lists |-> stored[id]]
  /\ UNCHANGED <<saves, panicked, calls>>

PollPastEnd ==
  /\ ~panicked /\ CanPoll(engine) /\ PollPanics(engine)
  /\ panicked' = TRUE
  /\ UNCHANGED <<engine, playing, saves, stored, calls>>

SongEnds ==
  /\ ~panicked /\ playing # NoSong /\ ~CanPoll(engine)
  /\ engine' = IF playing \in Broken THEN OnFailed(engine) ELSE OnFinished(engine)
  /\ playing' = NoSong
  /\ stored' = [id \in DOMAIN engine'.lists |-> stored[id]]
  /\ UNCHANGED <<saves, panicked, calls>>

Editing ==
  \/ \E name \in Names \cup {Anonymous} :
       CreateList(name) \/ \E id \in Lists : RenameList(id, name)
  \/ \E id \in Lists :
       \/ DeleteList(id) \/ RefreshList(id)
       \/ \E s \in Songs : AppendSong(id, s) \/ \E i \in ItemsOf(id) : EditSong(id, i, s)
       \/ \E i \in ItemsOf(id) :
            RemoveSong(id, i) \/ \E after \in ItemsOf(id) \cup {NoId} : MoveSong(id, i, after)
  \/ \E doc \in Documents : LoadList(doc)

Transport ==
  \/ \E id \in Lists : \E from \in ItemsOf(id) \cup {NoId} : StartList(id, from)
  \/ \E mode \in {Sequential, Loop} : ChooseMode(mode)
  \/ StopPlaying \/ SkipForward \/ SkipBack

Saving == (\E id \in Lists : BeginSave(id)) \/ (\E save \in saves : EndSave(save))

Next == Editing \/ Transport \/ Saving \/ PollNext \/ PollPastEnd \/ SongEnds

Spec == Init /\ [][Next]_vars

(* The host's loop goes on turning, and every song ends. *)
FairSpec == Spec /\ WF_vars(PollNext) /\ WF_vars(PollPastEnd) /\ WF_vars(SongEnds)

-----------------------------------------------------------------------------

(* Ids are stable and never shared: no two items of any playlists, loaded, *)
(* appended or moved, go by one id, even when the ids run out half-way     *)
(* through a load.                                                         *)
IdsAreUnique ==
  /\ \A l1, l2 \in Lists : l1 # l2 => ItemsOf(l1) \cap ItemsOf(l2) = {}
  /\ \A l \in Lists : /\ Cardinality(ItemsOf(l)) = Len(engine.lists[l].items)
                      /\ ItemsOf(l) \subseteq 1..engine.nextItem

(* The cursor is true to the playlists whatever edits come between two     *)
(* polls: its playlist is stored, and its current item is in it exactly    *)
(* when it is not marked removed.                                          *)
CursorIsTrue ==
  Playing(engine) =>
    /\ Stored(engine, engine.cursor.list)
    /\ engine.cursor.current # NoId =>
         (engine.cursor.removed <=> engine.cursor.current \notin ItemsOf(engine.cursor.list))

(* A playlist that is not dirty has been written as it is now, and unless  *)
(* an older save ended after a newer one, storage holds it: no edit made   *)
(* while a save was being written, and no save that ends late, is mistaken *)
(* for saved (is_dirty, mark_revision_saved).                              *)
CleanIsStored ==
  \A id \in Lists :
    ~IsDirty(engine.lists[id]) =>
      /\ Contents(engine, id) = stored[id].newest.contents
      /\ stored[id].last.revision = stored[id].newest.revision =>
           Contents(engine, id) = stored[id].last.contents

(* What a host would like to conclude, in whatever order its saves end.    *)
CleanIsHeld ==
  \A id \in Lists : ~IsDirty(engine.lists[id]) => Contents(engine, id) = stored[id].last.contents

(* A poll finds the item its target names, or ends the playlist: it never  *)
(* indexes past the items, whatever was removed since the song began.      *)
TargetIsAnItem == ~panicked

(* What a reader may conclude from the revisions it has seen: nothing      *)
(* stored changes without the engine's revision, and as long as a list's   *)
(* structure revision stands, its items have only been appended to.        *)
ChangesTo(id) ==
  /\ engine'.lists[id].structure = engine.lists[id].structure =>
       Ext!IsPrefix(engine.lists[id].items, engine'.lists[id].items)
  /\ engine'.lists[id].content = engine.lists[id].content =>
       Contents(engine', id) = Contents(engine, id)

RevisionsTell ==
  [][/\ DOMAIN engine'.lists # DOMAIN engine.lists => engine'.revision > engine.revision
     /\ \A id \in Lists \cap DOMAIN engine'.lists :
          /\ ChangesTo(id)
          /\ engine'.lists[id].content # engine.lists[id].content
               => engine'.revision > engine.revision]_vars

(* A playlist none of whose items plays is given up, in either mode: the   *)
(* host is not left mounting songs that fail for ever.                     *)
NothingPlays ==
  /\ Playing(engine) /\ ~panicked
  /\ \A i \in DOMAIN engine.lists[engine.cursor.list].items :
       engine.lists[engine.cursor.list].items[i].song \in Broken

BrokenListEnds == NothingPlays ~> ~NothingPlays
=============================================================================
