------------------------------- MODULE Bridge --------------------------------
(***************************************************************************)
(* The bridge (ui-quickshell/bridge): the UI session and its audio worker. *)
(* The UI sends commands down a channel.  The worker owns the playlist,    *)
(* the player backend and the library; each turn of its loop takes at most *)
(* one command, polls the playlist and mounts what it hands out, sees to a *)
(* song that ended, tops the ring up and describes at most one file.  The  *)
(* device drains the ring, and a helper thread walks a directory and sends *)
(* what it found down the same channel.                                    *)
(*                                                                         *)
(* The worker is one record; its calls are functions of it, composed as    *)
(* the code composes them.  What crosses to the UI frame by frame is in    *)
(* Surfaces; here a published document is what it says, at once.  Audio is *)
(* counted in units of which the ring holds Buffered.                      *)
(***************************************************************************)
EXTENDS PlaylistOps, Player, SequencesExt

CONSTANTS
  Paths,      \* files
  Broken,     \* files no decoder opens
  NotSongs,   \* files a decoder claims and then refuses to describe
  Files,      \* root -> the claimed files a walk of it finds, in order
  Asked,      \* the commands the UI may send: <<name, argument...>>
  MaxSent,    \* commands the UI sends (bound)
  Buffered, LowWater, ScanWater, MaxFrames,   \* the ring's depth and marks
  MayFail     \* whether decoders may fail on a file that opens, or hang

ASSUME RingAssumption ==
  /\ {Buffered, LowWater, ScanWater, MaxFrames} \subseteq Nat
  /\ LowWater <= ScanWater /\ ScanWater <= Buffered
ASSUME BrokenAssumption == Broken \cup NotSongs \subseteq Paths
ASSUME FailAssumption == MayFail \in BOOLEAN

(* What the UI may ask for. *)
Requests ==
  {"Open", "PlayRows", "Stop", "TogglePause", "Seek", "Next", "Previous", "SetSubsong",
   "SetLoop", "SetVolume", "ClearQueue", "ScanLibrary"}
ASSUME AskedAssumption ==
  \A request \in Asked : /\ request[1] \in Requests
                         /\ request[1] = "PlayRows" => request[2] \in Seq(Nat)

VARIABLES
  worker,    \* everything the worker's thread owns, the ring and the documents
  pc,        \* which step of its loop the worker is at
  commands,  \* the channel
  walks,     \* roots the helper threads are walking
  session,   \* the UI's session
  sent       \* commands sent so far

vars == <<worker, pc, commands, walks, session, sent>>

FullVolume == 2
NotFinite  == 99
NoRow      == 0
NoRoot     == "no root"

NoTrack == [path |-> NoSong, row |-> NoRow]
Nothing == [track |-> NoTrack, subsong |-> 0]

Steps == {"command", "poll", "ended", "top_up", "scan", "stuck", "exited"}

(* The UI scans its library first thing: it has been described, or not yet. *)
Libraries ==
  {[root |-> NoRoot, pending |-> <<>>, entries |-> <<>>]}
    \cup {[root |-> root, pending |-> <<>>,
           entries |-> SelectSeq(Files[root], LAMBDA path : path \notin NotSongs)] :
            root \in DOMAIN Files}

(* The thread may not start. *)
Started == pc \in {"command", "exited"}

Init ==
  /\ \E library \in Libraries :
       worker = [playlist |-> NewEngine, backend |-> Closed, playing |-> Nothing, ring |-> 0,
                 library |-> library, loop |-> "Off", volume |-> FullVolume, status |-> "Idle",
                 docs |-> [library |-> library.entries, track |-> Nothing, queue |-> <<>>]]
  /\ Started
  /\ commands = <<>> /\ walks = <<>>
  /\ session = "open" /\ sent = 0

-----------------------------------------------------------------------------
(* What the worker publishes. *)

(* What follows the current item; everything, before one is polled. *)
QueueDoc(w) ==
  LET e     == w.playlist
      items == Items(e, e.cursor.list)
      from  == IndexOf(items, e.cursor.current)
  IN  IF ~Playing(e) THEN <<>>
      ELSE [i \in 1..(Len(items) - from) |-> items[from + i].song]

PublishLibrary(w) == [w EXCEPT !.docs.library = w.library.entries]
PublishTrack(w)   == [w EXCEPT !.docs.track = w.playing]
PublishQueue(w)   == [w EXCEPT !.docs.queue = QueueDoc(w)]

-----------------------------------------------------------------------------
(* Mounting and its failures. *)

ClearRing(w) == [w EXCEPT !.ring = 0]

Unmount(w) == ClearRing([w EXCEPT !.backend = Closed, !.playing = Nothing])

Fail(w) ==
  LET unmounted == [Unmount(w) EXCEPT !.status = "Error"]
  IN  PublishQueue(PublishTrack([unmounted EXCEPT !.playlist = OnFailed(@)]))

(* A song without a visualization layout fails like one that does not open. *)
MountTrack(w, track, subsong, opens) ==
  LET mounted == [ClearRing(w) EXCEPT
                    !.backend = Mount(track.path, subsong, opens),
                    !.playing = [track |-> track, subsong |-> subsong], !.status = "Playing"]
  IN  IF opens THEN PublishQueue(PublishTrack(mounted))
      ELSE Fail([ClearRing(w) EXCEPT !.backend = Closed, !.playing = Nothing])

(* Whether a file opens: one of Broken never does. *)
Opens(path) == IF path \in Broken THEN {FALSE} ELSE IF MayFail THEN BOOLEAN ELSE {TRUE}

-----------------------------------------------------------------------------
(* The commands. *)

PlaylistMode(loop) == IF loop = "All" THEN Loop ELSE Sequential

Entries(w) == w.library.entries

(* Replaces the queue: an anonymous playlist of the tracks. *)
StartQueue(w, tracks, start) ==
  LET stopped == Stop(w.playlist)
      created == Create(stopped, Anonymous)
      id      == created.nextList
      filled  == AppendItems(created, id, tracks)
      from    == created.nextItem + start
      item    == IF IndexOf(Items(filled, id), from) = 0 THEN NoId ELSE from
  IN  IF ~CanMint(stopped.nextList, 1) THEN [w EXCEPT !.playlist = stopped]
      ELSE PublishQueue([w EXCEPT !.playlist =
                           Start(SetMode(filled, PlaylistMode(w.loop)), id, item)])

RowOf(w, path) == SelectInSeq(Entries(w), LAMBDA entry : entry = path)

Open(w, path) == StartQueue(w, <<[path |-> path, row |-> RowOf(w, path)]>>, 1)

(* The rows there are, in order. *)
Known(rows, entries) ==
  LET known[n \in 0..Len(rows)] ==
        IF n = 0 THEN <<>>
        ELSE IF rows[n] \in DOMAIN entries THEN Append(known[n - 1], rows[n])
             ELSE known[n - 1]
  IN  known[Len(rows)]

(* Rows the library does not have are skipped, the start is capped. *)
PlayRows(w, rows, start) ==
  LET known  == Known(rows, Entries(w))
      tracks == [i \in DOMAIN known |-> [path |-> Entries(w)[known[i]], row |-> known[i]]]
  IN  IF tracks = <<>> THEN w
      ELSE StartQueue(w, tracks, Min({start, Len(tracks)}))

(* Seeded fault: the backend keeps the session. *)
StopSongOnly(w) ==
  PublishQueue([ClearRing(w) EXCEPT !.playlist = Stop(@), !.playing = Nothing, !.status = "Idle"])

StopSong(w) ==
  PublishQueue([Unmount([w EXCEPT !.playlist = Stop(@)]) EXCEPT !.status = "Idle"])

(* Seeded fault: what is decoded plays on. *)
HoldWithTail(w) ==
  LET toggled == TogglePause(w.backend)
  IN  IF toggled = w.backend THEN w
      ELSE [w EXCEPT !.backend = toggled, !.status = toggled.status]

(* A held song must not leave the ring's tail playing on. *)
HoldOrResume(w) ==
  LET toggled == TogglePause(w.backend)
      held    == toggled.status = "Paused"
  IN  IF toggled = w.backend THEN w
      ELSE [w EXCEPT !.backend = toggled, !.status = toggled.status,
                     !.ring = IF held THEN 0 ELSE @]

SeekTo(w, accepts) ==
  IF Seeks(w.backend, accepts)
  THEN [ClearRing(w) EXCEPT !.backend = Seek(@, TRUE),
                            !.status = IF @ = "Finished" THEN "Playing" ELSE @]
  ELSE w

Rewound(w) == [ClearRing(w) EXCEPT !.backend = Seek(@, TRUE)]

HasPrevious(w) ==
  HasCurrent(w.playlist)
    /\ IndexOf(Items(w.playlist, w.playlist.cursor.list), w.playlist.cursor.current) > 1

(* Late in a song, or on the first, it restarts. *)
PreviousSong(w, late, accepts) ==
  IF late \/ ~HasPrevious(w)
  THEN IF Seeks(w.backend, accepts) THEN Rewound(w) ELSE w
  ELSE [w EXCEPT !.playlist = Previous(@)]

SetSubsong(w, subsong, subsongs, opens) ==
  IF w.playing # Nothing /\ subsong < subsongs /\ subsong # w.playing.subsong
  THEN MountTrack(w, w.playing.track, subsong, opens) ELSE w

SetLoop(w, loop) ==
  PublishQueue([w EXCEPT !.loop = loop, !.playlist = SetMode(@, PlaylistMode(loop))])

(* What is not a number is not a volume. *)
SetVolume(w, volume) ==
  IF volume = NotFinite THEN w
  ELSE [w EXCEPT !.volume = Max({0, Min({volume, FullVolume})})]

(* Keeps the current item and those before it. *)
ClearQueue(w) ==
  LET e       == w.playlist
      current == IndexOf(Items(e, e.cursor.list), e.cursor.current)
  IN  PublishQueue(IF Playing(e) /\ (current # 0 \/ e.cursor.current = NoId)
                   THEN [w EXCEPT !.playlist = RemoveItemsPast(e, e.cursor.list, current)]
                   ELSE w)

ScanLibrary(w, root) ==
  PublishLibrary([w EXCEPT !.library = [root |-> root, pending |-> <<>>, entries |-> <<>>]])

(* A walk of a root that was replaced meanwhile is dropped. *)
Walked(w, root) ==
  IF root = w.library.root
  THEN PublishLibrary([w EXCEPT !.library.pending = Files[root]]) ELSE w

-----------------------------------------------------------------------------
(* The worker's loop. *)

(* late, accepts, opens, subsongs: what the song and its decoder answer. *)
Handled(w, command, late, accepts, opens, subsongs) ==
  CASE command[1] = "Open"        -> Open(w, command[2])
    [] command[1] = "PlayRows"    -> PlayRows(w, command[2], command[3])
    [] command[1] = "Stop"        -> StopSong(w)
    [] command[1] = "TogglePause" -> HoldOrResume(w)
    [] command[1] = "Seek"        -> SeekTo(w, accepts)
    [] command[1] = "Next"        -> [w EXCEPT !.playlist = NextItem(@)]
    [] command[1] = "Previous"    -> PreviousSong(w, late, accepts)
    [] command[1] = "SetSubsong"  -> SetSubsong(w, command[2], subsongs, opens)
    [] command[1] = "SetLoop"     -> SetLoop(w, command[2])
    [] command[1] = "SetVolume"   -> SetVolume(w, command[2])
    [] command[1] = "ClearQueue"  -> ClearQueue(w)
    [] command[1] = "ScanLibrary" -> ScanLibrary(w, command[2])
    [] command[1] = "Walked"      -> Walked(w, command[2])

(* The answers matter to the commands that ask. *)
TakeCommand ==
  /\ pc = "command" /\ commands # <<>> /\ Head(commands)[1] # "Quit"
  /\ \E late, accepts \in BOOLEAN : \E opens \in Opens(worker.playing.track.path) :
       worker' = Handled(worker, Head(commands), late, accepts, opens, 2)
  /\ IF Head(commands)[1] = "ScanLibrary"
     THEN walks' \in {Append(walks, Head(commands)[2]), walks}   \* it may not start
     ELSE UNCHANGED walks
  /\ commands' = Tail(commands)
  /\ pc' = "poll"
  /\ UNCHANGED <<session, sent>>

NoCommand ==
  /\ pc = "command" /\ commands = <<>>
  /\ pc' = "poll"
  /\ UNCHANGED <<worker, commands, walks, session, sent>>

TakeQuit ==
  /\ pc = "command" /\ commands # <<>> /\ Head(commands)[1] = "Quit"
  /\ pc' = "exited"
  /\ UNCHANGED <<worker, commands, walks, session, sent>>

Goes(from, to, w) ==
  /\ pc = from /\ pc' = to
  /\ worker' = w
  /\ UNCHANGED <<commands, walks, session, sent>>

(* A playlist that hands nothing out has ended, and says so to nobody. *)
PollPlaylist ==
  IF ~CanPoll(worker.playlist) THEN Goes("poll", "ended", worker)
  ELSE LET polled == [worker EXCEPT !.playlist = Poll(@)]
           track  == PolledItem(worker.playlist).song
       IN  IF ~Playing(polled.playlist) THEN Goes("poll", "ended", polled)
           ELSE \E opens \in Opens(track.path) :
                  Goes("poll", "ended", MountTrack(polled, track, 0, opens))

(* Restart, advance, or come to rest.  What the ring still holds is cut.   *)
SongEnded(w) ==
  LET ended == [w EXCEPT !.playlist = OnFinished(@)]
  IN  IF HasNext(ended.playlist) THEN ended
      ELSE PublishQueue([Unmount([ended EXCEPT !.playlist = Stop(@)]) EXCEPT
                           !.status = "Finished"])

SeeToEnd ==
  IF worker.backend.status # "Finished" THEN Goes("ended", "top_up", worker)
  ELSE \/ Goes("ended", "top_up", SongEnded(worker)) /\ (worker.loop # "One" \/ MayFail)
       \/ Goes("ended", "top_up", Rewound(worker)) /\ worker.loop = "One"

(* Frames the ring may take: a low ring as fast as possible, else as many  *)
(* as wall-clock time has earned.                                          *)
FramesDue(ring, earned) ==
  LET missing == Min({Buffered - ring, MaxFrames})
  IN  IF ring < LowWater THEN missing ELSE Min({missing, earned})

RenderFailed(w) ==
  [Unmount(w) EXCEPT !.status = "Error", !.playlist = OnFailed(@)]

TopUp ==
  \E earned \in 0..MaxFrames :
    LET frames == FramesDue(worker.ring, earned)
    IN  IF ~Renders(worker.backend, frames) THEN Goes("top_up", "scan", worker)
        ELSE \/ MayFail /\ Goes("top_up", "scan", RenderFailed(worker))
             \/ \E finished \in BOOLEAN :
                  Goes("top_up", "scan",
                       [worker EXCEPT !.ring = @ + frames,
                                      !.backend = Render(@, finished)])

(* One file, when the ring can afford the time.  Rows are published every  *)
(* so often, and when the last file is done, a song or not.                *)
Described(w) ==
  LET path == Head(w.library.pending)
  IN  [w EXCEPT !.library.pending = Tail(@),
                !.library.entries = IF path \in NotSongs THEN @ ELSE Append(@, path)]

(* Seeded fault: rows are published only every so often. *)
ProgressInTime(w, due) == IF due THEN PublishLibrary(w) ELSE w

Progress(w, due) ==
  IF w.library.pending = <<>> THEN PublishTrack(PublishLibrary(w))
  ELSE IF due THEN PublishLibrary(w) ELSE w

ScanStep ==
  IF \/ worker.library.pending = <<>>
     \/ worker.playing # Nothing /\ worker.ring < ScanWater
  THEN Goes("scan", "command", worker)
  ELSE \E due \in BOOLEAN : Goes("scan", "command", Progress(Described(worker), due))

(* A decoder may not come back from a call. *)
DecoderHangs ==
  /\ MayFail /\ IsLive(worker.backend)
  /\ Goes("top_up", "stuck", worker)

-----------------------------------------------------------------------------
(* The other threads. *)

DrainRing ==
  /\ worker.ring > 0 /\ worker' = [worker EXCEPT !.ring = @ - 1]
  /\ UNCHANGED <<pc, commands, walks, session, sent>>

FinishWalk ==
  /\ walks # <<>> /\ pc # "exited"
  /\ \E i \in DOMAIN walks :
       /\ commands' = Append(commands, <<"Walked", walks[i]>>)
       /\ walks' = RemoveAt(walks, i)
  /\ UNCHANGED <<worker, pc, session, sent>>

Send ==
  /\ session = "open" /\ sent < MaxSent /\ pc # "exited"
  /\ \E command \in Asked : commands' = Append(commands, command)
  /\ sent' = sent + 1
  /\ UNCHANGED <<worker, pc, walks, session>>

(* Drop: Quit, then the worker's exit or the end of the grace. *)
DropSession ==
  /\ session = "open"
  /\ session' = IF pc = "exited" THEN "gone" ELSE "quitting"
  /\ commands' = Append(commands, <<"Quit">>)
  /\ UNCHANGED <<worker, pc, walks, sent>>

JoinWorker ==
  /\ session = "quitting" /\ pc = "exited"
  /\ session' = "gone"
  /\ UNCHANGED <<worker, pc, commands, walks, sent>>

(* Seeded fault: the exit is awaited without a grace. *)
LeaveOnExit ==
  /\ session = "quitting" /\ pc = "exited"
  /\ session' = "gone"
  /\ UNCHANGED <<worker, pc, commands, walks, sent>>

LeaveBehind ==
  /\ session = "quitting" /\ pc # "exited"
  /\ session' = "gone"
  /\ UNCHANGED <<worker, pc, commands, walks, sent>>

Turn == TakeCommand \/ NoCommand \/ TakeQuit \/ PollPlaylist \/ SeeToEnd \/ TopUp \/ ScanStep
Closing == JoinWorker \/ LeaveBehind

Next == Turn \/ DecoderHangs \/ DrainRing \/ FinishWalk \/ Send \/ DropSession \/ Closing

Spec == Init /\ [][Next]_vars

(* The worker's loop turns until it exits or a decoder has it: every step  *)
(* of it, and only that, moves pc.  The grace runs out.                    *)
Turns == pc \notin {"stuck", "exited"} /\ pc' \in Steps \ {pc}

FairSpec == Spec /\ WF_pc(Turns) /\ WF_vars(Closing)

-----------------------------------------------------------------------------

(* The status the UI is shown is the backend's: a song is mounted exactly  *)
(* when it says playing or paused, and paused only when the backend is.    *)
StatusIsTrue ==
  /\ IsLive(worker.backend) <=> worker.status \in {"Playing", "Paused"}
  /\ worker.status = "Paused" <=> worker.backend.status = "Paused"
  /\ worker.playing.track.path = worker.backend.song
  /\ worker.playing.subsong = worker.backend.subsong

(* Nothing is left to sound when nothing plays: no sample of a song that   *)
(* was held, stopped, replaced or failed stays in the ring.                *)
SilentAtRest == worker.status # "Playing" => worker.ring = 0

(* The documents say what is: the track document names the mounted song,   *)
(* the queue document what follows it, unless the last thing was an error, *)
(* and once the scan is done the library document has every row.           *)
AtRestDocs ==
  /\ worker.playing # Nothing => worker.docs.track = worker.playing
  /\ worker.status # "Error" => worker.docs.queue = QueueDoc(worker)
  /\ worker.library.pending = <<>> => worker.docs.library = worker.library.entries

DocsAreCurrent == pc = "command" => AtRestDocs

(* Closing the session returns whatever the worker is doing: a decoder     *)
(* that does not come back holds no window open.                           *)
DropReturns == session = "quitting" ~> session = "gone"

=============================================================================
