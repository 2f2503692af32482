---------------------------- MODULE BridgeProofs -----------------------------
(***************************************************************************)
(* Proofs about the bridge: what the UI is shown of the song and what the  *)
(* device still has to play agree with the backend, whatever commands,     *)
(* failures and ends of songs come, for any files, ring and marks; and so  *)
(* do the documents it is shown, of the song, the library and the queue.   *)
(***************************************************************************)
EXTENDS Bridge, FiniteSetTheorems, TLAPS

(* The records the worker is made of. *)
IsRecord(r, fields) == DOMAIN r = fields /\ r = [f \in fields |-> r[f]]

IsWorker(w) ==
  /\ IsRecord(w, {"playlist", "backend", "playing", "ring", "library", "loop", "volume",
                  "status", "docs"})
  /\ IsRecord(w.backend, {"status", "song", "subsong"})
  /\ IsRecord(w.docs, {"library", "track", "queue"})
  /\ IsRecord(w.library, {"root", "pending", "entries"})

(* What is heard and shown of the song agree. *)
Sounds(w) ==
  /\ w.backend.status \in PlaybackStatus
  /\ w.ring \in Nat
  /\ IsLive(w.backend) <=> w.status \in {"Playing", "Paused"}
  /\ w.status = "Paused" <=> w.backend.status = "Paused"
  /\ w.playing.track.path = w.backend.song
  /\ w.playing.subsong = w.backend.subsong
  /\ w.status # "Playing" => w.ring = 0

(* The track and library documents. *)
Shows(w) ==
  /\ w.playing # Nothing => w.docs.track = w.playing
  /\ w.library.pending = <<>> => w.docs.library = w.library.entries

Good(w) == IsWorker(w) /\ Sounds(w) /\ Shows(w)

-----------------------------------------------------------------------------

(* Nothing of this depends on the queue. *)
LEMMA RequeuedFact ==
  ASSUME NEW w, Good(w), NEW p
  PROVE  Good([w EXCEPT !.playlist = p])
  BY DEF Good, IsWorker, IsRecord, Sounds, Shows

(* What is published is what there is. *)
LEMMA PublishFact ==
  ASSUME NEW w, Good(w)
  PROVE  Good(PublishLibrary(w)) /\ Good(PublishTrack(w)) /\ Good(PublishQueue(w))
  BY DEF Good, IsWorker, IsRecord, Sounds, Shows, PublishLibrary, PublishTrack, PublishQueue

LEMMA UnmountFact ==
  ASSUME NEW w, Good(w), NEW s \in {"Idle", "Error", "Finished"}
  PROVE  Good([Unmount(w) EXCEPT !.status = s])
  BY DEF Good, IsWorker, IsRecord, Sounds, Shows, Unmount, ClearRing, Closed, PlaybackStatus, IsLive,
         Nothing, NoTrack

LEMMA FailFact ==
  ASSUME NEW w, Good(w)
  PROVE  Good(Fail(w))
<1> DEFINE u == [Unmount(w) EXCEPT !.status = "Error"]
           v == [u EXCEPT !.playlist = OnFailed(@)]
<1>1. Good(u)
  BY UnmountFact
<1>2. Good(v)
  <2> HIDE DEF u
  <2>1. QED
    BY <1>1, RequeuedFact
<1>3. Good(PublishQueue(PublishTrack(v)))
  <2> HIDE DEF v
  <2>1. QED
    BY <1>2, PublishFact
<1>4. QED
  BY <1>3 DEF Fail

(* A song that mounts plays and is shown; one that does not leaves none. *)
LEMMA MountFact ==
  ASSUME NEW w, Good(w), NEW track, NEW subsong, NEW opens \in BOOLEAN
  PROVE  Good(MountTrack(w, track, subsong, opens))
<1>1. CASE opens
  <2> DEFINE mounted == [ClearRing(w) EXCEPT
                           !.backend = Mount(track.path, subsong, opens),
                           !.playing = [track |-> track, subsong |-> subsong],
                           !.status = "Playing"]
           opened == [status |-> "Playing", song |-> track.path, subsong |-> subsong]
           m == PublishTrack(mounted)
  <2>1. Good(m)
    <3>1. /\ IsWorker(m) /\ m.backend = opened /\ m.ring = 0 /\ m.status = "Playing"
          /\ m.playing = [track |-> track, subsong |-> subsong]
          /\ m.docs.track = m.playing
          /\ m.library = w.library /\ m.docs.library = w.docs.library
      BY <1>1 DEF Good, IsWorker, IsRecord, ClearRing, Mount, PublishTrack
    <3>2. Sounds(m)
      <4> HIDE DEF m
      <4>1. QED
        BY <3>1 DEF Sounds, PlaybackStatus, IsLive
    <3>3. Shows(m)
      <4> HIDE DEF m
      <4>1. QED
        BY <3>1 DEF Shows, Good
    <3>4. QED
      BY <3>1, <3>2, <3>3 DEF Good
  <2>2. MountTrack(w, track, subsong, opens) = PublishQueue(PublishTrack(mounted))
    BY <1>1 DEF MountTrack
  <2>3. QED
    <3> HIDE DEF mounted
    <3>1. QED
      BY <2>1, <2>2, PublishFact
<1>2. CASE ~opens
  <2> DEFINE closed == [ClearRing(w) EXCEPT !.backend = Closed, !.playing = Nothing]
      u == [Unmount(closed) EXCEPT !.status = "Error"]
  <2>1. u = [Unmount(w) EXCEPT !.status = "Error"]
    BY DEF Good, IsWorker, IsRecord, Unmount, ClearRing
  <2>2. MountTrack(w, track, subsong, opens) = Fail(w)
    BY <1>2, <2>1 DEF MountTrack, Fail
  <2>3. QED
    BY <2>2, FailFact
<1>3. QED
  BY <1>1, <1>2

(* A queue that starts, and one that no id is left for. *)
LEMMA StartQueueFact ==
  ASSUME NEW w, Good(w), NEW tracks, NEW start
  PROVE  Good(StartQueue(w, tracks, start))
<1>1. \A p : Good(PublishQueue([w EXCEPT !.playlist = p]))
  BY RequeuedFact, PublishFact
<1>2. QED
  BY <1>1, RequeuedFact DEF StartQueue

LEMMA StopFact ==
  ASSUME NEW w, Good(w)
  PROVE  Good(StopSong(w))
<1>1. \A p : Good([w EXCEPT !.playlist = p])
  BY RequeuedFact
<1>2. Good([Unmount([w EXCEPT !.playlist = Stop(@)]) EXCEPT !.status = "Idle"])
  BY <1>1, UnmountFact
<1>3. QED
  BY <1>2, PublishFact DEF StopSong

(* Pausing clears the ring and resuming does not fill it. *)
LEMMA HoldFact ==
  ASSUME NEW w, Good(w)
  PROVE  Good(HoldOrResume(w))
<1> DEFINE v == HoldOrResume(w)
<1>1. CASE w.backend.status = "Playing"
  <2>1. /\ IsWorker(v) /\ v.backend = [w.backend EXCEPT !.status = "Paused"]
        /\ v.status = "Paused" /\ v.ring = 0 /\ v.playing = w.playing
        /\ v.docs = w.docs /\ v.library = w.library
    BY <1>1 DEF HoldOrResume, TogglePause, Good, IsWorker, IsRecord
  <2>2. QED
    <3> HIDE DEF v
    <3>1. Sounds(v)
      BY <2>1 DEF Good, Sounds, IsLive, PlaybackStatus, IsWorker, IsRecord
    <3>2. Good(v)
      BY <2>1, <3>1 DEF Good, Shows
    <3>3. QED
      BY <3>2 DEF v
<1>2. CASE w.backend.status = "Paused"
  <2>1. /\ IsWorker(v) /\ v.backend = [w.backend EXCEPT !.status = "Playing"]
        /\ v.status = "Playing" /\ v.ring = w.ring /\ v.playing = w.playing
        /\ v.docs = w.docs /\ v.library = w.library
    BY <1>2 DEF HoldOrResume, TogglePause, Good, IsWorker, IsRecord
  <2>2. QED
    <3> HIDE DEF v
    <3>1. Sounds(v)
      BY <2>1 DEF Good, Sounds, IsLive, PlaybackStatus, IsWorker, IsRecord
    <3>2. Good(v)
      BY <2>1, <3>1 DEF Good, Shows
    <3>3. QED
      BY <3>2 DEF v
<1>3. CASE w.backend.status \notin {"Playing", "Paused"}
  BY <1>3 DEF HoldOrResume, TogglePause
<1>4. QED
  BY <1>1, <1>2, <1>3

(* A seek lands in a ring that is empty, and may revive a finished song. *)
LEMMA SeekFact ==
  ASSUME NEW w, Good(w), NEW accepts
  PROVE  /\ Good(SeekTo(w, accepts))
         /\ IsLive(w.backend) => Good(Rewound(w))
<1>1. ASSUME IsLive(w.backend)
      PROVE  Good(Rewound(w))
  BY <1>1 DEF Rewound, Seek, ClearRing, Good, IsWorker, IsRecord, Sounds, Shows, IsLive,
              PlaybackStatus
<1>2. ASSUME IsLive(w.backend)
      PROVE  [ClearRing(w) EXCEPT !.backend = Seek(@, TRUE),
                            !.status = IF @ = "Finished" THEN "Playing" ELSE @] = Rewound(w)
  BY <1>2 DEF Rewound, Seek, ClearRing, Good, IsWorker, IsRecord, Sounds, IsLive
<1>3. QED
  BY <1>1, <1>2 DEF SeekTo, Seeks

LEMMA PreviousFact ==
  ASSUME NEW w, Good(w), NEW late, NEW accepts
  PROVE  Good(PreviousSong(w, late, accepts))
  BY SeekFact, RequeuedFact DEF PreviousSong, Seeks

(* The library starts over, or gets what a walk of it found. *)
LEMMA LibraryFact ==
  ASSUME NEW w, Good(w), NEW root
  PROVE  Good(ScanLibrary(w, root)) /\ Good(Walked(w, root))
  BY DEF Good, IsWorker, IsRecord, Sounds, Shows, ScanLibrary, Walked, PublishLibrary

(* One more row, published when it is the last. *)
LEMMA ScanFact ==
  ASSUME NEW w, Good(w), w.library.pending # <<>>, NEW due \in BOOLEAN
  PROVE  Good(Progress(Described(w), due))
<1> DEFINE v == Described(w)
<1>1. /\ IsWorker(v) /\ Sounds(v) /\ v.docs = w.docs /\ v.playing = w.playing
      /\ v.playing # Nothing => v.docs.track = v.playing
  BY DEF Described, Good, IsWorker, IsRecord, Sounds, Shows
<1> HIDE DEF v
<1>2. CASE v.library.pending = <<>>
  <2>1. Good(PublishLibrary(v))
    BY <1>1 DEF PublishLibrary, Good, IsWorker, IsRecord, Sounds, Shows
  <2>2. QED
    BY <1>2, <2>1, PublishFact DEF Progress, v
<1>3. CASE v.library.pending # <<>>
  <2>1. Good(v)
    BY <1>1, <1>3 DEF Good, Shows
  <2>2. QED
    BY <1>3, <2>1, PublishFact DEF Progress, v
<1>4. QED
  BY <1>2, <1>3

(* What a command does, whatever the song and its decoder answer. *)
LEMMA HandledFact ==
  ASSUME NEW w, Good(w), NEW command, command[1] \in Requests \cup {"Walked"},
         NEW late, NEW accepts, NEW opens \in BOOLEAN, NEW subsongs
  PROVE  Good(Handled(w, command, late, accepts, opens, subsongs))
<1> DEFINE v == Handled(w, command, late, accepts, opens, subsongs)
<1>1. CASE command[1] = "Open"
  BY <1>1, StartQueueFact DEF Handled, Open
<1>2. CASE command[1] = "PlayRows"
  <2>1. v = PlayRows(w, command[2], command[3])
    BY <1>2 DEF Handled
  <2>2. QED
    BY <2>1, StartQueueFact DEF PlayRows
<1>3. CASE command[1] = "Stop"
  BY <1>3, StopFact DEF Handled
<1>4. CASE command[1] = "TogglePause"
  BY <1>4, HoldFact DEF Handled
<1>5. CASE command[1] = "Seek"
  BY <1>5, SeekFact DEF Handled
<1>6. CASE command[1] = "Next"
  BY <1>6, RequeuedFact DEF Handled
<1>7. CASE command[1] = "Previous"
  BY <1>7, PreviousFact DEF Handled
<1>8. CASE command[1] = "SetSubsong"
  BY <1>8, MountFact DEF Handled, SetSubsong
<1>9. CASE command[1] = "SetLoop"
  <2>1. v = SetLoop(w, command[2])
    BY <1>9 DEF Handled
  <2>2. Good([w EXCEPT !.loop = command[2], !.playlist = SetMode(@, PlaylistMode(command[2]))])
    BY DEF Good, IsWorker, IsRecord, Sounds, Shows
  <2>3. QED
    BY <2>1, <2>2, PublishFact DEF SetLoop
<1>10. CASE command[1] = "SetVolume"
  <2>1. v = SetVolume(w, command[2])
    BY <1>10 DEF Handled
  <2>2. \A x : Good([w EXCEPT !.volume = x])
    BY DEF Good, IsWorker, IsRecord, Sounds, Shows
  <2>3. QED
    BY <2>1, <2>2 DEF SetVolume
<1>11. CASE command[1] = "ClearQueue"
  <2>1. v = ClearQueue(w)
    BY <1>11 DEF Handled
  <2>2. \A p : Good(PublishQueue([w EXCEPT !.playlist = p]))
    BY RequeuedFact, PublishFact
  <2>3. QED
    BY <2>1, <2>2, PublishFact DEF ClearQueue
<1>12. CASE command[1] = "ScanLibrary"
  BY <1>12, LibraryFact DEF Handled
<1>13. CASE command[1] = "Walked"
  BY <1>13, LibraryFact DEF Handled
<1>14. QED
  BY <1>1, <1>2, <1>3, <1>4, <1>5, <1>6, <1>7, <1>8, <1>9, <1>10, <1>11, <1>12, <1>13
     DEF Requests

(* Either of two numbers is their least. *)
LEMMA MinFact ==
  ASSUME NEW a \in Int, NEW b \in Int
  PROVE  Min({a, b}) = IF a <= b THEN a ELSE b
  BY DEF Min

(* The ring is topped up while the song plays, or the song is given up. *)
LEMMA RenderFact ==
  ASSUME NEW w, Good(w), NEW frames \in Int, Renders(w.backend, frames)
  PROVE  /\ Good(RenderFailed(w))
         /\ \A finished \in BOOLEAN :
              Good([w EXCEPT !.ring = @ + frames, !.backend = Render(@, finished)])
<1>1. Good(RenderFailed(w))
  <2> DEFINE u == [Unmount(w) EXCEPT !.status = "Error"]
  <2>1. Good(u)
    BY UnmountFact
  <2>2. RenderFailed(w) = [u EXCEPT !.playlist = OnFailed(Unmount(w).playlist)]
    BY DEF RenderFailed
  <2>3. QED
    <3> HIDE DEF u
    <3>1. QED
      BY <2>1, <2>2, RequeuedFact
<1>2. ASSUME NEW finished \in BOOLEAN
      PROVE  Good([w EXCEPT !.ring = @ + frames, !.backend = Render(@, finished)])
  <2> DEFINE v == [w EXCEPT !.ring = @ + frames, !.backend = Render(@, finished)]
  <2>1. /\ IsWorker(v) /\ v.backend.status \in {"Playing", "Finished"}
        /\ v.backend.song = w.backend.song /\ v.backend.subsong = w.backend.subsong
        /\ v.status = w.status /\ v.ring = w.ring + frames /\ v.playing = w.playing
        /\ v.docs = w.docs /\ v.library = w.library
    BY DEF Good, IsWorker, IsRecord, Render, Renders
  <2>2. w.backend.status = "Playing" /\ frames > 0
    BY DEF Renders
  <2>3. Sounds(v)
    <3> HIDE DEF v
    <3>1. QED
      BY <2>1, <2>2 DEF Good, Sounds, IsLive, PlaybackStatus
  <2>4. QED
    <3> HIDE DEF v
    <3>1. Good(v)
      BY <2>1, <2>3 DEF Good, Shows
    <3>2. QED
      BY <3>1 DEF v
<1>3. QED
  BY <1>1, <1>2

(* A song that has ended makes way for the next, or the player rests. *)
LEMMA EndFact ==
  ASSUME NEW w, Good(w)
  PROVE  Good(SongEnded(w))
<1> DEFINE ended == [w EXCEPT !.playlist = OnFinished(@)]
<1>1. Good(ended)
  BY RequeuedFact
<1> HIDE DEF ended
<1>2. Good([Unmount([ended EXCEPT !.playlist = Stop(@)]) EXCEPT !.status = "Finished"])
  BY <1>1, RequeuedFact, UnmountFact
<1>3. QED
  BY <1>1, <1>2, PublishFact DEF SongEnded, ended

-----------------------------------------------------------------------------

(* What may be in the channel: what was asked, the walks that are over,    *)
(* and the session's last word.                                            *)
Roots    == {request[2] : request \in Asked}
Commands == Asked \cup ({"Walked"} \X Roots) \cup {<<"Quit">>}

ChannelOK ==
  /\ commands \in Seq(Commands)
  /\ walks \in Seq(Roots)

BridgeInv == Good(worker) /\ ChannelOK

LEMMA InitGood ==
  ASSUME Init
  PROVE  BridgeInv
<1>1. PICK library \in Libraries :
       worker = [playlist |-> NewEngine, backend |-> Closed, playing |-> Nothing, ring |-> 0,
                 library |-> library, loop |-> "Off", volume |-> FullVolume, status |-> "Idle",
                 docs |-> [library |-> library.entries, track |-> Nothing, queue |-> <<>>]]
  BY DEF Init
<1>2. IsRecord(library, {"root", "pending", "entries"})
  BY DEF Libraries, IsRecord
<1>3. Good(worker)
  BY <1>1, <1>2 DEF Good, IsWorker, IsRecord, Sounds, Shows, Closed, Nothing, NoTrack,
                    PlaybackStatus, IsLive
<1>4. ChannelOK
  BY DEF Init, ChannelOK
<1>5. QED
  BY <1>3, <1>4 DEF BridgeInv

(* The worker takes a command that was sent. *)
LEMMA TakeKeeps ==
  ASSUME BridgeInv, TakeCommand
  PROVE  BridgeInv'
<1>1. PICK late, accepts \in BOOLEAN : \E opens \in Opens(worker.playing.track.path) :
        worker' = Handled(worker, Head(commands), late, accepts, opens, 2)
  BY DEF TakeCommand
<1>2. PICK opens \in Opens(worker.playing.track.path) :
        worker' = Handled(worker, Head(commands), late, accepts, opens, 2)
  BY <1>1
<1>3. /\ Head(commands) \in Commands /\ Tail(commands) \in Seq(Commands)
      /\ Head(commands)[1] # "Quit"
  BY DEF TakeCommand, BridgeInv, ChannelOK
<1>4. /\ Head(commands)[1] \in Requests \cup {"Walked"}
      /\ Head(commands)[1] = "ScanLibrary" => Head(commands) \in Asked
  BY <1>3, AskedAssumption DEF Commands
<1>5. opens \in BOOLEAN
  BY <1>2 DEF Opens
<1>6. Good(worker')
  BY <1>2, <1>4, <1>5, HandledFact DEF BridgeInv
<1>7. walks' \in Seq(Roots)
  <2>1. Head(commands)[1] = "ScanLibrary" => Head(commands)[2] \in Roots
    BY <1>4 DEF Roots
  <2>2. QED
    BY <2>1 DEF TakeCommand, BridgeInv, ChannelOK
<1>8. QED
  BY <1>3, <1>6, <1>7 DEF BridgeInv, ChannelOK, TakeCommand

(* The rest of a turn. *)
LEMMA PollKeeps ==
  ASSUME BridgeInv, PollPlaylist
  PROVE  Good(worker')
<1> DEFINE polled == [worker EXCEPT !.playlist = Poll(@)]
           track  == PolledItem(worker.playlist).song
<1>1. Good(polled)
  BY RequeuedFact DEF BridgeInv
<1>2. \/ worker' \in {worker, polled}
      \/ \E opens \in Opens(track.path) : worker' = MountTrack(polled, track, 0, opens)
  BY DEF PollPlaylist, Goes
<1>3. \A opens \in Opens(track.path) : opens \in BOOLEAN
  BY DEF Opens
<1> HIDE DEF polled, track
<1>4. QED
  BY <1>1, <1>2, <1>3, MountFact DEF BridgeInv

LEMMA EndKeeps ==
  ASSUME BridgeInv, SeeToEnd
  PROVE  Good(worker')
<1>1. \/ worker' \in {worker, SongEnded(worker)}
      \/ worker' = Rewound(worker) /\ worker.backend.status = "Finished"
  BY DEF SeeToEnd, Goes
<1>2. QED
  BY <1>1, EndFact, SeekFact DEF BridgeInv, IsLive

LEMMA TopUpKeeps ==
  ASSUME BridgeInv, TopUp
  PROVE  Good(worker')
<1>1. PICK earned \in 0..MaxFrames :
        LET frames == FramesDue(worker.ring, earned)
        IN  IF ~Renders(worker.backend, frames) THEN Goes("top_up", "scan", worker)
            ELSE \/ MayFail /\ Goes("top_up", "scan", RenderFailed(worker))
                 \/ \E finished \in BOOLEAN :
                      Goes("top_up", "scan",
                           [worker EXCEPT !.ring = @ + frames,
                                          !.backend = Render(@, finished)])
  BY DEF TopUp
<1> DEFINE frames == FramesDue(worker.ring, earned)
<1>2. frames \in Int
  BY MinFact, RingAssumption DEF FramesDue, BridgeInv, Good, Sounds
<1> HIDE DEF frames
<1>3. CASE ~Renders(worker.backend, frames)
  BY <1>1, <1>3 DEF Goes, BridgeInv, frames
<1>4. CASE Renders(worker.backend, frames)
  <2>1. \/ worker' = RenderFailed(worker)
        \/ \E finished \in BOOLEAN :
             worker' = [worker EXCEPT !.ring = @ + frames, !.backend = Render(@, finished)]
    BY <1>1, <1>4 DEF Goes, frames
  <2>2. Good(RenderFailed(worker)) /\ \A finished \in BOOLEAN :
          Good([worker EXCEPT !.ring = @ + frames, !.backend = Render(@, finished)])
    <3>1. Good(worker)
      BY DEF BridgeInv
    <3>2. QED
      BY <1>2, <1>4, <3>1, RenderFact
  <2>3. CASE worker' = RenderFailed(worker)
    BY <2>2, <2>3
  <2>4. ASSUME NEW finished \in BOOLEAN,
               worker' = [worker EXCEPT !.ring = @ + frames, !.backend = Render(@, finished)]
        PROVE  Good(worker')
    <3>1. Good([worker EXCEPT !.ring = @ + frames, !.backend = Render(@, finished)])
      BY <2>2
    <3>2. QED
      BY <2>4, <3>1
  <2>5. QED
    BY <2>1, <2>3, <2>4
<1>5. QED
  BY <1>3, <1>4

LEMMA ScanKeeps ==
  ASSUME BridgeInv, ScanStep
  PROVE  Good(worker')
  BY ScanFact DEF ScanStep, Goes, BridgeInv

(* No step makes what is heard and shown disagree. *)
LEMMA BridgeStep ==
  ASSUME BridgeInv, [Next]_vars
  PROVE  BridgeInv'
<1>1. CASE TakeCommand
  BY <1>1, TakeKeeps
<1>2. CASE PollPlaylist \/ SeeToEnd \/ TopUp \/ ScanStep
  <2>1. Good(worker')
    BY <1>2, PollKeeps, EndKeeps, TopUpKeeps, ScanKeeps
  <2>2. UNCHANGED <<commands, walks>>
    BY <1>2 DEF PollPlaylist, SeeToEnd, TopUp, ScanStep, Goes
  <2>3. QED
    BY <2>1, <2>2 DEF BridgeInv, ChannelOK
<1>3. CASE NoCommand \/ TakeQuit \/ DecoderHangs \/ Closing
  BY <1>3 DEF NoCommand, TakeQuit, DecoderHangs, Goes, Closing, JoinWorker, LeaveBehind,
              BridgeInv, ChannelOK
<1>4. CASE DrainRing
  <2> DEFINE w == worker
             v == [w EXCEPT !.ring = @ - 1]
  <2>1. Good(v)
    <3>1. Good(w) /\ w.ring > 0
      BY <1>4 DEF DrainRing, BridgeInv
    <3>2. /\ IsWorker(v) /\ v.ring = w.ring - 1 /\ v.backend = w.backend
          /\ v.status = w.status /\ v.playing = w.playing /\ v.docs = w.docs
          /\ v.library = w.library
      BY <3>1 DEF Good, IsWorker, IsRecord
    <3>3. QED
      <4> HIDE DEF v, w
      <4>1. Sounds(v)
        BY <3>1, <3>2 DEF Good, Sounds
      <4>2. QED
        BY <3>1, <3>2, <4>1 DEF Good, Shows
  <2>2. QED
    <3>1. worker' = v
      BY <1>4 DEF DrainRing
    <3>2. Good(worker')
      <4> HIDE DEF v
      <4>1. QED
        BY <2>1, <3>1
    <3>3. QED
      BY <1>4, <3>2 DEF DrainRing, BridgeInv, ChannelOK
<1>5. CASE FinishWalk
  <2>1. PICK i \in DOMAIN walks : /\ commands' = Append(commands, <<"Walked", walks[i]>>)
                                  /\ walks' = RemoveAt(walks, i)
    BY <1>5 DEF FinishWalk
  <2>2. i \in 1..Len(walks) /\ walks[i] \in Roots
    BY <2>1 DEF BridgeInv, ChannelOK
  <2>3. <<"Walked", walks[i]>> \in Commands
    BY <2>2 DEF Commands
  <2>4. commands' \in Seq(Commands)
    BY <2>1, <2>3 DEF BridgeInv, ChannelOK
  <2>5. walks' \in Seq(Roots)
    BY <2>1, <2>2 DEF BridgeInv, ChannelOK, RemoveAt
  <2>6. QED
    BY <1>5, <2>4, <2>5 DEF FinishWalk, BridgeInv, ChannelOK
<1>6. CASE Send
  <2>1. commands' \in Seq(Commands)
    BY <1>6 DEF Send, BridgeInv, ChannelOK, Commands
  <2>2. QED
    BY <1>6, <2>1 DEF Send, BridgeInv, ChannelOK
<1>7. CASE DropSession
  <2>1. commands' \in Seq(Commands)
    BY <1>7 DEF DropSession, BridgeInv, ChannelOK, Commands
  <2>2. QED
    BY <1>7, <2>1 DEF DropSession, BridgeInv, ChannelOK
<1>8. CASE UNCHANGED vars
  BY <1>8 DEF vars, BridgeInv, ChannelOK
<1>9. QED
  BY <1>1, <1>2, <1>3, <1>4, <1>5, <1>6, <1>7, <1>8 DEF Next, Turn

LEMMA BridgeHolds == Spec => []BridgeInv
<1>1. Init => BridgeInv
  BY InitGood
<1>2. BridgeInv /\ [Next]_vars => BridgeInv'
  BY BridgeStep
<1>3. QED
  BY <1>1, <1>2, PTL DEF Spec

(* The status the UI is shown is the backend's, whatever the commands, the *)
(* failures to mount and to render, the ends of songs and the pauses.      *)
THEOREM StatusIsTrueHolds == Spec => []StatusIsTrue
<1>1. BridgeInv => StatusIsTrue
  BY DEF BridgeInv, Good, Sounds, StatusIsTrue
<1>2. QED
  BY <1>1, BridgeHolds, PTL

(* No sample of a song that was held, stopped, replaced or failed stays in *)
(* the ring, whatever its depth and its marks.                             *)
THEOREM SilentAtRestHolds == Spec => []SilentAtRest
<1>1. BridgeInv => SilentAtRest
  BY DEF BridgeInv, Good, Sounds, SilentAtRest
<1>2. QED
  BY <1>1, BridgeHolds, PTL

-----------------------------------------------------------------------------
(* The queue.  What follows the current item is published by whoever       *)
(* changes it, so the document is current as long as the other calls       *)
(* change nothing that follows: a poll that hands nothing out has come to  *)
(* the end, which rests on where the cursor may stand.                     *)

IsSeq(s) == \E S : s \in Seq(S)

IsList(list) ==
  /\ IsRecord(list, {"name", "items", "content", "structure", "saved"})
  /\ IsSeq(list.items)

IsEngine(e) ==
  /\ IsRecord(e, {"lists", "nextList", "nextItem", "revision", "cursor", "mode"})
  /\ IsRecord(e.cursor, {"list", "current", "position", "pending", "failures", "removed"})
  /\ \A l \in DOMAIN e.lists : IsList(e.lists[l])
  /\ e.nextList \in Nat /\ e.nextItem \in 0..MaxId

(* Where the cursor stands in its playlist; 0 before an item is polled.    *)
Queue(e) == Items(e, e.cursor.list)
Row(e)   == IndexOf(Queue(e), e.cursor.current)

(* Only a start may be behind the last item, when the queue was cut at the *)
(* cursor; a song going is in its playlist, with one before it when the    *)
(* cursor is to go back.                                                   *)
Places(e) ==
  Playing(e) =>
    /\ Stored(e, e.cursor.list)
    /\ e.cursor.pending \in {"None", "Start", "Forward", "Backward"}
    /\ e.cursor.pending = "Start" => /\ e.cursor.position \in Nat \ {0}
                                     /\ \/ e.cursor.position <= Len(Queue(e))
                                        \/ Row(e) = Len(Queue(e))
    /\ e.cursor.pending # "Start" => Row(e) # 0
    /\ e.cursor.pending = "Backward" => Row(e) > 1

QueueOK(e) == IsEngine(e) /\ Places(e)

(* What QueueDoc says of an engine. *)
Ahead(e) ==
  IF ~Playing(e) THEN <<>>
  ELSE [i \in 1..(Len(Queue(e)) - Row(e)) |-> Queue(e)[Row(e) + i].song]

(* The queue document is the one published, but for an error. *)
Told(w) == w.status # "Error" => w.docs.queue = Ahead(w.playlist)

Queued(w) == QueueOK(w.playlist) /\ Told(w)

(* A set of numbers that is not empty has a least one. *)
LEMMA LeastExists ==
  ASSUME NEW T \in SUBSET Nat, T # {}
  PROVE  Ext!Min(T) \in T /\ \A i \in T : Ext!Min(T) <= i
<1> DEFINE R == OpToRel(<, Nat)
<1>1. IsWellFoundedOn(R, Nat)
  BY NatLessThanWellFounded
<1>2. \A x, y \in Nat : x < y => <<x, y>> \in R
  BY Zenon DEF OpToRel
<1> HIDE DEF R
<1>3. PICK x \in T : \A y \in T : ~ (<<y, x>> \in R)
  BY <1>1, WFMin, Zenon
<1>4. \A y \in T : ~ (y < x)
  BY <1>2, <1>3
<1>5. \A y \in T : x <= y
  BY <1>4
<1>6. QED
  BY <1>5 DEF Ext!Min

(* A set that holds 0, and the successor of each number it holds, holds    *)
(* every number.                                                           *)
LEMMA NatClosed ==
  ASSUME NEW S, 0 \in S, \A n \in Nat : n \in S => n + 1 \in S
  PROVE  Nat \subseteq S
<1> SUFFICES ASSUME Nat \ S # {} PROVE FALSE
  OBVIOUS
<1> DEFINE n == Ext!Min(Nat \ S)
<1>1. n \in Nat \ S /\ \A m \in Nat \ S : n <= m
  BY LeastExists
<1> HIDE DEF n
<1>2. n - 1 \in Nat /\ n - 1 \in S
  BY <1>1
<1>3. QED
  BY <1>1, <1>2

(* IndexOf finds the first item that has the id, if there is one. *)
LEMMA IndexFact ==
  ASSUME NEW items, IsSeq(items), NEW id
  PROVE  /\ IndexOf(items, id) \in 0..Len(items) /\ Len(items) \in Nat
         /\ IndexOf(items, id) # 0 => items[IndexOf(items, id)].id = id
         /\ \A i \in 1..Len(items) : items[i].id = id =>
              IndexOf(items, id) # 0 /\ IndexOf(items, id) <= i
<1> DEFINE at == {i \in 1..Len(items) : items[i].id = id}
<1>1. IndexOf(items, id) = IF at # {} THEN Ext!Min(at) ELSE 0
  BY DEF IndexOf, Ext!SelectInSeq
<1>2. Len(items) \in Nat
  BY DEF IsSeq
<1>3. at # {} => Ext!Min(at) \in at /\ \A i \in at : Ext!Min(at) <= i
  <2>1. at \in SUBSET Nat
    OBVIOUS
  <2> HIDE DEF at
  <2>2. QED
    BY <2>1, LeastExists
<1>4. CASE at = {}
  <2>1. IndexOf(items, id) = 0
    <3> HIDE DEF at
    <3>1. QED
      BY <1>1, <1>4
  <2>2. QED
    BY <1>2, <1>4, <2>1
<1>5. CASE at # {}
  <2>1. IndexOf(items, id) \in at /\ \A i \in at : IndexOf(items, id) <= i
    <3> HIDE DEF at
    <3>1. QED
      BY <1>1, <1>3, <1>5
  <2>2. QED
    BY <1>2, <2>1
<1>6. QED
  BY <1>4, <1>5

(* The recursion that Known is defined by has a solution. *)
LEMMA KnownRecursion ==
  ASSUME NEW rows \in Seq(Nat), NEW entries
  PROVE  \E known :
           /\ Known(rows, entries) = known[Len(rows)] /\ known[0] = <<>>
           /\ \A i \in 1..Len(rows) :
                known[i] = IF rows[i] \in DOMAIN entries THEN Append(known[i - 1], rows[i])
                           ELSE known[i - 1]
<1> DEFINE Step(f, i) == IF i = 0 THEN <<>>
                         ELSE IF rows[i] \in DOMAIN entries THEN Append(f[i - 1], rows[i])
                         ELSE f[i - 1]
           Solves(n, f) == f = [i \in 0..n |-> Step(f, i)]
           S == {n \in Nat : \E f : Solves(n, f)}
<1>1. 0 \in S
  <2>1. Solves(0, [i \in 0..0 |-> <<>>])
    OBVIOUS
  <2>2. QED
    BY <2>1
<1>2. ASSUME NEW n \in Nat, n \in S
      PROVE  n + 1 \in S
  <2>1. PICK f : Solves(n, f)
    BY <1>2
  <2> DEFINE g == [i \in 0..(n + 1) |-> IF i = n + 1 THEN Step(f, i) ELSE f[i]]
  <2>2. ASSUME NEW i \in 0..(n + 1)
        PROVE  g[i] = Step(f, i)
    <3> HIDE DEF Step
    <3>1. CASE i = n + 1
      BY <3>1
    <3>2. CASE i # n + 1
      <4>1. i \in 0..n
        BY <3>2
      <4>2. g[i] = f[i] /\ f[i] = Step(f, i)
        BY <2>1, <3>2, <4>1
      <4>3. QED
        BY <4>2
    <3>3. QED
      BY <3>1, <3>2
  <2>3. ASSUME NEW i \in 0..(n + 1), i # 0
        PROVE  g[i - 1] = f[i - 1]
    BY <2>3
  <2>4. \A i \in 0..(n + 1) : g[i] = Step(g, i)
    <3> HIDE DEF g
    <3>1. QED
      BY <2>2, <2>3
  <2> HIDE DEF Step
  <2>5. Solves(n + 1, g)
    BY <2>4
  <2> HIDE DEF Solves, g
  <2>6. QED
    BY <2>5
<1>3. Len(rows) \in Nat
  OBVIOUS
<1>4. Len(rows) \in S
  <2> HIDE DEF S
  <2>1. QED
    BY <1>1, <1>2, <1>3, NatClosed
<1> DEFINE known == CHOOSE f : Solves(Len(rows), f)
<1>5. Solves(Len(rows), known)
  <2> HIDE DEF Solves
  <2>1. QED
    BY <1>4
<1>6. Known(rows, entries) = known[Len(rows)]
  BY DEF Known
<1> HIDE DEF known
<1>7. \A i \in 0..Len(rows) : known[i] = Step(known, i)
  BY <1>5
<1>8. QED
  BY <1>3, <1>6, <1>7

(* The rows there are are a sequence of rows. *)
LEMMA KnownFact ==
  ASSUME NEW rows \in Seq(Nat), NEW entries
  PROVE  Known(rows, entries) \in Seq(Nat)
<1>1. PICK known :
        /\ Known(rows, entries) = known[Len(rows)] /\ known[0] = <<>>
        /\ \A i \in 1..Len(rows) :
             known[i] = IF rows[i] \in DOMAIN entries THEN Append(known[i - 1], rows[i])
                        ELSE known[i - 1]
  BY KnownRecursion
<1>2. Len(rows) \in Nat /\ \A i \in 1..Len(rows) : rows[i] \in Nat
  OBVIOUS
<1> DEFINE H == {i \in Nat : i <= Len(rows) => known[i] \in Seq(Nat)}
<1>3. 0 \in H
  <2>1. known[0] \in Seq(Nat)
    BY <1>1
  <2>2. QED
    BY <2>1
<1>4. ASSUME NEW n \in Nat, n \in H
      PROVE  n + 1 \in H
  <2> SUFFICES ASSUME n + 1 <= Len(rows)
               PROVE  known[n + 1] \in Seq(Nat)
    OBVIOUS
  <2>1. n + 1 \in 1..Len(rows) /\ n <= Len(rows) /\ (n + 1) - 1 = n
    BY <1>2
  <2>2. known[n] \in Seq(Nat) /\ rows[n + 1] \in Nat
    BY <1>2, <1>4, <2>1
  <2>3. known[n + 1] = IF rows[n + 1] \in DOMAIN entries THEN Append(known[n], rows[n + 1])
                       ELSE known[n]
    BY <1>1, <2>1
  <2>4. QED
    BY <2>2, <2>3
<1>5. Len(rows) \in H
  <2> HIDE DEF H
  <2>1. QED
    BY <1>2, <1>3, <1>4, NatClosed
<1>6. QED
  BY <1>1, <1>2, <1>5

-----------------------------------------------------------------------------
(* The calls of the playlist. *)

LEMMA RowFact ==
  ASSUME NEW e, QueueOK(e), Playing(e)
  PROVE  /\ IsSeq(Queue(e)) /\ Len(Queue(e)) \in Nat /\ Row(e) \in 0..Len(Queue(e))
         /\ Row(e) # 0 => Queue(e)[Row(e)].id = e.cursor.current
         /\ \A i \in 1..Len(Queue(e)) : Queue(e)[i].id = e.cursor.current =>
              Row(e) # 0 /\ Row(e) <= i
<1>1. IsSeq(Queue(e))
  BY DEF QueueOK, IsEngine, IsList, Places, Stored, Queue, Items
<1>2. QED
  BY <1>1, IndexFact DEF Row

(* Two engines at the same place have the same ahead of them. *)
LEMMA SamePlace ==
  ASSUME NEW e, NEW f, e.lists = f.lists, e.cursor.list = f.cursor.list,
         e.cursor.current = f.cursor.current, Playing(e), Playing(f)
  PROVE  Ahead(e) = Ahead(f) /\ Queue(e) = Queue(f) /\ Row(e) = Row(f)
  BY DEF Ahead, Queue, Row, Items

(* A cursor that turns around, or waits to go on, stays at its place. *)
Turned(e, pending, failures) ==
  [e EXCEPT !.cursor.failures = failures, !.cursor.pending = pending]

LEMMA TurnFact ==
  ASSUME NEW e, QueueOK(e), Playing(e), e.cursor.pending # "Start",
         NEW pending \in {"Forward", "Backward"}, pending = "Backward" => Row(e) > 1,
         NEW failures
  PROVE  /\ QueueOK(Turned(e, pending, failures))
         /\ Ahead(Turned(e, pending, failures)) = Ahead(e)
         /\ Turned(e, pending, failures).nextList = e.nextList
<1> DEFINE f == Turned(e, pending, failures)
<1>1. /\ IsEngine(f) /\ f.lists = e.lists /\ f.cursor.list = e.cursor.list
      /\ f.cursor.current = e.cursor.current /\ f.cursor.pending = pending
      /\ f.nextList = e.nextList
  BY DEF Turned, QueueOK, IsEngine, IsRecord
<1> HIDE DEF f
<1>2. Playing(f)
  BY <1>1 DEF Playing, NoCursor
<1>3. Ahead(f) = Ahead(e) /\ Queue(f) = Queue(e) /\ Row(f) = Row(e)
  BY <1>1, <1>2, SamePlace
<1>4. Row(e) # 0 /\ Stored(e, e.cursor.list)
  BY DEF QueueOK, Places
<1>5. Places(f)
  BY <1>1, <1>3, <1>4 DEF Places, Stored
<1>6. QED
  BY <1>1, <1>3, <1>5 DEF QueueOK, f

(* A song that ends, fails or is left while the cursor is at rest. *)
LEMMA AdvanceFact ==
  ASSUME NEW e, QueueOK(e)
  PROVE  /\ QueueOK(OnFinished(e)) /\ Ahead(OnFinished(e)) = Ahead(e)
         /\ OnFinished(e).nextList = e.nextList
         /\ NextItem(e) = OnFinished(e)
<1>1. AtRest(e) => /\ QueueOK(Advance(e)) /\ Ahead(Advance(e)) = Ahead(e)
                   /\ Advance(e).nextList = e.nextList
  <2>1. Advance(e) = Turned(e, "Forward", 0)
    BY DEF Advance, Turned
  <2>2. QED
    BY <2>1, TurnFact DEF AtRest
<1>2. QED
  BY <1>1 DEF OnFinished, NextItem

LEMMA PreviousItemFact ==
  ASSUME NEW e, QueueOK(e), Playing(e), Row(e) > 1
  PROVE  /\ QueueOK(Previous(e)) /\ Ahead(Previous(e)) = Ahead(e)
         /\ Previous(e).nextList = e.nextList
<1>1. Previous(e) = IF e.cursor.pending = "None" /\ PreviousPosition(e) > 0
                    THEN Turned(e, "Backward", 0) ELSE e
  BY DEF Previous, Turned
<1>2. QED
  BY <1>1, TurnFact

LEMMA SetModeFact ==
  ASSUME NEW e, QueueOK(e), NEW mode
  PROVE  /\ QueueOK(SetMode(e, mode)) /\ Ahead(SetMode(e, mode)) = Ahead(e)
         /\ SetMode(e, mode).nextList = e.nextList
<1> DEFINE f == SetMode(e, mode)
<1>1. /\ IsEngine(f) /\ f.lists = e.lists /\ f.cursor = e.cursor /\ f.nextList = e.nextList
  BY DEF SetMode, QueueOK, IsEngine, IsRecord
<1> HIDE DEF f
<1>2. Ahead(f) = Ahead(e) /\ Places(f)
  BY <1>1 DEF Ahead, Queue, Row, Items, Places, Playing, Stored, QueueOK
<1>3. QED
  BY <1>1, <1>2 DEF QueueOK, f

(* Nothing plays once stopped, and a playlist that is used up goes. *)
LEMMA StoppedFact ==
  ASSUME NEW e, QueueOK(e)
  PROVE  /\ QueueOK(Stop(e)) /\ ~Playing(Stop(e)) /\ Ahead(Stop(e)) = <<>>
         /\ Stop(e).nextList = e.nextList
<1> DEFINE f == [e EXCEPT !.cursor = NoCursor]
<1>1. /\ IsRecord(f, {"lists", "nextList", "nextItem", "revision", "cursor", "mode"})
      /\ f.lists = e.lists /\ f.cursor = NoCursor
      /\ f.nextList = e.nextList /\ f.nextItem = e.nextItem
  BY DEF QueueOK, IsEngine, IsRecord
<1>2. IsRecord(NoCursor, {"list", "current", "position", "pending", "failures", "removed"})
  BY DEF NoCursor, IsRecord
<1> HIDE DEF f
<1>3. IsEngine(f)
  BY <1>1, <1>2 DEF QueueOK, IsEngine
<1>4. ASSUME NEW id
      PROVE  /\ IsEngine(Without(f, id)) /\ Without(f, id).cursor = NoCursor
             /\ Without(f, id).nextList = f.nextList
  <2> DEFINE g == Without(f, id)
  <2>1. /\ IsRecord(g, {"lists", "nextList", "nextItem", "revision", "cursor", "mode"})
        /\ g.lists = Ext!Restrict(f.lists, DOMAIN f.lists \ {id}) /\ g.cursor = f.cursor
        /\ g.nextList = f.nextList /\ g.nextItem = f.nextItem
    BY <1>3 DEF Without, Touched, IsEngine, IsRecord
  <2> HIDE DEF g
  <2>2. \A l \in DOMAIN g.lists : l \in DOMAIN f.lists /\ g.lists[l] = f.lists[l]
    BY <2>1 DEF Ext!Restrict
  <2>3. QED
    BY <1>1, <1>3, <2>1, <2>2 DEF IsEngine, g
<1>5. Stop(e) = f \/ \E id : Stop(e) = Without(f, id)
  BY DEF Stop, f
<1>6. IsEngine(Stop(e)) /\ Stop(e).cursor = NoCursor /\ Stop(e).nextList = e.nextList
  BY <1>1, <1>3, <1>4, <1>5
<1>7. ~Playing(Stop(e))
  BY <1>6 DEF Playing
<1>8. QED
  BY <1>6, <1>7 DEF QueueOK, Places, Ahead

LEMMA OnFailedFact ==
  ASSUME NEW e, QueueOK(e)
  PROVE  QueueOK(OnFailed(e)) /\ OnFailed(e).nextList = e.nextList
<1> DEFINE failed == [e EXCEPT !.cursor.failures = @ + 1]
<1>1. CASE ~AtRest(e)
  BY <1>1 DEF OnFailed
<1>2. CASE AtRest(e)
  <2>1. Playing(e) /\ e.cursor.pending = "None"
    BY <1>2 DEF AtRest
  <2>2. QueueOK(Advance(e)) /\ Advance(e).nextList = e.nextList
    <3>1. Advance(e) = Turned(e, "Forward", 0)
      BY DEF Advance, Turned
    <3>2. QED
      BY <2>1, <3>1, TurnFact
  <2>3. LET f == [failed EXCEPT !.cursor.pending = "Forward"]
        IN  QueueOK(f) /\ f.nextList = e.nextList
    <3>1. [failed EXCEPT !.cursor.pending = "Forward"]
            = Turned(e, "Forward", e.cursor.failures + 1)
      BY DEF Turned, QueueOK, IsEngine, IsRecord
    <3>2. QED
      BY <2>1, <3>1, TurnFact
  <2>4. QueueOK(Stop(failed)) /\ Stop(failed).nextList = e.nextList
    <3>1. Stop(failed) = Stop(e)
      BY DEF Stop, Stored, QueueOK, IsEngine, IsRecord
    <3>2. QED
      BY <3>1, StoppedFact
  <2>5. QED
    BY <1>2, <2>2, <2>3, <2>4 DEF OnFailed
<1>3. QED
  BY <1>1, <1>2

(* Where a poll goes: to an item, or nowhere after the last. *)
LEMMA TargetFact ==
  ASSUME NEW e, QueueOK(e), CanPoll(e)
  PROVE  /\ TargetPosition(e) \in 0..Len(Queue(e))
         /\ TargetPosition(e) = 0 => Row(e) = Len(Queue(e))
<1>1. /\ Playing(e) /\ e.cursor.pending # "None" /\ Stored(e, e.cursor.list)
      /\ e.cursor.pending \in {"Start", "Forward", "Backward"}
  BY DEF CanPoll, QueueOK, Places
<1>2. /\ IsSeq(Queue(e)) /\ Len(Queue(e)) \in Nat /\ Row(e) \in 0..Len(Queue(e))
  BY <1>1, RowFact
<1>3. CASE e.cursor.pending = "Start"
  <2>1. /\ e.cursor.position \in Nat \ {0}
        /\ e.cursor.position <= Len(Queue(e)) \/ Row(e) = Len(Queue(e))
    BY <1>1, <1>3 DEF QueueOK, Places
  <2>2. TargetPosition(e) = IF e.cursor.position > Len(Queue(e)) THEN 0 ELSE e.cursor.position
    BY <1>3 DEF TargetPosition, Queue
  <2>3. QED
    BY <1>2, <2>1, <2>2
<1>4. CASE e.cursor.pending = "Forward"
  <2>1. Row(e) # 0
    BY <1>1, <1>4 DEF QueueOK, Places
  <2>2. Queue(e) # <<>>
    BY <1>2, <2>1
  <2>3. TargetPosition(e) = ForwardPosition(e)
    BY <1>4 DEF TargetPosition
  <2>4. ForwardPosition(e) = IF Row(e) + 1 <= Len(Queue(e)) THEN Row(e) + 1
                             ELSE IF e.mode = Loop THEN 1 ELSE 0
    BY <1>1, <2>1, <2>2 DEF ForwardPosition, Queue, Row
  <2>5. QED
    BY <1>2, <2>1, <2>3, <2>4
<1>5. CASE e.cursor.pending = "Backward"
  <2>1. Row(e) > 1
    BY <1>1, <1>5 DEF QueueOK, Places
  <2>2. TargetPosition(e) = PreviousPosition(e)
    BY <1>5 DEF TargetPosition
  <2>3. PreviousPosition(e) = Row(e) - 1
    BY <1>1, <1>2, <2>1 DEF PreviousPosition, Queue, Row
  <2>4. QED
    BY <1>2, <2>1, <2>2, <2>3
<1>6. QED
  BY <1>1, <1>3, <1>4, <1>5

(* A poll that hands nothing out had nothing ahead. *)
LEMMA PollFact ==
  ASSUME NEW e, QueueOK(e), CanPoll(e)
  PROVE  /\ QueueOK(Poll(e)) /\ Poll(e).nextList = e.nextList
         /\ ~Playing(Poll(e)) => Ahead(e) = <<>> /\ Ahead(Poll(e)) = <<>>
<1>1. Playing(e) /\ Stored(e, e.cursor.list)
  BY DEF CanPoll, QueueOK, Places
<1>2. /\ IsSeq(Queue(e)) /\ Len(Queue(e)) \in Nat
      /\ TargetPosition(e) \in 0..Len(Queue(e))
  BY <1>1, RowFact, TargetFact
<1>3. CASE TargetPosition(e) = 0
  <2>1. Row(e) = Len(Queue(e))
    BY <1>3, TargetFact
  <2>2. Ahead(e) = <<>>
    BY <1>1, <1>2, <2>1 DEF Ahead
  <2>3. QED
    BY <1>3, <2>2, StoppedFact DEF Poll
<1>4. CASE TargetPosition(e) # 0
  <2> DEFINE f == [e EXCEPT !.cursor.pending = "None", !.cursor.current = PolledItem(e).id,
                     !.cursor.position = TargetPosition(e), !.cursor.removed = FALSE]
  <2>1. /\ IsEngine(f) /\ f.lists = e.lists /\ f.cursor.list = e.cursor.list
        /\ f.cursor.current = PolledItem(e).id /\ f.cursor.pending = "None"
        /\ f.cursor.position = TargetPosition(e) /\ f.nextList = e.nextList
    BY DEF QueueOK, IsEngine, IsRecord
  <2>2. Poll(e) = f
    BY <1>4 DEF Poll
  <2> HIDE DEF f
  <2>3. Queue(f) = Queue(e) /\ Playing(f)
    <3>1. f.cursor.position # NoCursor.position
      BY <1>4, <2>1 DEF NoCursor
    <3>2. QED
      BY <2>1, <3>1 DEF Queue, Items, Playing
  <2>4. Row(f) # 0
    <3>1. TargetPosition(e) \in 1..Len(Queue(f))
      BY <1>2, <1>4, <2>3
    <3>2. Queue(f)[TargetPosition(e)].id = f.cursor.current
      BY <2>1, <2>3 DEF PolledItem, Queue
    <3>3. QED
      BY <1>2, <2>3, <3>1, <3>2, IndexFact DEF Row
  <2>5. QueueOK(f)
    BY <1>1, <2>1, <2>4 DEF QueueOK, Places, Stored
  <2>6. QED
    BY <2>1, <2>2, <2>3, <2>5
<1>5. QED
  BY <1>3, <1>4

(* A queue cut behind the current item leaves the cursor on the last one. *)
LEMMA CutFact ==
  ASSUME NEW e, QueueOK(e), Playing(e)
  PROVE  LET f == RemoveItemsPast(e, e.cursor.list, Row(e))
         IN  QueueOK(f) /\ f.nextList = e.nextList
<1> DEFINE f     == RemoveItemsPast(e, e.cursor.list, Row(e))
           kept  == Row(e)
           items == SubSeq(Queue(e), 1, kept)
           count == Len(Queue(e)) - kept
           list  == [e.lists[e.cursor.list] EXCEPT !.items = SubSeq(@, 1, kept),
                                                   !.content = @ + count, !.structure = @ + count]
<1>1. Stored(e, e.cursor.list) /\ IsList(e.lists[e.cursor.list])
  BY DEF QueueOK, IsEngine, Places, Stored
<1>2. /\ kept \in 0..Len(Queue(e)) /\ Len(Queue(e)) \in Nat
      /\ kept # 0 => Queue(e)[kept].id = e.cursor.current
      /\ \A i \in 1..Len(Queue(e)) : Queue(e)[i].id = e.cursor.current =>
           kept # 0 /\ kept <= i
  BY RowFact
<1>3. /\ IsSeq(items) /\ Len(items) = kept
      /\ \A i \in 1..kept : items[i] = Queue(e)[i]
  <2>1. PICK S : Queue(e) \in Seq(S)
    BY RowFact DEF IsSeq
  <2>2. items \in Seq(S) /\ Len(items) = kept /\ \A i \in 1..kept : items[i] = Queue(e)[i]
    <3> HIDE DEF kept
    <3>1. QED
      BY <1>2, <2>1
  <2>3. QED
    BY <2>2 DEF IsSeq
<1>4. /\ list.items = items
      /\ IsRecord(list, {"name", "items", "content", "structure", "saved"})
  <2> DEFINE old == e.lists[e.cursor.list]
  <2>1. Queue(e) = old.items /\ IsRecord(old, {"name", "items", "content", "structure", "saved"})
    BY <1>1 DEF IsList, Queue, Items
  <2> HIDE DEF kept, count, old
  <2>2. list = [old EXCEPT !.items = items, !.content = @ + count, !.structure = @ + count]
    BY <2>1 DEF old
  <2> HIDE DEF list, items
  <2>3. QED
    BY <2>1, <2>2 DEF IsRecord
<1>5. f = [e EXCEPT !.revision = @ + count, !.lists[e.cursor.list] = list]
  BY DEF RemoveItemsPast, Queue
<1> HIDE DEF f, list, kept
<1>6. /\ IsRecord(f, {"lists", "nextList", "nextItem", "revision", "cursor", "mode"})
      /\ f.cursor = e.cursor /\ f.nextList = e.nextList /\ f.nextItem = e.nextItem
      /\ DOMAIN f.lists = DOMAIN e.lists /\ f.lists[e.cursor.list] = list
      /\ \A l \in DOMAIN e.lists : l # e.cursor.list => f.lists[l] = e.lists[l]
  <2> HIDE DEF count
  <2>1. QED
    BY <1>1, <1>5 DEF QueueOK, IsEngine, IsRecord, Stored
<1> HIDE DEF items, count
<1>7. IsEngine(f)
  <2>1. IsList(f.lists[e.cursor.list])
    BY <1>3, <1>4, <1>6 DEF IsList
  <2>2. QED
    BY <1>6, <2>1 DEF QueueOK, IsEngine
<1>8. Queue(f) = items /\ Row(f) = IndexOf(items, e.cursor.current) /\ Playing(f)
  BY <1>4, <1>6 DEF Queue, Items, Row, Playing
<1>9. Row(f) = kept
  <2>1. /\ IndexOf(items, e.cursor.current) \in 0..kept
        /\ IndexOf(items, e.cursor.current) # 0 =>
             items[IndexOf(items, e.cursor.current)].id = e.cursor.current
        /\ \A i \in 1..kept : items[i].id = e.cursor.current =>
             IndexOf(items, e.cursor.current) # 0
    BY <1>3, IndexFact
  <2>2. QED
    BY <1>2, <1>3, <1>8, <2>1
<1>10. Places(f)
  BY <1>1, <1>2, <1>3, <1>6, <1>8, <1>9 DEF QueueOK, Places, Stored, kept
<1>11. QED
  BY <1>6, <1>7, <1>10 DEF QueueOK, f

(* A playlist that is made is empty, and filled as long as there are ids. *)
LEMMA CreateFact ==
  ASSUME NEW e, QueueOK(e), CanMint(e.nextList, 1), NEW name
  PROVE  LET f == Create(e, name)
         IN  /\ IsEngine(f) /\ f.cursor = e.cursor /\ f.nextList = e.nextList + 1
             /\ Stored(f, f.nextList)
<1> DEFINE f == Create(e, name)
           id == e.nextList + 1
<1>1. /\ IsRecord(f, {"lists", "nextList", "nextItem", "revision", "cursor", "mode"})
      /\ f.cursor = e.cursor /\ f.nextList = id /\ f.nextItem = e.nextItem
      /\ f.lists = [l \in DOMAIN e.lists \cup {id} |->
                      IF l = id THEN NewList(name, <<>>) ELSE e.lists[l]]
  BY DEF Create, Touched, QueueOK, IsEngine, IsRecord
<1>2. IsList(NewList(name, <<>>))
  BY DEF IsList, NewList, IsRecord, IsSeq
<1> HIDE DEF f
<1>3. id \in Nat
  BY DEF QueueOK, IsEngine
<1> HIDE DEF id
<1>4. IsEngine(f)
  BY <1>1, <1>2, <1>3 DEF QueueOK, IsEngine
<1>5. QED
  BY <1>1, <1>4 DEF Stored, f, id

LEMMA FillFact ==
  ASSUME NEW e, IsEngine(e), NEW id, Stored(e, id), NEW songs, IsSeq(songs)
  PROVE  LET f == AppendItems(e, id, songs)
         IN  /\ IsEngine(f) /\ f.cursor = e.cursor /\ f.nextList = e.nextList
             /\ Stored(f, id)
<1> DEFINE f     == AppendItems(e, id, songs)
           count == IF CanMint(e.nextItem, Len(songs)) THEN Len(songs) ELSE MaxId - e.nextItem
           items == [i \in 1..count |-> [id |-> e.nextItem + i, song |-> songs[i]]]
<1>1. Len(songs) \in Nat /\ e.nextItem \in 0..MaxId /\ IsList(e.lists[id])
  BY DEF IsSeq, IsEngine, Stored
<1>2. count \in Nat /\ e.nextItem + count \in 0..MaxId
  BY <1>1, MaxIdAssumption DEF CanMint
<1>3. /\ IsRecord(f, {"lists", "nextList", "nextItem", "revision", "cursor", "mode"})
      /\ f.cursor = e.cursor /\ f.nextList = e.nextList /\ f.nextItem = e.nextItem + count
      /\ DOMAIN f.lists = DOMAIN e.lists
      /\ \A l \in DOMAIN e.lists : l # id => f.lists[l] = e.lists[l]
      /\ f.lists[id] = [e.lists[id] EXCEPT !.items = @ \o items, !.content = @ + count]
  BY DEF AppendItems, IsEngine, IsRecord, Stored
<1> HIDE DEF f, count
<1>4. items \in Seq({items[i] : i \in 1..count})
  <2>1. items \in [1..count -> {items[i] : i \in 1..count}]
    OBVIOUS
  <2> HIDE DEF items
  <2>2. QED
    BY <1>2, <2>1
<1> HIDE DEF items
<1>5. IsSeq(e.lists[id].items \o items)
  <2>1. PICK S : e.lists[id].items \in Seq(S)
    BY <1>1 DEF IsList, IsSeq
  <2> DEFINE T == S \cup {items[i] : i \in 1..count}
  <2>2. e.lists[id].items \in Seq(T) /\ items \in Seq(T)
    BY <1>4, <2>1
  <2>3. e.lists[id].items \o items \in Seq(T)
    BY <2>2
  <2>4. QED
    BY <2>3 DEF IsSeq
<1>6. IsList(f.lists[id])
  BY <1>1, <1>3, <1>5 DEF IsList, IsRecord
<1>7. IsEngine(f)
  BY <1>2, <1>3, <1>6 DEF IsEngine
<1>8. QED
  BY <1>3, <1>7 DEF Stored, f

(* A playlist that starts does so at one of its items. *)
LEMMA StartFact ==
  ASSUME NEW e, QueueOK(e), NEW id, NEW from
  PROVE  QueueOK(Start(e, id, from)) /\ Start(e, id, from).nextList = e.nextList
<1> DEFINE stopped == Stop(e)
           items   == Items(stopped, id)
<1>1. QueueOK(stopped) /\ stopped.nextList = e.nextList
  BY StoppedFact
<1> HIDE DEF stopped
<1>2. CASE \/ ~Stored(stopped, id) \/ items = <<>>
           \/ from # NoId /\ IndexOf(items, from) = 0
  BY <1>1, <1>2 DEF Start, stopped
<1>3. CASE ~(\/ ~Stored(stopped, id) \/ items = <<>>
             \/ from # NoId /\ IndexOf(items, from) = 0)
  <2> DEFINE position == IF from = NoId THEN 1 ELSE IndexOf(items, from)
             cursor   == [NoCursor EXCEPT !.list = id, !.pending = "Start",
                                          !.position = position]
             f        == [stopped EXCEPT !.mode = Sequential, !.cursor = cursor]
  <2>1. Start(e, id, from) = f
    BY <1>3 DEF Start, stopped
  <2>2. IsSeq(items)
    BY <1>1, <1>3 DEF QueueOK, IsEngine, IsList, Stored, Items
  <2>3. Len(items) \in Nat \ {0}
    <3>1. PICK S : items \in Seq(S)
      BY <2>2 DEF IsSeq
    <3>2. items # <<>>
      BY <1>3
    <3> HIDE DEF items
    <3>3. QED
      BY <3>1, <3>2
  <2>4. position \in 1..Len(items)
    <3> HIDE DEF items
    <3>1. IndexOf(items, from) \in 0..Len(items)
      BY <2>2, IndexFact
    <3>2. QED
      BY <1>3, <2>3, <3>1
  <2> HIDE DEF position
  <2>5. /\ IsRecord(cursor, {"list", "current", "position", "pending", "failures", "removed"})
        /\ cursor.list = id /\ cursor.pending = "Start" /\ cursor.position = position
    BY DEF NoCursor, IsRecord
  <2> HIDE DEF cursor
  <2>6. /\ IsRecord(f, {"lists", "nextList", "nextItem", "revision", "cursor", "mode"})
        /\ f.lists = stopped.lists /\ f.cursor = cursor
        /\ f.nextList = stopped.nextList /\ f.nextItem = stopped.nextItem
    BY <1>1 DEF QueueOK, IsEngine, IsRecord
  <2> HIDE DEF f
  <2>7. IsEngine(f)
    BY <1>1, <2>5, <2>6 DEF QueueOK, IsEngine
  <2>8. Queue(f) = items /\ Stored(f, f.cursor.list)
    BY <1>3, <2>5, <2>6 DEF Queue, Items, Stored
  <2>9. Places(f)
    <3> HIDE DEF items
    <3>1. QED
      BY <2>3, <2>4, <2>5, <2>6, <2>8 DEF Places
  <2>10. QED
    BY <1>1, <2>1, <2>6, <2>7, <2>9 DEF QueueOK
<1>4. QED
  BY <1>2, <1>3

-----------------------------------------------------------------------------
(* What the worker's calls publish of the queue.  All but one mint no      *)
(* playlist.                                                               *)

Onward(w, v) == Queued(v) /\ v.playlist.nextList = w.playlist.nextList

LEMMA QueueDocFact == \A w : QueueDoc(w) = Ahead(w.playlist)
  BY DEF QueueDoc, Ahead, Queue, Row

LEMMA TellFact ==
  ASSUME NEW w, Good(w), QueueOK(w.playlist)
  PROVE  Onward(w, PublishQueue(w))
<1> DEFINE v == PublishQueue(w)
<1>1. v.playlist = w.playlist /\ v.docs.queue = QueueDoc(w)
  BY DEF PublishQueue, Good, IsWorker, IsRecord
<1> HIDE DEF v
<1>2. v.docs.queue = Ahead(v.playlist)
  BY <1>1, QueueDocFact
<1>3. QED
  BY <1>1, <1>2 DEF Onward, Queued, Told, v

(* A call that leaves the queue alone, or what is ahead of it. *)
LEMMA QuietFact ==
  ASSUME NEW w, Queued(w), NEW v, QueueOK(v.playlist),
         Ahead(v.playlist) = Ahead(w.playlist),
         v.playlist.nextList = w.playlist.nextList, v.docs.queue = w.docs.queue,
         v.status # "Error" => w.status # "Error"
  PROVE  Onward(w, v)
  BY DEF Onward, Queued, Told

LEMMA PlaylistOf ==
  ASSUME NEW w, Good(w), NEW p
  PROVE  LET v == [w EXCEPT !.playlist = p]
         IN  v.playlist = p /\ v.docs = w.docs /\ v.status = w.status
  BY DEF Good, IsWorker, IsRecord

LEMMA FailTells ==
  ASSUME NEW w, Good(w), QueueOK(w.playlist)
  PROVE  Onward(w, Fail(w))
<1> DEFINE u == [Unmount(w) EXCEPT !.status = "Error"]
           v == PublishTrack([u EXCEPT !.playlist = OnFailed(@)])
<1>1. Good(u) /\ u.playlist = w.playlist
  <2>1. Good(u)
    BY UnmountFact
  <2>2. u.playlist = w.playlist
    BY DEF Good, IsWorker, IsRecord, Unmount, ClearRing
  <2>3. QED
    BY <2>1, <2>2
<1>2. Good(v)
  <2> HIDE DEF u
  <2>1. QED
    BY <1>1, RequeuedFact, PublishFact
<1>3. v.playlist = OnFailed(w.playlist)
  <2> HIDE DEF u
  <2>1. QED
    BY <1>1 DEF Good, IsWorker, IsRecord, PublishTrack
<1>4. Fail(w) = PublishQueue(v)
  BY DEF Fail
<1> HIDE DEF u, v
<1>5. QueueOK(v.playlist) /\ v.playlist.nextList = w.playlist.nextList
  BY <1>3, OnFailedFact
<1>6. QED
  BY <1>2, <1>4, <1>5, TellFact DEF Onward

LEMMA MountTells ==
  ASSUME NEW w, Good(w), QueueOK(w.playlist), NEW track, NEW subsong, NEW opens \in BOOLEAN
  PROVE  Onward(w, MountTrack(w, track, subsong, opens))
<1>1. CASE opens
  <2> DEFINE mounted == [ClearRing(w) EXCEPT
                           !.backend = Mount(track.path, subsong, opens),
                           !.playing = [track |-> track, subsong |-> subsong],
                           !.status = "Playing"]
             v == PublishQueue(PublishTrack(mounted))
  <2>1. v.playlist = mounted.playlist /\ v.docs.queue = QueueDoc(PublishTrack(mounted))
        /\ mounted.playlist = w.playlist /\ PublishTrack(mounted).playlist = mounted.playlist
    BY DEF Good, IsWorker, IsRecord, ClearRing, PublishQueue, PublishTrack
  <2>2. MountTrack(w, track, subsong, opens) = v
    BY <1>1 DEF MountTrack
  <2> HIDE DEF v, mounted
  <2>3. v.docs.queue = Ahead(v.playlist) /\ v.playlist = w.playlist
    BY <2>1, QueueDocFact
  <2>4. QED
    BY <2>2, <2>3 DEF Onward, Queued, Told
<1>2. CASE ~opens
  <2> DEFINE closed == [ClearRing(w) EXCEPT !.backend = Closed, !.playing = Nothing]
             u == [Unmount(closed) EXCEPT !.status = "Error"]
  <2>1. u = [Unmount(w) EXCEPT !.status = "Error"]
    BY DEF Good, IsWorker, IsRecord, Unmount, ClearRing
  <2>2. MountTrack(w, track, subsong, opens) = Fail(w)
    BY <1>2, <2>1 DEF MountTrack, Fail
  <2>3. QED
    BY <2>2, FailTells
<1>3. QED
  BY <1>1, <1>2

(* A queue that is replaced mints one playlist, for which there is an id.  *)
LEMMA StartQueueTells ==
  ASSUME NEW w, Good(w), QueueOK(w.playlist), CanMint(w.playlist.nextList, 1),
         NEW tracks, IsSeq(tracks), NEW start
  PROVE  LET v == StartQueue(w, tracks, start)
         IN  Queued(v) /\ v.playlist.nextList = w.playlist.nextList + 1
<1> DEFINE stopped == Stop(w.playlist)
           created == Create(stopped, Anonymous)
           id      == created.nextList
           filled  == AppendItems(created, id, tracks)
           from    == created.nextItem + start
           item    == IF IndexOf(Items(filled, id), from) = 0 THEN NoId ELSE from
           set     == SetMode(filled, PlaylistMode(w.loop))
           p       == Start(set, id, item)
<1>1. /\ QueueOK(stopped) /\ ~Playing(stopped) /\ stopped.nextList = w.playlist.nextList
  BY StoppedFact
<1>2. StartQueue(w, tracks, start) = PublishQueue([w EXCEPT !.playlist = p])
  <2>1. CanMint(stopped.nextList, 1)
    BY <1>1
  <2>2. QED
    BY <2>1 DEF StartQueue
<1> HIDE DEF stopped
<1>3. /\ IsEngine(created) /\ created.cursor = stopped.cursor
      /\ created.nextList = w.playlist.nextList + 1 /\ Stored(created, id)
  BY <1>1, CreateFact
<1> HIDE DEF created
<1>4. /\ IsEngine(filled) /\ filled.cursor = stopped.cursor
      /\ filled.nextList = w.playlist.nextList + 1
  BY <1>3, FillFact
<1> HIDE DEF filled
<1>5. QueueOK(filled)
  BY <1>1, <1>4 DEF QueueOK, Places, Playing
<1>6. QueueOK(set) /\ set.nextList = w.playlist.nextList + 1
  BY <1>4, <1>5, SetModeFact
<1> HIDE DEF set, id, item
<1>7. QueueOK(p) /\ p.nextList = w.playlist.nextList + 1
  BY <1>6, StartFact
<1> HIDE DEF p
<1> DEFINE u == [w EXCEPT !.playlist = p]
<1>8. Good(u) /\ u.playlist = p
  BY RequeuedFact, PlaylistOf
<1> HIDE DEF u
<1>9. Onward(u, PublishQueue(u))
  BY <1>7, <1>8, TellFact
<1>10. QED
  BY <1>2, <1>7, <1>8, <1>9 DEF Onward, u

(* Stopping is told, whatever becomes of the session. *)
LEMMA RestTells ==
  ASSUME NEW w, Good(w), QueueOK(w.playlist), NEW s \in {"Idle", "Finished"}
  PROVE  Onward(w, PublishQueue([Unmount([w EXCEPT !.playlist = Stop(@)]) EXCEPT !.status = s]))
<1> DEFINE u == [w EXCEPT !.playlist = Stop(w.playlist)]
           v == [Unmount(u) EXCEPT !.status = s]
<1>1. Good(u) /\ u.playlist = Stop(w.playlist)
  BY RequeuedFact, PlaylistOf
<1> HIDE DEF u
<1>2. Good(v) /\ v.playlist = u.playlist
  <2>1. Good(v)
    BY <1>1, UnmountFact
  <2>2. v.playlist = u.playlist
    BY <1>1 DEF Good, IsWorker, IsRecord, Unmount, ClearRing
  <2>3. QED
    BY <2>1, <2>2
<1> HIDE DEF v
<1>3. QueueOK(v.playlist) /\ v.playlist.nextList = w.playlist.nextList
  BY <1>1, <1>2, StoppedFact
<1>4. Onward(v, PublishQueue(v))
  BY <1>2, <1>3, TellFact
<1>5. QED
  BY <1>3, <1>4 DEF Onward, u, v

(* The song that plays is held, sought or rewound. *)
LEMMA SongTells ==
  ASSUME NEW w, Good(w), Queued(w), NEW accepts
  PROVE  /\ Onward(w, HoldOrResume(w)) /\ Onward(w, SeekTo(w, accepts))
         /\ Onward(w, Rewound(w))
<1> DEFINE Quiet(v) == /\ v.playlist = w.playlist /\ v.docs = w.docs
                       /\ v.status # "Error" => w.status # "Error"
<1>1. Quiet(HoldOrResume(w))
  <2>1. CASE w.backend.status \in {"Playing", "Paused"}
    <3>1. w.status # "Error"
      BY <2>1 DEF Good, Sounds, IsLive
    <3>2. HoldOrResume(w).playlist = w.playlist /\ HoldOrResume(w).docs = w.docs
      BY DEF HoldOrResume, Good, IsWorker, IsRecord
    <3>3. QED
      BY <3>1, <3>2
  <2>2. CASE w.backend.status \notin {"Playing", "Paused"}
    BY <2>2 DEF HoldOrResume, TogglePause
  <2>3. QED
    BY <2>1, <2>2
<1>2. Quiet(SeekTo(w, accepts))
  <2>1. CASE Seeks(w.backend, accepts)
    <3>1. w.status # "Error"
      BY <2>1 DEF Good, Sounds, Seeks
    <3>2. SeekTo(w, accepts).playlist = w.playlist /\ SeekTo(w, accepts).docs = w.docs
      BY DEF SeekTo, ClearRing, Good, IsWorker, IsRecord
    <3>3. QED
      BY <3>1, <3>2
  <2>2. CASE ~Seeks(w.backend, accepts)
    BY <2>2 DEF SeekTo
  <2>3. QED
    BY <2>1, <2>2
<1>3. Quiet(Rewound(w))
  BY DEF Rewound, ClearRing, Good, IsWorker, IsRecord
<1>4. \A v : Quiet(v) => Onward(w, v)
  BY QuietFact DEF Queued
<1> HIDE DEF Quiet
<1>5. QED
  BY <1>1, <1>2, <1>3, <1>4

(* A call that changes nothing of what the queue is, or tells of it. *)
LEMMA UntouchedFact ==
  ASSUME NEW w, Queued(w), NEW v, v.playlist = w.playlist, v.docs.queue = w.docs.queue,
         v.status = w.status
  PROVE  Onward(w, v)
  BY QuietFact DEF Queued

LEMMA CursorFact ==
  ASSUME NEW w, Good(w), Queued(w), NEW p, QueueOK(p), Ahead(p) = Ahead(w.playlist),
         p.nextList = w.playlist.nextList
  PROVE  Onward(w, [w EXCEPT !.playlist = p])
<1> DEFINE v == [w EXCEPT !.playlist = p]
<1>1. v.playlist = p /\ v.docs = w.docs /\ v.status = w.status
  BY PlaylistOf
<1> HIDE DEF v
<1>2. Onward(w, v)
  BY <1>1, QuietFact
<1>3. QED
  BY <1>2 DEF v

LEMMA PreviousTells ==
  ASSUME NEW w, Good(w), Queued(w), NEW late, NEW accepts
  PROVE  Onward(w, PreviousSong(w, late, accepts))
<1>1. CASE late \/ ~HasPrevious(w)
  BY <1>1, SongTells DEF PreviousSong, Onward
<1>2. CASE ~(late \/ ~HasPrevious(w))
  <2>1. Playing(w.playlist) /\ Row(w.playlist) > 1
    BY <1>2 DEF HasPrevious, HasCurrent, Row, Queue
  <2>2. PreviousSong(w, late, accepts) = [w EXCEPT !.playlist = Previous(w.playlist)]
    BY <1>2 DEF PreviousSong
  <2>3. QED
    BY <2>1, <2>2, PreviousItemFact, CursorFact DEF Queued
<1>3. QED
  BY <1>1, <1>2

LEMMA LoopTells ==
  ASSUME NEW w, Good(w), Queued(w), NEW loop
  PROVE  Onward(w, SetLoop(w, loop))
<1> DEFINE u == [w EXCEPT !.loop = loop, !.playlist = SetMode(@, PlaylistMode(loop))]
<1>1. Good(u) /\ u.playlist = SetMode(w.playlist, PlaylistMode(loop))
  BY DEF Good, IsWorker, IsRecord, Sounds, Shows
<1>2. SetLoop(w, loop) = PublishQueue(u)
  BY DEF SetLoop
<1> HIDE DEF u
<1>3. QED
  BY <1>1, <1>2, SetModeFact, TellFact DEF Onward, Queued

LEMMA ClearTells ==
  ASSUME NEW w, Good(w), Queued(w)
  PROVE  Onward(w, ClearQueue(w))
<1> DEFINE e == w.playlist
           u == [w EXCEPT !.playlist = RemoveItemsPast(e, e.cursor.list, Row(e))]
<1>1. \/ ClearQueue(w) = PublishQueue(w)
      \/ Playing(e) /\ ClearQueue(w) = PublishQueue(u)
  BY DEF ClearQueue, Row, Queue
<1>2. Good(u) /\ u.playlist = RemoveItemsPast(e, e.cursor.list, Row(e))
  BY RequeuedFact, PlaylistOf
<1>3. Playing(e) => QueueOK(u.playlist) /\ u.playlist.nextList = e.nextList
  BY <1>2, CutFact DEF Queued
<1> HIDE DEF u
<1>4. QED
  BY <1>1, <1>2, <1>3, TellFact DEF Onward, Queued

(* The tracks of a request are a sequence, and so a queue. *)
LEMMA OpenTells ==
  ASSUME NEW w, Good(w), Queued(w), CanMint(w.playlist.nextList, 1), NEW path
  PROVE  LET v == Open(w, path)
         IN  Queued(v) /\ v.playlist.nextList = w.playlist.nextList + 1
<1> DEFINE tracks == <<[path |-> path, row |-> RowOf(w, path)]>>
<1>1. IsSeq(tracks)
  <2>1. tracks \in Seq({[path |-> path, row |-> RowOf(w, path)]})
    OBVIOUS
  <2>2. QED
    BY <2>1 DEF IsSeq
<1> HIDE DEF tracks
<1>2. QED
  BY <1>1, StartQueueTells DEF Open, Queued, tracks

LEMMA RowsTell ==
  ASSUME NEW w, Good(w), Queued(w), CanMint(w.playlist.nextList, 1),
         NEW rows \in Seq(Nat), NEW start
  PROVE  LET v == PlayRows(w, rows, start)
         IN  Queued(v) /\ v.playlist.nextList \in
                            {w.playlist.nextList, w.playlist.nextList + 1}
<1> DEFINE known  == Known(rows, Entries(w))
           tracks == [i \in DOMAIN known |-> [path |-> Entries(w)[known[i]], row |-> known[i]]]
           v      == StartQueue(w, tracks, Min({start, Len(tracks)}))
<1>1. known \in Seq(Nat)
  BY KnownFact
<1>2. PlayRows(w, rows, start) \in {w, v}
  BY DEF PlayRows
<1> HIDE DEF known
<1>3. IsSeq(tracks)
  <2> DEFINE T == {tracks[i] : i \in 1..Len(known)}
  <2>1. DOMAIN known = 1..Len(known) /\ Len(known) \in Nat
    BY <1>1
  <2>2. tracks \in [1..Len(known) -> T]
    BY <2>1
  <2> HIDE DEF tracks
  <2>3. tracks \in Seq(T)
    BY <2>1, <2>2
  <2>4. QED
    BY <2>3 DEF IsSeq
<1> HIDE DEF tracks
<1>4. Queued(v) /\ v.playlist.nextList = w.playlist.nextList + 1
  BY <1>3, StartQueueTells DEF Queued
<1> HIDE DEF v
<1>5. QED
  BY <1>2, <1>4

(* What a command does to the queue and the ids. *)
Minted(w, v) == v.playlist.nextList \in {w.playlist.nextList, w.playlist.nextList + 1}

LEMMA HandledTells ==
  ASSUME NEW w, Good(w), Queued(w), CanMint(w.playlist.nextList, 1),
         NEW command, command[1] \in Requests \cup {"Walked"},
         command[1] = "PlayRows" => command[2] \in Seq(Nat),
         NEW late, NEW accepts, NEW opens \in BOOLEAN, NEW subsongs
  PROVE  LET v == Handled(w, command, late, accepts, opens, subsongs)
         IN  /\ Queued(v) /\ Minted(w, v)
             /\ command[1] = "ScanLibrary" => v.playlist.nextList = w.playlist.nextList
<1> DEFINE v == Handled(w, command, late, accepts, opens, subsongs)
<1> SUFFICES \/ Onward(w, v)
             \/ command[1] # "ScanLibrary" /\ Queued(v) /\ Minted(w, v)
  BY DEF Onward, Minted
<1>1. CASE command[1] = "Open"
  <2>1. v = Open(w, command[2])
    BY <1>1 DEF Handled
  <2>2. QED
    BY <1>1, <2>1, OpenTells DEF Minted
<1>2. CASE command[1] = "PlayRows"
  <2>1. v = PlayRows(w, command[2], command[3])
    BY <1>2 DEF Handled
  <2>2. QED
    BY <1>2, <2>1, RowsTell DEF Minted
<1>3. CASE command[1] = "Stop"
  <2>1. v = PublishQueue([Unmount([w EXCEPT !.playlist = Stop(@)]) EXCEPT !.status = "Idle"])
    BY <1>3 DEF Handled, StopSong
  <2>2. QED
    BY <2>1, RestTells DEF Queued
<1>4. CASE command[1] = "TogglePause"
  <2>1. v = HoldOrResume(w)
    BY <1>4 DEF Handled
  <2>2. QED
    BY <2>1, SongTells
<1>5. CASE command[1] = "Seek"
  <2>1. v = SeekTo(w, accepts)
    BY <1>5 DEF Handled
  <2>2. QED
    BY <2>1, SongTells
<1>6. CASE command[1] = "Next"
  <2>1. v = [w EXCEPT !.playlist = NextItem(w.playlist)]
    BY <1>6 DEF Handled
  <2>2. QED
    BY <2>1, AdvanceFact, CursorFact DEF Queued
<1>7. CASE command[1] = "Previous"
  <2>1. v = PreviousSong(w, late, accepts)
    BY <1>7 DEF Handled
  <2>2. QED
    BY <2>1, PreviousTells
<1>8. CASE command[1] = "SetSubsong"
  <2>1. v = w \/ v = MountTrack(w, w.playing.track, command[2], opens)
    BY <1>8 DEF Handled, SetSubsong
  <2>2. QED
    BY <2>1, MountTells DEF Queued, Onward
<1>9. CASE command[1] = "SetLoop"
  <2>1. v = SetLoop(w, command[2])
    BY <1>9 DEF Handled
  <2>2. QED
    BY <2>1, LoopTells
<1>10. CASE command[1] = "SetVolume"
  <2>1. v = SetVolume(w, command[2])
    BY <1>10 DEF Handled
  <2>2. v.playlist = w.playlist /\ v.docs = w.docs /\ v.status = w.status
    BY <2>1 DEF SetVolume, Good, IsWorker, IsRecord
  <2> HIDE DEF v
  <2>3. QED
    BY <2>2, UntouchedFact
<1>11. CASE command[1] = "ClearQueue"
  <2>1. v = ClearQueue(w)
    BY <1>11 DEF Handled
  <2>2. QED
    BY <2>1, ClearTells
<1>12. CASE command[1] \in {"ScanLibrary", "Walked"}
  <2>1. v \in {ScanLibrary(w, command[2]), Walked(w, command[2])}
    BY <1>12 DEF Handled
  <2>2. v.playlist = w.playlist /\ v.docs.queue = w.docs.queue /\ v.status = w.status
    <3> DEFINE Quiet(u) == /\ u.playlist = w.playlist /\ u.docs.queue = w.docs.queue
                           /\ u.status = w.status
    <3>1. Quiet(ScanLibrary(w, command[2]))
      BY DEF ScanLibrary, PublishLibrary, Good, IsWorker, IsRecord
    <3>2. Quiet(Walked(w, command[2]))
      BY DEF Walked, PublishLibrary, Good, IsWorker, IsRecord
    <3> HIDE DEF v
    <3>3. QED
      BY <2>1, <3>1, <3>2
  <2> HIDE DEF v
  <2>3. QED
    BY <2>2, UntouchedFact
<1>13. QED
  BY <1>1, <1>2, <1>3, <1>4, <1>5, <1>6, <1>7, <1>8, <1>9, <1>10, <1>11, <1>12 DEF Requests

-----------------------------------------------------------------------------
(* The queue document. *)

(* Every playlist that is minted was asked for by a command of its own.    *)
Counted ==
  /\ sent \in Nat /\ sent <= MaxSent
  /\ worker.playlist.nextList + Len(commands) + Len(walks) <= sent + 1
  /\ session = "open" => worker.playlist.nextList + Len(commands) + Len(walks) <= sent

QueueInv == Queued(worker) /\ Counted

LEMMA InitQueued ==
  ASSUME Init, MaxSent \in Nat
  PROVE  QueueInv
<1>1. /\ worker.playlist = NewEngine /\ worker.docs.queue = <<>>
  BY DEF Init
<1>2. /\ IsRecord(NewEngine, {"lists", "nextList", "nextItem", "revision", "cursor", "mode"})
      /\ IsRecord(NoCursor, {"list", "current", "position", "pending", "failures", "removed"})
      /\ NewEngine.cursor = NoCursor /\ DOMAIN NewEngine.lists = {}
      /\ NewEngine.nextList = 0 /\ NewEngine.nextItem = 0
  BY DEF NewEngine, NoCursor, IsRecord
<1>3. QueueOK(NewEngine) /\ Ahead(NewEngine) = <<>>
  BY <1>2, MaxIdAssumption DEF QueueOK, IsEngine, Places, Playing, Ahead
<1>4. Counted
  BY <1>1, <1>2 DEF Init, Counted
<1>5. QED
  BY <1>1, <1>3, <1>4 DEF QueueInv, Queued, Told

LEMMA TakeTells ==
  ASSUME BridgeInv, QueueInv, TakeCommand, MaxSent \in 0..(MaxId - 1)
  PROVE  QueueInv'
<1>1. PICK late, accepts \in BOOLEAN : \E opens \in Opens(worker.playing.track.path) :
        worker' = Handled(worker, Head(commands), late, accepts, opens, 2)
  BY DEF TakeCommand
<1>2. PICK opens \in Opens(worker.playing.track.path) :
        worker' = Handled(worker, Head(commands), late, accepts, opens, 2)
  BY <1>1
<1>3. /\ commands \in Seq(Commands) /\ commands # <<>> /\ walks \in Seq(Roots)
      /\ Head(commands) \in Commands /\ Head(commands)[1] # "Quit"
      /\ commands' = Tail(commands) /\ UNCHANGED <<session, sent>>
  BY DEF TakeCommand, BridgeInv, ChannelOK
<1>4. /\ Head(commands)[1] \in Requests \cup {"Walked"}
      /\ Head(commands)[1] = "PlayRows" => Head(commands)[2] \in Seq(Nat)
  BY <1>3, AskedAssumption DEF Commands
<1>5. opens \in BOOLEAN
  BY <1>2 DEF Opens
<1>6. /\ Len(commands) \in Nat \ {0} /\ Len(Tail(commands)) = Len(commands) - 1
      /\ Len(walks) \in Nat
  BY <1>3
<1>7. worker.playlist.nextList \in Nat
  BY DEF QueueInv, Queued, QueueOK, IsEngine
<1>8. CanMint(worker.playlist.nextList, 1)
  BY <1>6, <1>7, MaxIdAssumption DEF CanMint, QueueInv, Counted
<1>9. /\ Queued(worker') /\ Minted(worker, worker')
      /\ Head(commands)[1] = "ScanLibrary" =>
           worker'.playlist.nextList = worker.playlist.nextList
  BY <1>2, <1>4, <1>5, <1>8, HandledTells DEF BridgeInv, QueueInv
<1>10. Len(walks') = Len(walks) \/ /\ Head(commands)[1] = "ScanLibrary"
                                   /\ Len(walks') = Len(walks) + 1
  BY <1>3 DEF TakeCommand
<1>11. Counted'
  <2> DEFINE n == worker.playlist.nextList
             m == Len(commands)
             k == Len(walks)
  <2>1. /\ n \in Nat /\ m \in Nat \ {0} /\ k \in Nat
        /\ m' = m - 1
        /\ \/ (n' = n \/ n' = n + 1) /\ k' = k
           \/ n' = n /\ k' = k + 1
    BY <1>3, <1>6, <1>7, <1>9, <1>10 DEF Minted
  <2>2. UNCHANGED <<session, sent>> /\ sent \in Nat /\ sent <= MaxSent
    BY <1>3 DEF QueueInv, Counted
  <2> DEFINE due == n + m + k
  <2>3. due <= sent + 1 /\ (session = "open" => due <= sent)
    BY DEF QueueInv, Counted
  <2> HIDE DEF n, m, k
  <2>4. due \in Nat /\ due' \in Nat /\ due' <= due
    BY <2>1
  <2>5. due' <= sent + 1 /\ (session = "open" => due' <= sent)
    <3> HIDE DEF due
    <3>1. QED
      BY <2>2, <2>3, <2>4
  <2>6. QED
    BY <2>2, <2>5 DEF Counted, n, m, k
<1>12. QED
  BY <1>9, <1>11 DEF QueueInv

(* The rest of a turn. *)
LEMMA PollTells ==
  ASSUME BridgeInv, QueueInv, PollPlaylist
  PROVE  Onward(worker, worker')
<1> DEFINE e      == worker.playlist
           polled == [worker EXCEPT !.playlist = Poll(e)]
           track  == PolledItem(e).song
<1>1. Good(worker) /\ Queued(worker) /\ QueueOK(e)
  BY DEF BridgeInv, QueueInv, Queued
<1>2. CASE ~CanPoll(e)
  BY <1>1, <1>2, UntouchedFact DEF PollPlaylist, Goes
<1>3. CASE CanPoll(e)
  <2>1. /\ QueueOK(Poll(e)) /\ Poll(e).nextList = e.nextList
        /\ ~Playing(Poll(e)) => Ahead(e) = <<>> /\ Ahead(Poll(e)) = <<>>
    BY <1>1, <1>3, PollFact
  <2>2. Good(polled) /\ polled.playlist = Poll(e)
    BY <1>1, RequeuedFact, PlaylistOf
  <2>3. CASE ~Playing(Poll(e))
    <3>1. worker' = polled
      BY <1>3, <2>2, <2>3 DEF PollPlaylist, Goes
    <3>2. QED
      BY <1>1, <2>1, <2>3, <3>1, CursorFact
  <2>4. CASE Playing(Poll(e))
    <3>1. PICK opens \in Opens(track.path) : worker' = MountTrack(polled, track, 0, opens)
      BY <1>3, <2>2, <2>4 DEF PollPlaylist, Goes
    <3>2. opens \in BOOLEAN
      BY DEF Opens
    <3> HIDE DEF polled
    <3>3. Onward(polled, worker')
      BY <2>1, <2>2, <3>1, <3>2, MountTells
    <3>4. QED
      BY <2>1, <2>2, <3>3 DEF Onward
  <2>5. QED
    BY <2>3, <2>4
<1>4. QED
  BY <1>2, <1>3

LEMMA EndTells ==
  ASSUME BridgeInv, QueueInv, SeeToEnd
  PROVE  Onward(worker, worker')
<1> DEFINE e     == worker.playlist
           ended == [worker EXCEPT !.playlist = OnFinished(e)]
           rest  == PublishQueue([Unmount([ended EXCEPT !.playlist = Stop(@)]) EXCEPT
                                    !.status = "Finished"])
<1>1. Good(worker) /\ Queued(worker) /\ QueueOK(e)
  BY DEF BridgeInv, QueueInv, Queued
<1>2. worker' \in {worker, Rewound(worker), SongEnded(worker)}
  BY DEF SeeToEnd, Goes
<1>3. SongEnded(worker) \in {ended, rest}
  BY DEF SongEnded
<1>4. Onward(worker, ended)
  BY <1>1, AdvanceFact, CursorFact
<1>5. Onward(ended, rest)
  <2>1. Good(ended)
    BY <1>1, RequeuedFact
  <2> HIDE DEF ended
  <2>2. QED
    BY <1>4, <2>1, RestTells DEF Onward, Queued
<1> HIDE DEF ended, rest
<1>6. QED
  BY <1>1, <1>2, <1>3, <1>4, <1>5, SongTells DEF Onward

LEMMA TopUpTells ==
  ASSUME BridgeInv, QueueInv, TopUp
  PROVE  Onward(worker, worker')
<1>1. Good(worker) /\ Queued(worker)
  BY DEF BridgeInv, QueueInv
<1>2. \/ worker' \in {worker, RenderFailed(worker)}
      \/ \E ring, backend : worker' = [worker EXCEPT !.ring = ring, !.backend = backend]
  <2>1. PICK earned \in 0..MaxFrames :
          LET frames == FramesDue(worker.ring, earned)
          IN  IF ~Renders(worker.backend, frames) THEN Goes("top_up", "scan", worker)
              ELSE \/ MayFail /\ Goes("top_up", "scan", RenderFailed(worker))
                   \/ \E finished \in BOOLEAN :
                        Goes("top_up", "scan",
                             [worker EXCEPT !.ring = @ + frames,
                                            !.backend = Render(@, finished)])
    BY DEF TopUp
  <2> DEFINE frames == FramesDue(worker.ring, earned)
             ring   == worker.ring + frames
  <2>2. \/ worker' \in {worker, RenderFailed(worker)}
        \/ \E finished \in BOOLEAN :
             worker' = [worker EXCEPT !.ring = ring, !.backend = Render(worker.backend, finished)]
    <3> HIDE DEF frames
    <3>1. QED
      BY <2>1 DEF Goes, frames
  <2> HIDE DEF ring
  <2>3. QED
    BY <2>2
<1>3. CASE worker' = worker
  BY <1>1, <1>3, UntouchedFact
<1>4. CASE worker' = RenderFailed(worker)
  <2>1. /\ worker'.playlist = OnFailed(worker.playlist) /\ worker'.status = "Error"
    BY <1>1, <1>4 DEF RenderFailed, Unmount, ClearRing, Good, IsWorker, IsRecord
  <2>2. QED
    BY <1>1, <2>1, OnFailedFact DEF Onward, Queued, Told
<1>5. ASSUME NEW ring, NEW backend,
             worker' = [worker EXCEPT !.ring = ring, !.backend = backend]
      PROVE  Onward(worker, worker')
  <2>1. /\ worker'.playlist = worker.playlist /\ worker'.docs = worker.docs
        /\ worker'.status = worker.status
    BY <1>1, <1>5 DEF Good, IsWorker, IsRecord
  <2>2. QED
    BY <1>1, <2>1, UntouchedFact
<1>6. QED
  BY <1>2, <1>3, <1>4, <1>5

LEMMA ScanTells ==
  ASSUME BridgeInv, QueueInv, ScanStep
  PROVE  Onward(worker, worker')
<1> DEFINE w == worker
           v == Described(w)
<1>1. Good(w) /\ Queued(w)
  BY DEF BridgeInv, QueueInv
<1>2. /\ IsWorker(v) /\ v.playlist = w.playlist /\ v.docs = w.docs /\ v.status = w.status
  BY <1>1 DEF Described, Good, IsWorker, IsRecord
<1>3. worker' \in {w, v, PublishLibrary(v), PublishTrack(PublishLibrary(v))}
  BY DEF ScanStep, Goes, Progress
<1> HIDE DEF v
<1>4. /\ worker'.playlist = w.playlist /\ worker'.docs.queue = w.docs.queue
      /\ worker'.status = w.status
  <2> DEFINE Quiet(u) == /\ u.playlist = w.playlist /\ u.docs.queue = w.docs.queue
                         /\ u.status = w.status
  <2>1. Quiet(w) /\ Quiet(v)
    BY <1>2
  <2>2. Quiet(PublishLibrary(v)) /\ Quiet(PublishTrack(PublishLibrary(v)))
    BY <1>2 DEF PublishLibrary, PublishTrack, IsWorker, IsRecord
  <2>3. QED
    BY <1>3, <2>1, <2>2
<1>5. QED
  BY <1>1, <1>4, UntouchedFact

LEMMA QueueStep ==
  ASSUME BridgeInv, QueueInv, [Next]_vars, MaxSent \in 0..(MaxId - 1)
  PROVE  QueueInv'
<1>1. CASE TakeCommand
  BY <1>1, TakeTells
<1>2. /\ commands \in Seq(Commands) /\ walks \in Seq(Roots)
      /\ Len(commands) \in Nat /\ Len(walks) \in Nat /\ worker.playlist.nextList \in Nat
  BY DEF BridgeInv, ChannelOK, QueueInv, Queued, QueueOK, IsEngine
<1>3. CASE PollPlaylist \/ SeeToEnd \/ TopUp \/ ScanStep
  <2>1. Onward(worker, worker')
    BY <1>3, PollTells, EndTells, TopUpTells, ScanTells
  <2>2. UNCHANGED <<commands, walks, session, sent>>
    <3>1. PollPlaylist \/ SeeToEnd \/ ScanStep => UNCHANGED <<commands, walks, session, sent>>
      BY DEF PollPlaylist, SeeToEnd, ScanStep, Goes
    <3>2. TopUp => UNCHANGED <<commands, walks, session, sent>>
      BY DEF TopUp, Goes
    <3>3. QED
      BY <1>3, <3>1, <3>2
  <2>3. QED
    BY <2>1, <2>2 DEF Onward, QueueInv, Counted
<1>4. CASE NoCommand \/ TakeQuit \/ DecoderHangs
  BY <1>4 DEF NoCommand, TakeQuit, DecoderHangs, Goes, QueueInv, Counted
<1>5. CASE Closing
  BY <1>5 DEF Closing, JoinWorker, LeaveBehind, QueueInv, Counted
<1>6. CASE DrainRing
  <2>1. /\ worker'.playlist = worker.playlist /\ worker'.docs = worker.docs
        /\ worker'.status = worker.status
    BY <1>6 DEF DrainRing, BridgeInv, Good, IsWorker, IsRecord
  <2>2. QED
    BY <1>6, <2>1, UntouchedFact DEF DrainRing, QueueInv, Counted, Onward
<1>7. CASE FinishWalk
  <2>1. PICK i \in DOMAIN walks : /\ commands' = Append(commands, <<"Walked", walks[i]>>)
                                  /\ walks' = RemoveAt(walks, i)
    BY <1>7 DEF FinishWalk
  <2>2. Len(commands') = Len(commands) + 1
    BY <1>2, <2>1
  <2>3. Len(walks') = Len(walks) - 1
    <3>1. i \in 1..Len(walks)
      BY <1>2, <2>1
    <3>2. walks' = SubSeq(walks, 1, i - 1) \o SubSeq(walks, i + 1, Len(walks))
      BY <2>1 DEF RemoveAt
    <3>3. /\ SubSeq(walks, 1, i - 1) \in Seq(Roots)
          /\ SubSeq(walks, i + 1, Len(walks)) \in Seq(Roots)
          /\ Len(SubSeq(walks, 1, i - 1)) = i - 1
          /\ Len(SubSeq(walks, i + 1, Len(walks))) = Len(walks) - i
      BY <1>2, <3>1
    <3> DEFINE before == SubSeq(walks, 1, i - 1)
               after  == SubSeq(walks, i + 1, Len(walks))
    <3>4. Len(before \o after) = Len(before) + Len(after)
      <4> HIDE DEF before, after
      <4>1. before \in Seq(Roots) /\ after \in Seq(Roots)
        BY <3>3 DEF before, after
      <4>2. QED
        BY <4>1
    <3>5. /\ Len(walks') = Len(before) + Len(after)
          /\ Len(before) = i - 1 /\ Len(after) = Len(walks) - i
      <4>1. walks' = before \o after
        BY <3>2
      <4>2. Len(before) = i - 1 /\ Len(after) = Len(walks) - i
        BY <3>3
      <4> HIDE DEF before, after
      <4>3. QED
        BY <3>4, <4>1, <4>2
    <3> HIDE DEF before, after
    <3>6. QED
      BY <1>2, <3>1, <3>5
  <2>4. UNCHANGED <<worker, session, sent>>
    BY <1>7 DEF FinishWalk
  <2> DEFINE n == worker.playlist.nextList
             m == Len(commands)
             k == Len(walks)
  <2>5. n' = n /\ m' = m + 1 /\ k' = k - 1 /\ n \in Nat /\ m \in Nat /\ k \in Nat
    BY <1>2, <2>2, <2>3, <2>4
  <2>6. n + m + k <= sent + 1 /\ (session = "open" => n + m + k <= sent)
    BY DEF QueueInv, Counted
  <2>7. n' + m' + k' <= sent + 1 /\ (session = "open" => n' + m' + k' <= sent)
    <3> HIDE DEF n, m, k
    <3>1. QED
      BY <2>5, <2>6
  <2>8. QED
    BY <2>4, <2>7 DEF QueueInv, Counted
<1>8. CASE Send
  <2>1. Len(commands') = Len(commands) + 1
    BY <1>2, <1>8 DEF Send
  <2>2. QED
    BY <1>2, <1>8, <2>1 DEF Send, QueueInv, Counted
<1>9. CASE DropSession
  <2>1. Len(commands') = Len(commands) + 1
    BY <1>2, <1>9 DEF DropSession
  <2>2. QED
    BY <1>2, <1>9, <2>1 DEF DropSession, QueueInv, Counted
<1>10. CASE UNCHANGED vars
  BY <1>10 DEF vars, QueueInv, Counted
<1>11. QED
  BY <1>1, <1>3, <1>4, <1>5, <1>6, <1>7, <1>8, <1>9, <1>10 DEF Next, Turn

(* Whatever the UI asks, the songs and their failures do, the documents    *)
(* say what is mounted, what the playlist still has ahead and what the     *)
(* library found, as long as there are ids for the queues that are asked.  *)
THEOREM DocsAreCurrentHolds ==
  ASSUME MaxSent \in 0..(MaxId - 1)
  PROVE  Spec => []DocsAreCurrent
<1>1. Init => QueueInv
  BY InitQueued, MaxIdAssumption
<1>2. BridgeInv /\ QueueInv /\ [Next]_vars => QueueInv'
  BY QueueStep
<1>3. BridgeInv /\ QueueInv => DocsAreCurrent
  BY QueueDocFact DEF BridgeInv, Good, Shows, QueueInv, Queued, Told, DocsAreCurrent, AtRestDocs
<1>4. QED
  BY <1>1, <1>2, <1>3, BridgeHolds, PTL DEF Spec

=============================================================================
