------------------------------- MODULE Player --------------------------------
(***************************************************************************)
(* The player backend (crates/player): a set of decoders and at most one   *)
(* prepared session, driven by a run loop the host owns.  Every call is a  *)
(* function of the backend; what a decoder or the file does is an argument *)
(* of it.  Positions are left out: a host only asks how late it is.        *)
(***************************************************************************)
EXTENDS Integers

NoSong == "no song"

Closed == [status |-> "Idle", song |-> NoSong, subsong |-> 0]

PlaybackStatus == {"Idle", "Playing", "Paused", "Finished"}

IsLive(backend) == backend.status # "Idle"

(* The current session goes first: a refused mount leaves none.  It is     *)
(* refused when the file cannot be read, no decoder accepts it, or the     *)
(* decoder does not open it.                                               *)
Mount(song, subsong, opens) ==
  IF opens THEN [status |-> "Playing", song |-> song, subsong |-> subsong] ELSE Closed

(* Answers only between playing and paused. *)
TogglePause(backend) ==
  CASE backend.status = "Playing" -> [backend EXCEPT !.status = "Paused"]
    [] backend.status = "Paused"  -> [backend EXCEPT !.status = "Playing"]
    [] OTHER                      -> backend

(* The decoder may refuse; a finished song plays on from where it landed.  *)
Seek(backend, accepts) ==
  IF accepts /\ backend.status = "Finished" THEN [backend EXCEPT !.status = "Playing"]
  ELSE backend
Seeks(backend, accepts) == IsLive(backend) /\ accepts

(* Nothing is decoded unless the session plays. *)
Renders(backend, frames) == backend.status = "Playing" /\ frames > 0
Render(backend, finished) ==
  IF finished THEN [backend EXCEPT !.status = "Finished"] ELSE backend
=============================================================================
