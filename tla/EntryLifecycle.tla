--------------------------- MODULE EntryLifecycle ---------------------------
(***************************************************************************)
(* What the transfer queue promises about one entry, with no workers, no   *)
(* scheduling and no files: the states of queue::State and the only ways   *)
(* an entry moves between them, together with the requests that returned   *)
(* true on it.  One step of the queue may move several entries at once (a  *)
(* user entry arrives and a background one yields; a sweep resumes every   *)
(* preempted entry), so a step moves any set of entries, each legally.     *)
(***************************************************************************)

CONSTANT Slots

VARIABLES
  entry,  \* slot -> its entry, or Free
  open    \* FALSE once the queue is being dropped

Entry(state, cancel, pause) == [state |-> state, cancel |-> cancel, pause |-> pause]

Free  == Entry("Free", FALSE, FALSE)
Fresh == Entry("Pending", FALSE, FALSE)

Waiting  == {"Pending", "Paused", "Preempted"}
Terminal == {"Complete", "Failed", "Cancelled"}

(***************************************************************************)
(* Calls.                                                                  *)
(***************************************************************************)

Queued(e, f) == e = Free /\ f = Fresh

Removed(e, f) == e.state \in Waiting \cup Terminal /\ f = Free

(* A waiting entry ends at once, one in flight when its worker settles it. *)
Cancelled(e, f) ==
  \/ /\ e.state \in Waiting
     /\ f = Entry("Cancelled", TRUE, e.pause)
  \/ /\ e.state \in {"Downloading", "Preempted"}
     /\ f = Entry(e.state, TRUE, e.pause)

PauseAsked(e, f) == e.state = "Downloading" /\ f = Entry(e.state, e.cancel, TRUE)

Resumed(e, f) ==
  e.state = "Paused" /\ f = Entry("Pending", e.cancel, FALSE)

(***************************************************************************)
(* What the queue does by itself.                                          *)
(***************************************************************************)

(* An entry whose cancel was promised is never started again. *)
Started(e, f) ==
  /\ e.state \in {"Pending", "Preempted"} /\ ~e.cancel
  /\ f = Entry("Downloading", e.cancel, e.pause)

Yields(e, f) == e.state = "Downloading" /\ f = Entry("Preempted", e.cancel, e.pause)

AutoResumed(e, f) ==
  e.state = "Preempted" /\ ~e.cancel /\ f = Entry("Pending", e.cancel, e.pause)

(* Complete and Failed only without a promised cancel; Cancelled only with *)
(* one or when the queue is dropped.                                       *)
Ends(e, f) ==
  /\ e.state \in {"Downloading", "Preempted"}
  /\ \/ f.state \in {"Complete", "Failed"} /\ ~e.cancel
     \/ f.state = "Cancelled" /\ (e.cancel \/ ~open)
  /\ f = Entry(f.state, e.cancel, FALSE)

(* Only a pause the caller asked for leaves an entry Paused. *)
ComesToRest(e, f) ==
  e.state = "Downloading" /\ e.pause /\ f = Entry("Paused", e.cancel, e.pause)

Legal(e, f) ==
  \/ Queued(e, f) \/ Removed(e, f) \/ Cancelled(e, f)
  \/ PauseAsked(e, f) \/ Resumed(e, f)
  \/ Started(e, f) \/ Yields(e, f) \/ AutoResumed(e, f)
  \/ Ends(e, f) \/ ComesToRest(e, f)

Init == entry = [s \in Slots |-> Free] /\ open = TRUE

Next ==
  /\ open' => open
  /\ \A s \in Slots : entry'[s] = entry[s] \/ Legal(entry[s], entry'[s])

Spec == Init /\ [][Next]_<<entry, open>>
=============================================================================
