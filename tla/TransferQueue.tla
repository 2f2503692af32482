---------------------------- MODULE TransferQueue ----------------------------
(***************************************************************************)
(* The priority queue of validated transfers (queue/mod.rs): a fixed array *)
(* of slots, worker threads that claim pending slots and carry their       *)
(* transfer to a settled state, and callers that queue, cancel, pause,     *)
(* resume and remove entries and finally drop the queue.                   *)
(*                                                                         *)
(* Every call, and every worker step that takes the queue lock, is one     *)
(* lock hold and one action.  Between two lock holds a worker reads only   *)
(* the slot's request flags and `running`, each such read a step of its    *)
(* own (or the two reads after the handle is published, past which every   *)
(* request also goes to the handle), so a request may land between any two *)
(* of them.                                                                *)
(*                                                                         *)
(* A transfer's bytes are abstract: a read makes some progress or ends the *)
(* transfer in an outcome the network and the validation choose.           *)
(***************************************************************************)
EXTENDS EntryPolicy

CONSTANTS
  QueueMax,        \* slots in the array (QUEUE_MAX)
  NumWorkers,      \* configured workers, already clamped
  Times,           \* wall-clock readings; the clock may repeat or step back
  MaxBytes,        \* bound on the progress a slot reports
  MaxSubmissions,  \* bound on the calls that make an entry Pending
  HookMayPanic,    \* whether the caller's worker-start hook may panic
  SpawnMayFail,    \* whether the host may refuse a thread
  Calls            \* the calls an instance's callers make besides queue

ASSUME SizeAssumption ==
  /\ QueueMax \in Nat \ {0}
  /\ NumWorkers \in 1..QueueMax
  /\ Times # {} /\ Times \subseteq Int
  /\ MaxBytes \in Nat /\ MaxSubmissions \in Nat
ASSUME FaultAssumption == HookMayPanic \in BOOLEAN /\ SpawnMayFail \in BOOLEAN
ASSUME CallsAssumption == Calls \subseteq {"cancel", "pause", "resume", "remove", "drop"}

Slots   == 0..(QueueMax - 1)
Workers == 0..(NumWorkers - 1)
NoSlot  == -1

VARIABLES
  slots,      \* slot -> its atomics and published results
  active,     \* worker -> the slot it holds, or NoSlot
  pc,         \* worker -> where its thread is; "off" is not armed
  result,     \* worker -> the state its transfer is about to settle in
  download,   \* worker -> the stop flags of the transfer it runs
  phase,      \* the queue's own life: live until drop stores running = false
  submitted,  \* calls that made an entry Pending so far
  promise     \* history: slot -> requests that returned true this tenancy

vars == <<slots, active, pc, result, download, phase, submitted, promise>>

(* Slot::default: every atomic is zero, and zero reads Pending. *)
EmptySlot ==
  [inUse |-> FALSE, prio |-> Background, state |-> "Pending",
   cancelRequested |-> FALSE, pauseRequested |-> FALSE,
   time |-> CHOOSE t \in Times : TRUE, bytes |-> 0,
   path |-> FALSE, failure |-> FALSE]

SlotType ==
  [inUse : BOOLEAN, prio : Priority, state : State,
   cancelRequested : BOOLEAN, pauseRequested : BOOLEAN,
   time : Times, bytes : 0..MaxBytes, path : BOOLEAN, failure : BOOLEAN]

(* Where a worker thread is.  It holds its slot from "claimed" to "settle". *)
InProcess == {"claimed", "opened", "publish", "carry", "reading", "settle"}
Pc        == {"off", "hook", "top", "scan"} \cup InProcess
Outcome   == {"None", "Complete", "Failed", "Cancelled", "Paused"}

NoFlags   == [cancel |-> FALSE, pause |-> FALSE]
NoPromise == [cancel |-> FALSE, pause |-> FALSE]
Flags     == [cancel : BOOLEAN, pause : BOOLEAN]

Running == phase = "live"

Init ==
  /\ slots = [s \in Slots |-> EmptySlot]
  /\ active = [w \in Workers |-> NoSlot]
  /\ pc = [w \in Workers |-> "off"]
  /\ result = [w \in Workers |-> "None"]
  /\ download = [w \in Workers |-> NoFlags]
  /\ phase = "live"
  /\ submitted = 0
  /\ promise = [s \in Slots |-> NoPromise]

(***************************************************************************)
(* Helpers over the worker state.                                          *)
(***************************************************************************)

Holds(w, s) == active[w] = s
Held(s)     == \E w \in Workers : active[w] = s

HasIdleWorker == \E w \in Workers : active[w] = NoSlot

(* The handle is published until the settle; past its last read the flags  *)
(* of a transfer are not looked at again.                                  *)
HandleVisible(w) == pc[w] \in {"carry", "reading"}

(* download_for: the first worker holding the slot, if its handle is there. *)
DownloadFor(s) ==
  {w \in Workers : /\ Holds(w, s) /\ HandleVisible(w)
                   /\ \A v \in Workers : v < w => ~Holds(v, s)}

Requesting(flag, s) ==
  [w \in Workers |-> IF w \in DownloadFor(s)
                     THEN [download[w] EXCEPT ![flag] = TRUE]
                     ELSE download[w]]

(* arm_workers, under the lock: with work pending, spawn every unarmed     *)
(* worker in index order, stopping at the first spawn the host refuses.    *)
ArmedUpTo(k, at) ==
  [w \in Workers |-> IF at[w] = "off" /\ w < k THEN "hook" ELSE at[w]]

ArmWorkers(sl, at) ==
  IF ~Running \/ NextPending(sl) = {} THEN {at}
  ELSE {ArmedUpTo(k, at) : k \in IF SpawnMayFail THEN 0..NumWorkers ELSE {NumWorkers}}

(***************************************************************************)
(* Callers.  A call that returns false or None changes nothing and is not  *)
(* an action.  The *_all calls are one lock hold per slot, so they are     *)
(* runs of these actions.                                                  *)
(***************************************************************************)

FreeSlot == {s \in Slots : /\ ~slots[s].inUse
                           /\ \A r \in Slots : r < s => slots[r].inUse}

NewEntry(prio, t) ==
  [inUse |-> TRUE, prio |-> prio, state |-> "Pending",
   cancelRequested |-> FALSE, pauseRequested |-> FALSE,
   time |-> t, bytes |-> 0, path |-> FALSE, failure |-> FALSE]

(* Seeded fault: new work relies on a worker being armed already. *)
QueueUnarmed(prio, t) ==
  /\ Running /\ submitted < MaxSubmissions
  /\ \E s \in FreeSlot :
       /\ slots' = [slots EXCEPT ![s] = NewEntry(prio, t)]
       /\ promise' = [promise EXCEPT ![s] = NoPromise]
  /\ submitted' = submitted + 1
  /\ UNCHANGED <<active, pc, result, download, phase>>

Queue(prio, t) ==
  /\ Running /\ submitted < MaxSubmissions
  /\ \E s \in FreeSlot :
       LET entered == [slots EXCEPT ![s] = NewEntry(prio, t)]
           yielded == PreemptForUser(entered, active, prio, HasIdleWorker)
       IN  /\ \/ /\ yielded = {}
                 /\ slots' = entered /\ UNCHANGED download
              \/ \E y \in yielded :
                   /\ slots' = [entered EXCEPT ![y].state = "Preempted",
                                               ![y].pauseRequested = TRUE]
                   /\ download' = Requesting("pause", y)
           /\ pc' \in ArmWorkers(slots', pc)
           /\ promise' = [promise EXCEPT ![s] = NoPromise]
  /\ submitted' = submitted + 1
  /\ UNCHANGED <<active, result, phase>>

Called(call) == Running /\ call \in Calls

(* cancel_all walks the whole array and entry::cancel does not look at     *)
(* inUse, so a slot that is not in use may be cancelled too.               *)
Cancel(s) ==
  /\ Called("cancel") /\ CancelApplies(slots[s], Held(s))
  /\ slots' = [slots EXCEPT ![s].state = CancelState(slots[s], Held(s)),
                            ![s].cancelRequested = @ \/ Held(s)]
  /\ download' = Requesting("cancel", s)
  /\ promise' = [promise EXCEPT ![s].cancel = TRUE]
  /\ UNCHANGED <<active, pc, result, phase, submitted>>

Pause(s) ==
  /\ Called("pause") /\ PauseApplies(slots[s], Held(s))
  /\ slots' = [slots EXCEPT ![s].pauseRequested = TRUE]
  /\ download' = Requesting("pause", s)
  /\ promise' = [promise EXCEPT ![s].pause = TRUE]
  /\ UNCHANGED <<active, pc, result, phase, submitted>>

Resume(s) ==
  /\ Called("resume") /\ submitted < MaxSubmissions
  /\ ResumeApplies(slots[s])
  /\ slots' = [slots EXCEPT ![s].state = "Pending"]
  /\ pc' \in ArmWorkers(slots', pc)
  /\ promise' = [promise EXCEPT ![s].pause = FALSE]
  /\ submitted' = submitted + 1
  /\ UNCHANGED <<active, result, download, phase>>

(* Freeing a slot that is free already changes nothing. *)
Remove(s) ==
  /\ Called("remove") /\ slots[s].inUse /\ RemoveApplies(slots[s], Held(s))
  /\ slots' = [slots EXCEPT ![s].inUse = FALSE]
  /\ UNCHANGED <<active, pc, result, download, phase, submitted, promise>>

(* Drop: running is cleared before the lock is taken, then every published *)
(* transfer is asked to stop, then every thread is joined.                 *)
BeginDrop ==
  /\ Called("drop")
  /\ phase' = "stopping"
  /\ UNCHANGED <<slots, active, pc, result, download, submitted, promise>>

CancelActive ==
  /\ phase = "stopping"
  /\ download' = [w \in Workers |-> IF HandleVisible(w)
                                    THEN [download[w] EXCEPT !.cancel = TRUE]
                                    ELSE download[w]]
  /\ phase' = "joining"
  /\ UNCHANGED <<slots, active, pc, result, submitted, promise>>

JoinWorkers ==
  /\ phase = "joining" /\ \A w \in Workers : pc[w] = "off"
  /\ phase' = "dropped"
  /\ UNCHANGED <<slots, active, pc, result, download, submitted, promise>>

Dropped == phase = "dropped" /\ UNCHANGED vars

(***************************************************************************)
(* Workers: the thread's life and the drain loop.                          *)
(***************************************************************************)

Goto(w, from, to) == pc[w] = from /\ pc' = [pc EXCEPT ![w] = to]

HookReturns(w) ==
  /\ Goto(w, "hook", "top")
  /\ UNCHANGED <<slots, active, result, download, phase, submitted, promise>>

(* release_worker: the unwound thread is disarmed; a slot it still held is *)
(* failed.  The hook runs before the first claim, so it holds none.        *)
HookPanics(w) ==
  /\ HookMayPanic
  /\ Goto(w, "hook", "off")
  /\ active' = [active EXCEPT ![w] = NoSlot]
  /\ UNCHANGED <<slots, result, download, phase, submitted, promise>>

(* The top of the loop.  Seeing running cleared, the worker takes the lock *)
(* only to disarm itself.                                                  *)
CheckRunning(w) ==
  /\ Goto(w, "top", IF Running THEN "scan" ELSE "off")
  /\ UNCHANGED <<slots, active, result, download, phase, submitted, promise>>

(* Seeded fault: the worker retires without a sweep in the same hold. *)
RetireUnswept(w) ==
  /\ NextPending(slots) = {}
  /\ Goto(w, "scan", "off")
  /\ UNCHANGED <<slots, active, result, download, phase, submitted, promise>>

(* Seeded fault: a drained worker waits for work and never looks at        *)
(* running again.                                                          *)
RetireToWait(w) ==
  /\ NextPending(AutoResumePreempted(slots)) = {}
  /\ Goto(w, "scan", "scan")
  /\ slots' = AutoResumePreempted(slots)
  /\ UNCHANGED <<active, result, download, phase, submitted, promise>>

(* One lock hold: sweep, then retire or claim. *)
Retire(w) ==
  LET swept == AutoResumePreempted(slots)
  IN  /\ NextPending(swept) = {}
      /\ Goto(w, "scan", "off")
      /\ slots' = swept
      /\ UNCHANGED <<active, result, download, phase, submitted, promise>>

Claim(w) ==
  LET swept == AutoResumePreempted(slots)
  IN  \E s \in NextPending(swept) :
        /\ pc[w] = "scan"
        /\ slots' = [swept EXCEPT ![s].state = "Downloading"]
        /\ active' = [active EXCEPT ![w] = s]
        /\ pc' \in ArmWorkers(slots', [pc EXCEPT ![w] = "claimed"])
        /\ UNCHANGED <<result, download, phase, submitted, promise>>

(***************************************************************************)
(* Workers: one transfer (process and transfer).                           *)
(***************************************************************************)

SettleAs(w, from, outcome) ==
  /\ Goto(w, from, "settle")
  /\ result' = [result EXCEPT ![w] = outcome]
  /\ UNCHANGED <<active, phase, submitted, promise>>

CancelRequested(w) == slots[active[w]].cancelRequested

(* A cancel seen between the claim and the start: no request goes out.     *)
StopBeforeStart(w) ==
  /\ SettleAs(w, "claimed", "Cancelled")
  /\ CancelRequested(w)
  /\ UNCHANGED <<slots, download>>

(* A complete cache entry is served as it is, without the network. *)
ServeCached(w) ==
  /\ SettleAs(w, "claimed", "Complete")
  /\ ~CancelRequested(w)
  /\ slots' = [slots EXCEPT ![active[w]].bytes = MaxBytes]
  /\ UNCHANGED download

OpenFails(w) ==
  /\ SettleAs(w, "claimed", "Failed")
  /\ ~CancelRequested(w)
  /\ UNCHANGED <<slots, download>>

Open(w) ==
  /\ Goto(w, "claimed", "opened")
  /\ ~CancelRequested(w)
  /\ download' = [download EXCEPT ![w] = NoFlags]
  /\ UNCHANGED <<slots, active, result, phase, submitted, promise>>

(* A cancel that arrived while the transport was being set up. *)
StopOpened(w) ==
  /\ SettleAs(w, "opened", "Cancelled")
  /\ CancelRequested(w)
  /\ UNCHANGED <<slots, download>>

KeepOpened(w) ==
  /\ Goto(w, "opened", "publish")
  /\ ~CancelRequested(w)
  /\ UNCHANGED <<slots, active, result, download, phase, submitted, promise>>

(* Under the lock: from here on callers can ask the transfer to stop. *)
PublishHandle(w) ==
  /\ Goto(w, "publish", "carry")
  /\ UNCHANGED <<slots, active, result, download, phase, submitted, promise>>

(* Seeded faults: the shutdown, or a pause, is not looked at again once    *)
(* the handle is visible.                                                  *)
CarriedRequestsOnly(w) ==
  [cancel |-> download[w].cancel \/ CancelRequested(w),
   pause  |-> download[w].pause \/ slots[active[w]].pauseRequested]

CarriedStopsOnly(w) ==
  [cancel |-> download[w].cancel \/ CancelRequested(w) \/ ~Running,
   pause  |-> download[w].pause]

(* Requests that landed before the handle was visible are carried over.    *)
Carried(w) ==
  [cancel |-> download[w].cancel \/ CancelRequested(w) \/ ~Running,
   pause  |-> download[w].pause \/ slots[active[w]].pauseRequested]

StartReading(w) ==
  /\ Goto(w, "carry", "reading")
  /\ download' = [download EXCEPT ![w] = Carried(w)]
  /\ UNCHANGED <<slots, active, result, phase, submitted, promise>>

(* The partial file cannot be read back, or the cache entry turned out to  *)
(* be complete: then the file is re-read without a look at the stop flags. *)
FinishWithoutReading(w) ==
  /\ \E outcome \in {"Complete", "Failed"} : SettleAs(w, "carry", outcome)
  /\ download' = [download EXCEPT ![w] = Carried(w)]
  /\ UNCHANGED slots

Unstopped(w) == ~download[w].cancel /\ ~download[w].pause

(* Seeded fault: the unknown total is stored as progress. *)
ReadChunkUnknown(w) ==
  /\ pc[w] = "reading" /\ Unstopped(w)
  /\ slots' = [slots EXCEPT ![active[w]].bytes = -1]
  /\ UNCHANGED <<active, pc, result, download, phase, submitted, promise>>

ReadChunk(w) ==
  /\ pc[w] = "reading" /\ Unstopped(w)
  /\ \E n \in 0..MaxBytes : slots' = [slots EXCEPT ![active[w]].bytes = n]
  /\ UNCHANGED <<active, pc, result, download, phase, submitted, promise>>

(* The body ended and validated, or the connection, a write, the length or *)
(* the digest failed the transfer.                                         *)
EndOfBody(w) ==
  /\ Unstopped(w)
  /\ \E outcome \in {"Complete", "Failed"} : SettleAs(w, "reading", outcome)
  /\ UNCHANGED <<slots, download>>

(* A cancel outranks a pause at the poll that sees both. *)
ObserveStop(w) ==
  /\ ~Unstopped(w)
  /\ SettleAs(w, "reading", IF download[w].cancel THEN "Cancelled" ELSE "Paused")
  /\ UNCHANGED <<slots, download>>

(* Seeded faults: the settle publishes what the transfer did over a cancel *)
(* that landed; the settle takes a cancel to have set the state already.   *)
SettledAsTransferred(entry, outcome) ==
  [entry EXCEPT
     !.pauseRequested = FALSE,
     !.path    = @ \/ outcome = "Complete",
     !.failure = @ \/ outcome = "Failed",
     !.state   = IF @ = "Preempted" /\ outcome = "Paused" THEN @ ELSE outcome]

SettledUnlessCancelled(entry, outcome) ==
  [entry EXCEPT
     !.pauseRequested = FALSE,
     !.path    = @ \/ outcome = "Complete",
     !.failure = @ \/ outcome = "Failed",
     !.state   = IF entry.cancelRequested \/ (@ = "Preempted" /\ outcome = "Paused")
                 THEN @ ELSE outcome]

(* finish, under the lock: release the claim, publish the result and the   *)
(* state.  A cancel that landed turns any outcome into Cancelled; Preempted *)
(* survives a Paused settle.                                               *)
Settled(entry, outcome) ==
  LET settled == IF entry.cancelRequested THEN "Cancelled" ELSE outcome
  IN  [entry EXCEPT
         !.pauseRequested = FALSE,
         !.path    = @ \/ settled = "Complete",
         !.failure = @ \/ outcome = "Failed",
         !.state   = IF @ = "Preempted" /\ settled = "Paused" THEN @ ELSE settled]

Finish(w) ==
  /\ Goto(w, "settle", "top")
  /\ slots' = [slots EXCEPT ![active[w]] = Settled(@, result[w])]
  /\ active' = [active EXCEPT ![w] = NoSlot]
  /\ result' = [result EXCEPT ![w] = "None"]
  /\ download' = [download EXCEPT ![w] = NoFlags]
  /\ promise' = [promise EXCEPT ![active[w]].pause =
                   @ /\ slots'[active[w]].state \in {"Paused", "Preempted"}]
  /\ UNCHANGED <<phase, submitted>>

(***************************************************************************)
(* The specification.                                                      *)
(***************************************************************************)

Caller ==
  \/ \E prio \in Priority, t \in Times : Queue(prio, t)
  \/ \E s \in Slots : Cancel(s) \/ Pause(s) \/ Resume(s) \/ Remove(s)
  \/ BeginDrop

Dropping == CancelActive \/ JoinWorkers

(* Steps that depend on nothing outside the worker's own thread. *)
ThreadStep(w) ==
  \/ HookReturns(w) \/ CheckRunning(w) \/ Retire(w) \/ Claim(w)
  \/ StopBeforeStart(w) \/ StopOpened(w) \/ KeepOpened(w) \/ PublishHandle(w)
  \/ StartReading(w) \/ FinishWithoutReading(w) \/ ObserveStop(w) \/ Finish(w)

(* Steps in which the cache, the peer or the caller's hook answers. *)
AnswerStep(w) == ServeCached(w) \/ OpenFails(w) \/ Open(w) \/ EndOfBody(w)

Worker(w) ==
  ThreadStep(w) \/ AnswerStep(w) \/ ReadChunk(w) \/ HookPanics(w)

Next == Caller \/ Dropping \/ Dropped \/ \E w \in Workers : Worker(w)

Spec == Init /\ [][Next]_vars

(* Threads are scheduled, the drop runs to its end once begun, and a peer  *)
(* eventually ends the body it sends.                                      *)
Fairness ==
  /\ WF_vars(Dropping)
  /\ \A w \in Workers : WF_vars(ThreadStep(w)) /\ WF_vars(AnswerStep(w))

FairSpec == Spec /\ Fairness

(***************************************************************************)
(* Properties.                                                             *)
(***************************************************************************)

(* Every variable keeps its type: slots hold states the stored codes name, *)
(* and workers hold slots of the array.                                    *)
TypeOK ==
  /\ slots \in [Slots -> SlotType]
  /\ active \in [Workers -> Slots \cup {NoSlot}]
  /\ pc \in [Workers -> Pc]
  /\ result \in [Workers -> Outcome]
  /\ download \in [Workers -> Flags]
  /\ phase \in {"live", "stopping", "joining", "dropped"}
  /\ submitted \in 0..MaxSubmissions
  /\ promise \in [Slots -> Flags]

(* A cancel that returned true is kept whatever the worker was doing when  *)
(* it landed: the entry is never published Complete or Failed afterwards,  *)
(* and once no worker holds it it reads Cancelled (cancel and finish).     *)
CancelHonoured ==
  \A s \in Slots : promise[s].cancel =>
    /\ slots[s].state \notin {"Complete", "Failed"}
    /\ ~Held(s) => slots[s].state = "Cancelled"

(* A slot is never freed, and so never handed out again by queue, under    *)
(* the worker transferring into it, and a worker holds a slot exactly      *)
(* while it is inside process (remove, run_drain's claim, finish).         *)
SlotKeptUnderWorker ==
  \A w \in Workers :
    /\ pc[w] \in InProcess <=> active[w] # NoSlot
    /\ active[w] # NoSlot => slots[active[w]].inUse

(* No entry reads Downloading with nobody behind it, through hook panics,  *)
(* refused spawns and settles: such an entry could be neither removed nor  *)
(* cancelled (entry::remove, entry::cancel).                               *)
DownloadingIsHeld ==
  \A s \in Slots : slots[s].inUse /\ slots[s].state = "Downloading" => Held(s)

(* A preempted entry is never stranded: while the queue runs, some worker  *)
(* past its start hook has yet to come back to the sweep (run_drain does   *)
(* the sweep and the retire in one lock hold).                             *)
PreemptedIsSwept ==
  \A s \in Slots :
    Running /\ slots[s].inUse /\ slots[s].state = "Preempted"
      => \E w \in Workers : pc[w] \in {"top", "scan"} \cup InProcess

(* A drop is not lost in the window before a transfer's handle is visible: *)
(* once it has swept the active transfers, none of them reads on (process  *)
(* re-reads running after publishing the handle).                          *)
DropReachesTransfers ==
  phase \in {"joining", "dropped"} =>
    \A w \in Workers : pc[w] = "reading" => download[w].cancel

(* "A missed pause leaves the entry marked Preempted while it transfers    *)
(* on, holding the worker the user request was queued to get" (process,    *)
(* which re-reads the request after publishing the handle).                *)
PreemptionReachesTransfer ==
  \A w \in Workers :
    pc[w] = "reading" /\ slots[active[w]].state = "Preempted" => ~Unstopped(w)

(* No two workers transfer one entry ("claiming it also keeps a second     *)
(* worker off it", run_drain).  One worker cannot break it; two can, when  *)
(* the sweep resumes an entry whose worker has not yet settled it.         *)
OneWorkerPerEntry ==
  \A v, w \in Workers : active[v] = active[w] /\ active[v] # NoSlot => v = w

(* The queue implements the lifecycle it promises for its entries: a       *)
(* terminal state is final until remove, a promised cancel is kept, an     *)
(* entry comes to rest in Paused only by the caller's pause and leaves it  *)
(* only by resume, cancel or remove (State, cancel, pause, resume, finish).*)
Lifecycle == INSTANCE EntryLifecycle WITH
  entry <- [s \in Slots |->
              IF slots[s].inUse
              THEN [state |-> slots[s].state, cancel |-> promise[s].cancel,
                    pause |-> promise[s].pause]
              ELSE [state |-> "Free", cancel |-> FALSE, pause |-> FALSE]],
  open <- Running

ImplementsLifecycle == Lifecycle!Spec

(* Every queued entry is eventually picked up, or the queue is dropped:    *)
(* neither retiring workers nor preemption strands it.                     *)
PendingIsServed ==
  \A s \in Slots :
    slots[s].inUse /\ slots[s].state = "Pending"
      ~> slots[s].state # "Pending" \/ ~slots[s].inUse \/ ~Running

(* A preempted entry resumes by itself, without any call, once the user    *)
(* work it yielded to has drained.                                         *)
PreemptedResumes ==
  \A s \in Slots :
    slots[s].inUse /\ slots[s].state = "Preempted"
      ~> slots[s].state # "Preempted" \/ ~slots[s].inUse \/ ~Running

(* Drop returns: it waits for the workers and none of them waits for it.   *)
DropReturns == phase = "stopping" ~> phase = "dropped"
=============================================================================
