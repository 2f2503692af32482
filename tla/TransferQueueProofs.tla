------------------------- MODULE TransferQueueProofs -------------------------
(***************************************************************************)
(* Theorems about the transfer queue, for every size of the slot array,    *)
(* every number of workers and every bound.                                *)
(***************************************************************************)
EXTENDS TransferQueue, FiniteSetTheorems, WellFoundedInduction, TLAPS

(***************************************************************************)
(* Lemmas about the helpers.                                               *)
(***************************************************************************)

(* Arming only turns unarmed workers into workers at their start hook. *)
LEMMA ArmWorkersFact ==
  ASSUME NEW sl, NEW at \in [Workers -> Pc], NEW armed \in ArmWorkers(sl, at)
  PROVE  /\ armed \in [Workers -> Pc]
         /\ \A w \in Workers : armed[w] = at[w] \/ (at[w] = "off" /\ armed[w] = "hook")
<1>1. CASE armed = at
  BY <1>1
<1>2. CASE \E k \in 0..NumWorkers : armed = ArmedUpTo(k, at)
  BY <1>2 DEF ArmedUpTo, Pc
<1>3. armed = at \/ \E k \in 0..NumWorkers : armed = ArmedUpTo(k, at)
  BY SizeAssumption DEF ArmWorkers
<1>4. QED
  BY <1>1, <1>2, <1>3

(* The sweep changes nothing but the state of entries that are preempted. *)
LEMMA SweepFact ==
  ASSUME NEW sl \in [Slots -> SlotType], NEW s \in Slots
  PROVE  /\ AutoResumePreempted(sl) \in [Slots -> SlotType]
         /\ \/ AutoResumePreempted(sl)[s] = sl[s]
            \/ /\ sl[s].inUse /\ sl[s].state = "Preempted"
               /\ AutoResumePreempted(sl)[s] = [sl[s] EXCEPT !.state = "Pending"]
<1>1. \A r \in Slots : [sl[r] EXCEPT !.state = "Pending"] \in SlotType
  BY DEF SlotType, State
<1>2. QED
  BY <1>1 DEF AutoResumePreempted

(* What next_pending picks is in use and Pending. *)
LEMMA NextPendingFact ==
  ASSUME NEW sl \in [Slots -> SlotType], NEW s \in NextPending(sl)
  PROVE  s \in Slots /\ sl[s].inUse /\ sl[s].state = "Pending"
  BY DEF NextPending, PendingIn

(* What a preemption picks is held by a worker and Downloading. *)
LEMMA PreemptFact ==
  ASSUME NEW sl \in [Slots -> SlotType],
         NEW act \in [Workers -> Slots \cup {NoSlot}],
         NEW prio, NEW idle, NEW y \in PreemptForUser(sl, act, prio, idle)
  PROVE  /\ y \in Slots /\ sl[y].inUse /\ sl[y].state = "Downloading"
         /\ \E w \in Workers : act[w] = y
  BY DEF PreemptForUser, MayYield

(* Asking a transfer to stop keeps the flags' type. *)
LEMMA RequestingFact ==
  ASSUME download \in [Workers -> Flags], NEW flag \in {"cancel", "pause"}, NEW s
  PROVE  Requesting(flag, s) \in [Workers -> Flags]
  BY DEF Requesting, Flags

(***************************************************************************)
(* The inductive invariant.                                                *)
(***************************************************************************)

(* A worker has an outcome to publish exactly when it is about to settle.  *)
SettlesWithResult ==
  \A w \in Workers : pc[w] = "settle" => result[w] # "None"

(* Why a promised cancel is kept: while a worker holds the entry the       *)
(* request flag stays up for its settle, and afterwards nothing revives a  *)
(* Cancelled entry.                                                        *)
CancelKept ==
  \A s \in Slots : promise[s].cancel =>
    /\ slots[s].state \notin {"Complete", "Failed"}
    /\ Held(s) => slots[s].cancelRequested
    /\ ~Held(s) => slots[s].state = "Cancelled"

Inv == TypeOK /\ SettlesWithResult /\ SlotKeptUnderWorker /\ CancelKept

(* The fresh queue satisfies the invariant: no claim, no promise.          *)
LEMMA InitInv == Init => Inv
<1> SUFFICES ASSUME Init PROVE Inv
  OBVIOUS
<1> USE SizeAssumption DEF Init
<1>1. EmptySlot \in SlotType
  BY DEF EmptySlot, SlotType, Priority, Background, State
<1>2. TypeOK
  BY <1>1 DEF TypeOK, Pc, Outcome, NoFlags, NoPromise, Flags
<1>3. SettlesWithResult /\ SlotKeptUnderWorker
  BY DEF SettlesWithResult, SlotKeptUnderWorker, InProcess
<1>4. CancelKept
  BY DEF CancelKept, NoPromise
<1>5. QED
  BY <1>2, <1>3, <1>4 DEF Inv

(***************************************************************************)
(* Calls preserve it.                                                      *)
(***************************************************************************)

(* queue fills a slot that is not in use, so no worker holds it, and what  *)
(* yields is in flight: neither disturbs a claim or a promised cancel.     *)
LEMMA QueueInv ==
  ASSUME Inv, NEW prio \in Priority, NEW t \in Times, Queue(prio, t)
  PROVE  Inv'
<1> USE DEF Inv
<1> PICK s \in FreeSlot :
      LET entered == [slots EXCEPT ![s] = NewEntry(prio, t)]
          yielded == PreemptForUser(entered, active, prio, HasIdleWorker)
      IN  /\ \/ /\ yielded = {}
                /\ slots' = entered /\ UNCHANGED download
             \/ \E y \in yielded :
                  /\ slots' = [entered EXCEPT ![y].state = "Preempted",
                                              ![y].pauseRequested = TRUE]
                  /\ download' = Requesting("pause", y)
          /\ pc' \in ArmWorkers(slots', pc)
          /\ promise' = [promise EXCEPT ![s] = NoPromise]
  BY DEF Queue
<1> DEFINE entered == [slots EXCEPT ![s] = NewEntry(prio, t)]
<1>1. s \in Slots /\ ~slots[s].inUse /\ ~Held(s)
  BY DEF FreeSlot, SlotKeptUnderWorker, Held, NoSlot, Slots
<1>2. entered \in [Slots -> SlotType]
  BY <1>1, SizeAssumption DEF TypeOK, NewEntry, SlotType, State
<1>3. UNCHANGED <<active, result, phase>> /\ submitted' \in 0..MaxSubmissions
  BY SizeAssumption DEF Queue, TypeOK
<1>4. /\ pc' \in [Workers -> Pc]
      /\ \A w \in Workers : pc'[w] = pc[w] \/ (pc[w] = "off" /\ pc'[w] = "hook")
  BY ArmWorkersFact DEF TypeOK
<1>5. /\ slots' \in [Slots -> SlotType] /\ download' \in [Workers -> Flags]
      /\ \A r \in Slots : \/ slots'[r] = entered[r]
                          \/ /\ Held(r) /\ slots'[r].state = "Preempted"
                             /\ slots'[r].inUse = entered[r].inUse
                             /\ slots'[r].cancelRequested = entered[r].cancelRequested
  <2>1. CASE slots' = entered /\ UNCHANGED download
    BY <2>1, <1>2 DEF TypeOK
  <2>2. ASSUME NEW y \in PreemptForUser(entered, active, prio, HasIdleWorker),
               slots' = [entered EXCEPT ![y].state = "Preempted",
                                        ![y].pauseRequested = TRUE],
               download' = Requesting("pause", y)
        PROVE  <1>5
    <3> HIDE DEF entered
    <3>1. y \in Slots /\ entered[y].state = "Downloading" /\ Held(y)
      <4>1. active \in [Workers -> Slots \cup {NoSlot}]
        BY DEF TypeOK
      <4>2. QED
        BY <4>1, <1>2, PreemptFact DEF Held
    <3>2. [entered[y] EXCEPT !.state = "Preempted", !.pauseRequested = TRUE] \in SlotType
      <4>1. entered[y] \in SlotType
        BY <3>1, <1>2
      <4>2. \A e \in SlotType :
              [e EXCEPT !.state = "Preempted", !.pauseRequested = TRUE] \in SlotType
        BY DEF SlotType, State
      <4>3. QED
        BY <4>1, <4>2
    <3>3. slots' = [entered EXCEPT ![y] =
                      [entered[y] EXCEPT !.state = "Preempted", !.pauseRequested = TRUE]]
      BY <2>2, <3>1, <1>2
    <3>4. download' \in [Workers -> Flags]
      BY <2>2, RequestingFact DEF TypeOK
    <3>5. /\ slots'[y].state = "Preempted" /\ slots'[y].inUse = entered[y].inUse
          /\ slots'[y].cancelRequested = entered[y].cancelRequested
      BY <3>1, <3>3, <1>2 DEF SlotType
    <3>6. slots' \in [Slots -> SlotType] /\ \A r \in Slots : r # y => slots'[r] = entered[r]
      BY <3>1, <3>2, <3>3, <1>2
    <3>7. QED
      BY <3>1, <3>4, <3>5, <3>6
  <2>3. QED
    BY <2>1, <2>2
<1>6. TypeOK'
  BY <1>1, <1>3, <1>4, <1>5 DEF TypeOK, NoPromise, Flags
<1>7. SettlesWithResult'
  BY <1>3, <1>4 DEF SettlesWithResult
<1>8. SlotKeptUnderWorker'
  <2>1. \A r \in Slots : slots[r].inUse => slots'[r].inUse
    <3>1. \A r \in Slots : slots[r].inUse => entered[r].inUse
      BY <1>1 DEF TypeOK
    <3> HIDE DEF entered
    <3>2. \A r \in Slots : entered[r].inUse => slots'[r].inUse
      BY <1>2, <1>5 DEF SlotType
    <3>3. QED
      BY <3>1, <3>2
  <2>2. \A w \in Workers : pc'[w] \in InProcess <=> pc[w] \in InProcess
    BY <1>4 DEF InProcess
  <2>3. QED
    BY <2>1, <2>2, <1>3 DEF SlotKeptUnderWorker, TypeOK
<1>9. CancelKept'
  <2>1. \A r \in Slots : promise'[r].cancel
          => r # s /\ promise[r].cancel /\ entered[r] = slots[r]
    BY <1>1 DEF NoPromise, TypeOK
  <2>2. \A r \in Slots : Held(r)' <=> Held(r)
    BY <1>3 DEF Held
  <2>3. \A r \in Slots : promise'[r].cancel =>
          \/ slots'[r] = slots[r]
          \/ Held(r) /\ slots'[r].state = "Preempted"
             /\ slots'[r].cancelRequested = slots[r].cancelRequested
    BY <2>1, <1>5
  <2>4. active' = active
    BY <1>3
  <2>5. QED
    BY <2>1, <2>3, <2>4 DEF CancelKept, Held
<1>10. QED
  BY <1>6, <1>7, <1>8, <1>9

(* A step that leaves every claim, every promise and what the invariant    *)
(* reads of a slot alone keeps the invariant.                              *)
LEMMA FrameInv ==
  ASSUME Inv, TypeOK', SettlesWithResult',
         active' = active, promise' = promise,
         \A w \in Workers : pc'[w] \in InProcess <=> pc[w] \in InProcess,
         \A s \in Slots : /\ slots'[s].inUse = slots[s].inUse
                          /\ slots'[s].state = slots[s].state
                          /\ slots'[s].cancelRequested = slots[s].cancelRequested
  PROVE  Inv'
<1>1. SlotKeptUnderWorker'
  BY DEF Inv, TypeOK, SlotKeptUnderWorker
<1>2. CancelKept'
  BY DEF Inv, CancelKept, Held
<1>3. QED
  BY <1>1, <1>2 DEF Inv

(* cancel: a waiting entry ends at once; one in flight keeps the request   *)
(* in its flag until the settle, which is what CancelKept says.            *)
LEMMA CancelInv ==
  ASSUME Inv, NEW s \in Slots, Cancel(s)
  PROVE  Inv'
<1> USE DEF Inv
<1> DEFINE state == CancelState(slots[s], Held(s))
<1>1. /\ promise' = [promise EXCEPT ![s].cancel = TRUE]
      /\ download' = Requesting("cancel", s)
      /\ UNCHANGED <<active, pc, result, phase, submitted>>
      /\ CancelApplies(slots[s], Held(s))
  BY DEF Cancel
<1>2. state \in State
  BY DEF CancelState, TypeOK, SlotType, State
<1>3. slots' = [slots EXCEPT ![s] = [slots[s] EXCEPT
                  !.state = state, !.cancelRequested = @ \/ Held(s)]]
  BY DEF Cancel, TypeOK
<1> HIDE DEF state
<1>4. /\ slots' \in [Slots -> SlotType]
      /\ \A r \in Slots : r # s => slots'[r] = slots[r]
      /\ slots'[s].state = state /\ slots'[s].inUse = slots[s].inUse
      /\ slots'[s].cancelRequested <=> slots[s].cancelRequested \/ Held(s)
  <2>1. slots[s] \in SlotType
    BY DEF TypeOK
  <2>2. [slots[s] EXCEPT !.state = state, !.cancelRequested = @ \/ Held(s)] \in SlotType
    BY <1>2, <2>1 DEF SlotType
  <2>3. QED
    BY <1>3, <2>1, <2>2 DEF TypeOK, SlotType
<1>5. TypeOK'
  <2>1. download' \in [Workers -> Flags]
    BY <1>1, RequestingFact DEF TypeOK
  <2>2. promise' \in [Slots -> Flags]
    BY <1>1 DEF TypeOK, Flags
  <2>3. QED
    BY <1>1, <1>4, <2>1, <2>2 DEF TypeOK
<1>6. SettlesWithResult'
  BY <1>1 DEF SettlesWithResult
<1>7. SlotKeptUnderWorker'
  BY <1>1, <1>4 DEF SlotKeptUnderWorker, TypeOK
<1>8. CancelKept'
  <2>1. state \notin {"Complete", "Failed"} /\ (~Held(s) => state = "Cancelled")
    BY <1>1 DEF state, CancelApplies, CancelDefers, CancelState
  <2>2. \A r \in Slots : r # s => promise'[r] = promise[r]
    BY <1>1 DEF TypeOK
  <2>3. QED
    BY <1>1, <1>4, <2>1, <2>2 DEF CancelKept, Held
<1>9. QED
  BY <1>5, <1>6, <1>7, <1>8

(* pause only raises the flag of an entry in flight.                       *)
LEMMA PauseInv ==
  ASSUME Inv, NEW s \in Slots, Pause(s)
  PROVE  Inv'
<1> USE DEF Inv
<1>1. /\ promise' = [promise EXCEPT ![s].pause = TRUE]
      /\ download' = Requesting("pause", s)
      /\ UNCHANGED <<active, pc, result, phase, submitted>>
  BY DEF Pause
<1>2. slots' = [slots EXCEPT ![s] = [slots[s] EXCEPT !.pauseRequested = TRUE]]
  BY DEF Pause, TypeOK
<1>3. /\ slots' \in [Slots -> SlotType]
      /\ \A r \in Slots : /\ slots'[r].inUse = slots[r].inUse
                          /\ slots'[r].state = slots[r].state
                          /\ slots'[r].cancelRequested = slots[r].cancelRequested
  <2>1. slots[s] \in SlotType
    BY DEF TypeOK
  <2>2. [slots[s] EXCEPT !.pauseRequested = TRUE] \in SlotType
    BY <2>1 DEF SlotType
  <2>3. QED
    BY <1>2, <2>1, <2>2 DEF TypeOK, SlotType
<1>4. TypeOK'
  <2>1. download' \in [Workers -> Flags]
    BY <1>1, RequestingFact DEF TypeOK
  <2>2. promise' \in [Slots -> Flags] /\ \A r \in Slots : promise'[r].cancel = promise[r].cancel
    BY <1>1 DEF TypeOK, Flags
  <2>3. QED
    BY <1>1, <1>3, <2>1, <2>2 DEF TypeOK
<1>5. SettlesWithResult' /\ SlotKeptUnderWorker'
  BY <1>1, <1>3 DEF SettlesWithResult, SlotKeptUnderWorker, TypeOK
<1>6. CancelKept'
  <2>1. \A r \in Slots : promise'[r].cancel = promise[r].cancel
    BY <1>1 DEF TypeOK, Flags
  <2>2. QED
    BY <1>1, <1>3, <2>1 DEF CancelKept, Held
<1>7. QED
  BY <1>4, <1>5, <1>6

(* resume only touches a Paused entry, which has no promised cancel.       *)
LEMMA ResumeInv ==
  ASSUME Inv, NEW s \in Slots, Resume(s)
  PROVE  Inv'
<1> USE DEF Inv
<1>1. /\ promise' = [promise EXCEPT ![s].pause = FALSE]
      /\ UNCHANGED <<active, result, download, phase>>
      /\ slots[s].state = "Paused"
  BY DEF Resume, ResumeApplies
<1>2. submitted' \in 0..MaxSubmissions
  BY SizeAssumption DEF Resume, TypeOK
<1>3. /\ pc' \in [Workers -> Pc]
      /\ \A w \in Workers : pc'[w] = pc[w] \/ (pc[w] = "off" /\ pc'[w] = "hook")
  BY ArmWorkersFact DEF Resume, TypeOK
<1>4. slots' = [slots EXCEPT ![s] = [slots[s] EXCEPT !.state = "Pending"]]
  BY DEF Resume, TypeOK
<1>5. /\ slots' \in [Slots -> SlotType]
      /\ \A r \in Slots : r # s => slots'[r] = slots[r]
      /\ slots'[s].state = "Pending" /\ slots'[s].inUse = slots[s].inUse
      /\ slots'[s].cancelRequested = slots[s].cancelRequested
  <2>1. slots[s] \in SlotType
    BY DEF TypeOK
  <2>2. [slots[s] EXCEPT !.state = "Pending"] \in SlotType
    BY <2>1 DEF SlotType, State
  <2>3. QED
    BY <1>4, <2>1, <2>2 DEF TypeOK, SlotType
<1>6. promise' \in [Slots -> Flags] /\ \A r \in Slots : promise'[r].cancel = promise[r].cancel
  BY <1>1 DEF TypeOK, Flags
<1>7. TypeOK'
  BY <1>1, <1>2, <1>3, <1>5, <1>6 DEF TypeOK
<1>8. SettlesWithResult'
  BY <1>1, <1>3 DEF SettlesWithResult
<1>9. SlotKeptUnderWorker'
  <2>1. \A w \in Workers : pc'[w] \in InProcess <=> pc[w] \in InProcess
    BY <1>3 DEF InProcess
  <2>2. QED
    BY <2>1, <1>1, <1>5 DEF SlotKeptUnderWorker, TypeOK
<1>10. CancelKept'
  BY <1>1, <1>5, <1>6 DEF CancelKept, Held
<1>11. QED
  BY <1>7, <1>8, <1>9, <1>10

(* remove frees a slot no worker holds.                                    *)
LEMMA RemoveInv ==
  ASSUME Inv, NEW s \in Slots, Remove(s)
  PROVE  Inv'
<1> USE DEF Inv
<1>1. UNCHANGED <<active, pc, result, download, phase, submitted, promise>> /\ ~Held(s)
  BY DEF Remove, RemoveApplies
<1>2. slots' = [slots EXCEPT ![s] = [slots[s] EXCEPT !.inUse = FALSE]]
  BY DEF Remove, TypeOK
<1>3. /\ slots' \in [Slots -> SlotType]
      /\ \A r \in Slots : /\ r # s => slots'[r].inUse = slots[r].inUse
                          /\ slots'[r].state = slots[r].state
                          /\ slots'[r].cancelRequested = slots[r].cancelRequested
  <2>1. slots[s] \in SlotType
    BY DEF TypeOK
  <2>2. [slots[s] EXCEPT !.inUse = FALSE] \in SlotType
    BY <2>1 DEF SlotType
  <2>3. QED
    BY <1>2, <2>1, <2>2 DEF TypeOK, SlotType
<1>4. TypeOK'
  BY <1>1, <1>3 DEF TypeOK
<1>5. SettlesWithResult' /\ CancelKept'
  BY <1>1, <1>3 DEF SettlesWithResult, CancelKept, Held
<1>6. SlotKeptUnderWorker'
  BY <1>1, <1>3 DEF SlotKeptUnderWorker, Held, TypeOK
<1>7. QED
  BY <1>4, <1>5, <1>6

(***************************************************************************)
(* Worker steps preserve it.                                               *)
(***************************************************************************)

(* The steps of drop leave slots and claims alone.                         *)
LEMMA DropInv ==
  ASSUME Inv, BeginDrop \/ CancelActive \/ JoinWorkers
  PROVE  Inv'
<1>1. UNCHANGED <<slots, active, pc, result, submitted, promise>>
  BY DEF BeginDrop, CancelActive, JoinWorkers
<1>2. phase' \in {"live", "stopping", "joining", "dropped"}
  BY DEF BeginDrop, CancelActive, JoinWorkers
<1>3. download' \in [Workers -> Flags]
  <2>1. \A f \in Flags : [f EXCEPT !.cancel = TRUE] \in Flags
    BY DEF Flags
  <2>2. download \in [Workers -> Flags]
    BY DEF Inv, TypeOK
  <2>3. CASE CancelActive
    BY <2>1, <2>2, <2>3 DEF CancelActive
  <2>4. CASE BeginDrop \/ JoinWorkers
    BY <2>2, <2>4 DEF BeginDrop, JoinWorkers
  <2>5. QED
    BY <2>3, <2>4
<1>4. TypeOK' /\ SettlesWithResult'
  BY <1>1, <1>2, <1>3 DEF Inv, TypeOK, SettlesWithResult
<1>5. QED
  BY <1>1, <1>4, FrameInv

(* Steps of the thread outside a transfer. *)
LEMMA ThreadInv ==
  ASSUME Inv, NEW w \in Workers, HookReturns(w) \/ HookPanics(w) \/ CheckRunning(w)
  PROVE  Inv'
<1> USE DEF Inv
<1>1. /\ UNCHANGED <<slots, result, download, phase, submitted, promise>>
      /\ pc[w] \in {"hook", "top"}
      /\ \E to \in {"top", "off", "scan"} : pc' = [pc EXCEPT ![w] = to]
  BY DEF HookReturns, HookPanics, CheckRunning, Goto
<1>2. active' = active
  <2>1. active[w] = NoSlot
    BY <1>1 DEF SlotKeptUnderWorker, InProcess
  <2>2. QED
    BY <2>1 DEF HookReturns, HookPanics, CheckRunning, TypeOK
<1>3. TypeOK' /\ SettlesWithResult'
  BY <1>1, <1>2 DEF TypeOK, SettlesWithResult, Pc
<1>4. \A v \in Workers : pc'[v] \in InProcess <=> pc[v] \in InProcess
  BY <1>1 DEF InProcess, TypeOK
<1>5. QED
  BY <1>1, <1>2, <1>3, <1>4, FrameInv

(* Steps inside a transfer, up to its settle: none of them touches what    *)
(* callers decide on.                                                      *)
LEMMA TransferInv ==
  ASSUME Inv, NEW w \in Workers,
         \/ StopBeforeStart(w) \/ ServeCached(w) \/ OpenFails(w) \/ Open(w)
         \/ StopOpened(w) \/ KeepOpened(w) \/ PublishHandle(w)
         \/ StartReading(w) \/ FinishWithoutReading(w)
         \/ ReadChunk(w) \/ EndOfBody(w) \/ ObserveStop(w)
  PROVE  Inv'
<1> USE DEF Inv
<1> DEFINE Ready == {"claimed", "opened", "publish", "carry", "reading"}
<1>1. UNCHANGED <<active, phase, submitted, promise>>
  BY DEF StopBeforeStart, ServeCached, OpenFails, Open, StopOpened, KeepOpened,
         PublishHandle, StartReading, FinishWithoutReading, ReadChunk, EndOfBody,
         ObserveStop, SettleAs
<1>2. /\ pc[w] \in Ready
      /\ \/ /\ \E to \in Ready : pc' = [pc EXCEPT ![w] = to]
            /\ UNCHANGED result
         \/ /\ pc' = [pc EXCEPT ![w] = "settle"]
            /\ \E outcome \in Outcome \ {"None"} : result' = [result EXCEPT ![w] = outcome]
  <2>1. CASE Open(w) \/ KeepOpened(w) \/ PublishHandle(w) \/ StartReading(w)
    BY <2>1 DEF Open, KeepOpened, PublishHandle, StartReading, Goto
  <2>2. CASE ReadChunk(w)
    <3>1. pc' = [pc EXCEPT ![w] = "reading"] /\ UNCHANGED result /\ pc[w] = "reading"
      BY <2>2 DEF ReadChunk, TypeOK
    <3>2. QED
      BY <3>1
  <2>3. CASE StopBeforeStart(w) \/ ServeCached(w) \/ OpenFails(w) \/ StopOpened(w)
    BY <2>3 DEF StopBeforeStart, ServeCached, OpenFails, StopOpened, SettleAs, Goto, Outcome
  <2>4. CASE FinishWithoutReading(w) \/ EndOfBody(w) \/ ObserveStop(w)
    BY <2>4 DEF FinishWithoutReading, EndOfBody, ObserveStop, SettleAs, Goto, Outcome
  <2>5. QED
    BY <2>1, <2>2, <2>3, <2>4
<1>3. download' \in [Workers -> Flags]
  <2>1. CASE Open(w)
    BY <2>1 DEF Open, NoFlags, TypeOK, Flags
  <2>2. CASE StartReading(w) \/ FinishWithoutReading(w)
    <3>1. Carried(w) \in Flags
      BY DEF Carried, Flags
    <3>2. QED
      BY <2>2, <3>1 DEF StartReading, FinishWithoutReading, TypeOK
  <2>3. CASE UNCHANGED download
    BY <2>3 DEF TypeOK
  <2>4. QED
    BY <2>1, <2>2, <2>3 DEF StopBeforeStart, ServeCached, OpenFails, StopOpened,
       KeepOpened, PublishHandle, ReadChunk, EndOfBody, ObserveStop
<1>4. /\ slots' \in [Slots -> SlotType]
      /\ \A s \in Slots : /\ slots'[s].inUse = slots[s].inUse
                          /\ slots'[s].state = slots[s].state
                          /\ slots'[s].cancelRequested = slots[s].cancelRequested
  <2>1. CASE UNCHANGED slots
    BY <2>1 DEF TypeOK
  <2>2. ASSUME NEW n \in 0..MaxBytes, slots' = [slots EXCEPT ![active[w]].bytes = n]
        PROVE  <1>4
    <3>1. slots' = [slots EXCEPT ![active[w]] = [slots[active[w]] EXCEPT !.bytes = n]]
      BY <2>2 DEF TypeOK
    <3>2. \A s \in Slots : [slots[s] EXCEPT !.bytes = n] \in SlotType
      BY DEF TypeOK, SlotType
    <3>3. QED
      BY <3>1, <3>2 DEF TypeOK, SlotType
  <2>3. MaxBytes \in 0..MaxBytes
    BY SizeAssumption
  <2>4. QED
    BY <2>1, <2>2, <2>3 DEF StopBeforeStart, ServeCached, OpenFails, Open, StopOpened,
       KeepOpened, PublishHandle, StartReading, FinishWithoutReading, ReadChunk,
       EndOfBody, ObserveStop
<1>5. TypeOK'
  BY <1>1, <1>2, <1>3, <1>4 DEF TypeOK, Pc, InProcess
<1>6. SettlesWithResult'
  BY <1>2 DEF SettlesWithResult, TypeOK
<1>7. \A v \in Workers : pc'[v] \in InProcess <=> pc[v] \in InProcess
  BY <1>2 DEF InProcess, TypeOK
<1>8. QED
  BY <1>1, <1>4, <1>5, <1>6, <1>7, FrameInv

(* What the sweep leaves: same claims and promises, and only entries that  *)
(* were Preempted change, to Pending.                                      *)
LEMMA SweptFact ==
  ASSUME Inv
  PROVE  /\ AutoResumePreempted(slots) \in [Slots -> SlotType]
         /\ \A s \in Slots :
              LET swept == AutoResumePreempted(slots)[s]
              IN  /\ swept.inUse = slots[s].inUse
                  /\ swept.cancelRequested = slots[s].cancelRequested
                  /\ swept.state = slots[s].state
                     \/ (slots[s].state = "Preempted" /\ swept.state = "Pending")
<1>1. \A s \in Slots : slots[s] \in SlotType
  BY DEF Inv, TypeOK
<1>2. \A e \in SlotType : /\ [e EXCEPT !.state = "Pending"].inUse = e.inUse
                          /\ [e EXCEPT !.state = "Pending"].cancelRequested = e.cancelRequested
                          /\ [e EXCEPT !.state = "Pending"].state = "Pending"
  BY DEF SlotType
<1>3. slots \in [Slots -> SlotType]
  BY DEF Inv, TypeOK
<1>4. 0 \in Slots
  BY SizeAssumption DEF Slots
<1>5. AutoResumePreempted(slots) \in [Slots -> SlotType]
  BY <1>3, <1>4, SweepFact
<1>6. ASSUME NEW s \in Slots
      PROVE  LET swept == AutoResumePreempted(slots)[s]
             IN  /\ swept.inUse = slots[s].inUse
                 /\ swept.cancelRequested = slots[s].cancelRequested
                 /\ swept.state = slots[s].state
                    \/ (slots[s].state = "Preempted" /\ swept.state = "Pending")
  <2>1. CASE AutoResumePreempted(slots)[s] = slots[s]
    BY <2>1
  <2>2. CASE /\ slots[s].state = "Preempted"
             /\ AutoResumePreempted(slots)[s] = [slots[s] EXCEPT !.state = "Pending"]
    BY <1>1, <1>2, <2>2
  <2>3. QED
    BY <1>3, <2>1, <2>2, SweepFact
<1>7. QED
  BY <1>5, <1>6

(* A retiring worker holds no slot, and its sweep makes entries Pending    *)
(* only: one whose cancel was promised is either Cancelled, and passed     *)
(* over, or held, and keeps its request flag.                              *)
LEMMA RetireInv ==
  ASSUME Inv, NEW w \in Workers, Retire(w)
  PROVE  Inv'
<1> USE DEF Inv
<1>1. /\ slots' = AutoResumePreempted(slots)
      /\ pc[w] = "scan" /\ pc' = [pc EXCEPT ![w] = "off"]
      /\ UNCHANGED <<active, result, download, phase, submitted, promise>>
  BY DEF Retire, Goto
<1>2. TypeOK' /\ SettlesWithResult'
  BY <1>1, SweptFact DEF TypeOK, SettlesWithResult, Pc
<1>3. SlotKeptUnderWorker'
  <2>1. \A v \in Workers : pc'[v] \in InProcess <=> pc[v] \in InProcess
    BY <1>1 DEF InProcess, TypeOK
  <2>2. QED
    BY <1>1, <2>1, SweptFact DEF SlotKeptUnderWorker, TypeOK
<1>4. CancelKept'
  BY <1>1, SweptFact DEF CancelKept, Held
<1>5. QED
  BY <1>2, <1>3, <1>4

(* A claim takes a Pending entry, which has no promised cancel.            *)
LEMMA ClaimInv ==
  ASSUME Inv, NEW w \in Workers, Claim(w)
  PROVE  Inv'
<1> USE DEF Inv
<1> DEFINE swept == AutoResumePreempted(slots)
<1> PICK s \in NextPending(swept) :
      /\ pc[w] = "scan"
      /\ slots' = [swept EXCEPT ![s].state = "Downloading"]
      /\ active' = [active EXCEPT ![w] = s]
      /\ pc' \in ArmWorkers(slots', [pc EXCEPT ![w] = "claimed"])
      /\ UNCHANGED <<result, download, phase, submitted, promise>>
  BY DEF Claim
<1>1. swept \in [Slots -> SlotType]
  BY SweptFact
<1>2. \A r \in Slots :
        /\ swept[r].inUse = slots[r].inUse
        /\ swept[r].cancelRequested = slots[r].cancelRequested
        /\ swept[r].state = slots[r].state
           \/ (slots[r].state = "Preempted" /\ swept[r].state = "Pending")
  BY SweptFact
<1> HIDE DEF swept
<1>3. s \in Slots /\ swept[s].inUse /\ swept[s].state = "Pending"
  BY <1>1, NextPendingFact
<1>4. /\ slots' \in [Slots -> SlotType]
      /\ \A r \in Slots : r # s => slots'[r] = swept[r]
      /\ slots'[s].state = "Downloading" /\ slots'[s].inUse
      /\ slots'[s].cancelRequested = swept[s].cancelRequested
  <2>1. [swept[s] EXCEPT !.state = "Downloading"] \in SlotType
    BY <1>1, <1>3 DEF SlotType, State
  <2>2. slots' = [swept EXCEPT ![s] = [swept[s] EXCEPT !.state = "Downloading"]]
    BY <1>1, <1>3
  <2>3. QED
    BY <1>1, <1>3, <2>1, <2>2 DEF SlotType
<1>5. /\ pc' \in [Workers -> Pc]
      /\ pc'[w] = "claimed"
      /\ \A v \in Workers : v # w =>
           pc'[v] = pc[v] \/ (pc[v] = "off" /\ pc'[v] = "hook")
  <2> DEFINE at == [pc EXCEPT ![w] = "claimed"]
  <2>1. /\ at \in [Workers -> Pc] /\ at[w] = "claimed"
        /\ \A v \in Workers : v # w => at[v] = pc[v]
    BY DEF TypeOK, Pc, InProcess
  <2>2. pc' \in ArmWorkers(slots', at)
    OBVIOUS
  <2> HIDE DEF at
  <2>3. /\ pc' \in [Workers -> Pc]
        /\ \A v \in Workers : pc'[v] = at[v] \/ (at[v] = "off" /\ pc'[v] = "hook")
    BY <2>1, <2>2, ArmWorkersFact
  <2>4. QED
    BY <2>1, <2>3
<1>6. TypeOK'
  BY <1>3, <1>4, <1>5 DEF TypeOK
<1>7. SettlesWithResult'
  BY <1>5 DEF SettlesWithResult
<1>8. SlotKeptUnderWorker'
  <2>1. s # NoSlot
    BY <1>3, SizeAssumption DEF Slots, NoSlot
  <2>2. \A v \in Workers : v # w => (pc'[v] \in InProcess <=> pc[v] \in InProcess)
    BY <1>5 DEF InProcess
  <2>3. \A r \in Slots : slots[r].inUse => slots'[r].inUse
    BY <1>2, <1>4
  <2>4. pc'[w] \in InProcess /\ active'[w] = s
    BY <1>5 DEF InProcess, TypeOK
  <2>5. QED
    BY <1>4, <1>3, <2>1, <2>2, <2>3, <2>4 DEF SlotKeptUnderWorker, TypeOK
<1>9. CancelKept'
  <2>1. active[w] = NoSlot
    BY DEF SlotKeptUnderWorker, InProcess
  <2>2. \A r \in Slots : Held(r) => Held(r)'
    <3>1. \A r \in Slots : r # NoSlot
      BY SizeAssumption DEF Slots, NoSlot
    <3>2. QED
      BY <2>1, <3>1 DEF Held, TypeOK
  <2>3. promise[s].cancel => Held(s)
    BY <1>2, <1>3 DEF CancelKept
  <2>4. \A r \in Slots : r # s => (Held(r)' <=> Held(r))
    BY <2>1, <2>2 DEF Held, TypeOK
  <2>5. QED
    BY <1>2, <1>3, <1>4, <2>2, <2>3, <2>4 DEF CancelKept
<1>10. QED
  BY <1>6, <1>7, <1>8, <1>9

(* The settle: the one step that publishes a terminal state.               *)
LEMMA FinishInv ==
  ASSUME Inv, NEW w \in Workers, Finish(w)
  PROVE  Inv'
<1> USE DEF Inv
<1> DEFINE s == active[w]
<1>1. /\ pc[w] = "settle" /\ pc' = [pc EXCEPT ![w] = "top"]
      /\ active' = [active EXCEPT ![w] = NoSlot]
      /\ result' = [result EXCEPT ![w] = "None"]
      /\ download' = [download EXCEPT ![w] = NoFlags]
      /\ UNCHANGED <<phase, submitted>>
  BY DEF Finish, Goto
<1>2. s \in Slots /\ s # NoSlot /\ result[w] \in Outcome \ {"None"}
  BY <1>1 DEF SlotKeptUnderWorker, SettlesWithResult, InProcess, TypeOK
<1>3. slots' = [slots EXCEPT ![s] = Settled(slots[s], result[w])]
  BY <1>2 DEF Finish, TypeOK
<1>4. \A r \in Slots : promise'[r].cancel = promise[r].cancel
  BY <1>2 DEF Finish, TypeOK, Flags
<1>5. promise' \in [Slots -> Flags]
  BY <1>2 DEF Finish, TypeOK, Flags
<1>6. /\ Settled(slots[s], result[w]) \in SlotType
      /\ Settled(slots[s], result[w]).inUse = slots[s].inUse
      /\ Settled(slots[s], result[w]).cancelRequested = slots[s].cancelRequested
      /\ slots[s].cancelRequested => Settled(slots[s], result[w]).state = "Cancelled"
  <2>1. slots[s] \in SlotType
    BY <1>2 DEF TypeOK
  <2> HIDE DEF s
  <2>2. ASSUME NEW e \in SlotType, NEW outcome \in Outcome \ {"None"}
        PROVE  /\ Settled(e, outcome) \in SlotType
               /\ Settled(e, outcome).inUse = e.inUse
               /\ Settled(e, outcome).cancelRequested = e.cancelRequested
               /\ e.cancelRequested => Settled(e, outcome).state = "Cancelled"
    <3>1. Settled(e, outcome) \in SlotType
      <4> DEFINE settled == IF e.cancelRequested THEN "Cancelled" ELSE outcome
                 state   == IF e.state = "Preempted" /\ settled = "Paused" THEN e.state
                            ELSE settled
                 path    == e.path \/ settled = "Complete"
                 failure == e.failure \/ outcome = "Failed"
      <4>1. settled \in State
        BY DEF State, Outcome
      <4>2. state \in State
        BY <4>1 DEF SlotType
      <4>3. Settled(e, outcome) = [e EXCEPT !.pauseRequested = FALSE, !.path = path,
                                            !.failure = failure, !.state = state]
        BY DEF Settled, SlotType
      <4>4. path \in BOOLEAN /\ failure \in BOOLEAN
        OBVIOUS
      <4> HIDE DEF settled, state, path, failure
      <4>5. QED
        BY <4>2, <4>3, <4>4 DEF SlotType
    <3>2. /\ Settled(e, outcome).inUse = e.inUse
          /\ Settled(e, outcome).cancelRequested = e.cancelRequested
      BY DEF Settled, SlotType
    <3>3. e.cancelRequested => Settled(e, outcome).state = "Cancelled"
      BY DEF Settled, SlotType
    <3>4. QED
      BY <3>1, <3>2, <3>3
  <2>3. QED
    BY <2>1, <2>2, <1>2
<1> HIDE DEF s
<1>7. TypeOK'
  BY <1>1, <1>2, <1>3, <1>5, <1>6 DEF TypeOK, Pc, Outcome, NoFlags, Flags
<1>8. SettlesWithResult'
  BY <1>1 DEF SettlesWithResult, TypeOK
<1>9. SlotKeptUnderWorker'
  <2>1. \A r \in Slots : slots'[r].inUse = slots[r].inUse
    BY <1>2, <1>3, <1>6 DEF TypeOK
  <2>2. \A v \in Workers : v # w => (pc'[v] \in InProcess <=> pc[v] \in InProcess)
    BY <1>1 DEF TypeOK
  <2>3. pc'[w] \notin InProcess /\ active'[w] = NoSlot
    BY <1>1 DEF InProcess, TypeOK
  <2>4. \A v \in Workers : v # w => active'[v] = active[v]
    BY <1>1 DEF TypeOK
  <2>5. QED
    BY <2>1, <2>2, <2>3, <2>4 DEF SlotKeptUnderWorker, TypeOK
<1>10. CancelKept'
  <2>1. \A r \in Slots : r # s => (Held(r)' <=> Held(r)) /\ slots'[r] = slots[r]
    <3>1. \A r \in Slots : r # NoSlot
      BY SizeAssumption DEF Slots, NoSlot
    <3>2. QED
      BY <1>1, <1>3, <3>1 DEF s, Held, TypeOK
  <2>2. Held(s)
    BY DEF s, Held
  <2>3. promise[s].cancel => slots[s].cancelRequested
    BY <1>2, <2>2 DEF CancelKept
  <2>4. /\ promise[s].cancel => slots'[s].state = "Cancelled"
        /\ slots'[s].cancelRequested = slots[s].cancelRequested
    BY <1>2, <1>3, <1>6, <2>3 DEF TypeOK
  <2>5. QED
    BY <1>4, <2>1, <2>3, <2>4 DEF CancelKept
<1>11. QED
  BY <1>7, <1>8, <1>9, <1>10

(***************************************************************************)
(* Nothing is stranded in flight.                                          *)
(***************************************************************************)

(* A scan that finds nothing pending means that nothing is: the ranking    *)
(* has a first among any pending entries (entry::next_pending).            *)
LEMMA NextPendingExists ==
  ASSUME NEW sl \in [Slots -> SlotType], NextPending(sl) = {}
  PROVE  PendingIn(sl) = {}
<1> SUFFICES ASSUME PendingIn(sl) # {} PROVE FALSE
  OBVIOUS
<1> DEFINE Before(s) == {t \in PendingIn(sl) : RunsBefore(sl, t, s)}
           Befores   == {Before(s) : s \in PendingIn(sl)}
<1>1. PendingIn(sl) \subseteq Slots /\ IsFiniteSet(Slots)
  BY SizeAssumption, FS_Interval DEF PendingIn, Slots
<1>2. Befores \subseteq SUBSET Slots /\ Befores # {}
  BY <1>1
<1>3. PICK least \in Befores : \A other \in Befores :
        ~(other \subseteq least /\ other # least)
  <2>1. IsWellFoundedOn(StrictSubsetOrdering(Slots), SUBSET Slots)
    BY <1>1, FS_StrictSubsetOrderingWellFounded, FS_FiniteSubsetsOfFinite
  <2>2. \E least \in Befores : \A other \in Befores :
          <<other, least>> \notin StrictSubsetOrdering(Slots)
    BY <1>2, <2>1, WFMin
  <2>3. QED
    BY <1>2, <2>2 DEF StrictSubsetOrdering
<1>4. PICK s \in PendingIn(sl) : least = Before(s)
  OBVIOUS
<1>5. \A r \in Slots : sl[r].prio \in Int /\ sl[r].time \in Int /\ r \in Int
  <2>1. Slots \subseteq Int
    BY SizeAssumption DEF Slots
  <2>2. \A e \in SlotType : e.prio \in Priority /\ e.time \in Times
    BY DEF SlotType
  <2>3. Priority \subseteq Int /\ Times \subseteq Int
    BY SizeAssumption DEF Priority, Background, User
  <2>4. QED
    BY <2>1, <2>2, <2>3
<1>6. PICK t \in PendingIn(sl) \ {s} : ~RunsBefore(sl, s, t)
  BY DEF NextPending
<1>7. RunsBefore(sl, t, s) /\ ~RunsBefore(sl, t, t)
  BY <1>1, <1>5, <1>6 DEF RunsBefore
<1>8. ASSUME NEW r \in PendingIn(sl), RunsBefore(sl, r, t) PROVE RunsBefore(sl, r, s)
  BY <1>1, <1>5, <1>7, <1>8 DEF RunsBefore
<1>9. Before(t) \subseteq Before(s) /\ t \in Before(s) /\ t \notin Before(t)
  BY <1>7, <1>8
<1>10. Before(t) \in Befores /\ Before(t) # least /\ Before(t) \subseteq least
  BY <1>4, <1>9
<1>11. QED
  BY <1>3, <1>10

(* No step leaves an entry Downloading without a worker behind it: a claim *)
(* puts the worker there, and a settle leaves another state.               *)
LEMMA DownloadingStep ==
  ASSUME Inv, DownloadingIsHeld, [Next]_vars
  PROVE  DownloadingIsHeld'
<1> USE DEF Inv, DownloadingIsHeld
<1> DEFINE Kept == /\ UNCHANGED active
                   /\ \A r \in Slots : slots'[r].inUse /\ slots'[r].state = "Downloading"
                        => slots[r].inUse /\ slots[r].state = "Downloading"
<1>1. Kept => DownloadingIsHeld'
  BY DEF Held
<1>2. CASE UNCHANGED vars
  BY <1>1, <1>2 DEF vars
<1>3. ASSUME NEW prio \in Priority, NEW t \in Times, Queue(prio, t) PROVE Kept
  <2>1. PICK s \in FreeSlot :
          LET entered == [slots EXCEPT ![s] = NewEntry(prio, t)]
          IN  \/ slots' = entered
              \/ \E y \in PreemptForUser(entered, active, prio, HasIdleWorker) :
                   slots' = [entered EXCEPT ![y].state = "Preempted",
                                            ![y].pauseRequested = TRUE]
    BY <1>3 DEF Queue
  <2>2. NewEntry(prio, t) \in SlotType /\ NewEntry(prio, t).state = "Pending"
    BY SizeAssumption DEF NewEntry, SlotType, State
  <2> DEFINE entered == [slots EXCEPT ![s] = NewEntry(prio, t)]
  <2>3. /\ entered \in [Slots -> SlotType] /\ s \in Slots
        /\ \A r \in Slots : entered[r].state = "Downloading" => entered[r] = slots[r]
    BY <2>2 DEF TypeOK, FreeSlot
  <2>4. \A y \in Slots :
          slots' = [entered EXCEPT ![y].state = "Preempted", ![y].pauseRequested = TRUE]
          => \A r \in Slots : slots'[r].state = "Downloading" => slots'[r] = entered[r]
    BY <2>3 DEF SlotType
  <2>5. \A y \in PreemptForUser(entered, active, prio, HasIdleWorker) : y \in Slots
    BY <2>3, PreemptFact DEF TypeOK
  <2>6. UNCHANGED active
    BY <1>3 DEF Queue
  <2>7. QED
    BY <2>1, <2>3, <2>4, <2>5, <2>6
<1>4. ASSUME NEW s \in Slots, Cancel(s) \/ Pause(s) \/ Resume(s) \/ Remove(s) PROVE Kept
  BY <1>4 DEF Cancel, Pause, Resume, Remove, TypeOK, SlotType, CancelState
<1>5. CASE BeginDrop \/ Dropping \/ Dropped
  BY <1>1, <1>5 DEF BeginDrop, Dropping, CancelActive, JoinWorkers, Dropped, vars
<1>6. ASSUME NEW w \in Workers, Worker(w) PROVE DownloadingIsHeld'
  <2>1. CASE HookReturns(w) \/ HookPanics(w) \/ CheckRunning(w)
    <3>1. active[w] = NoSlot
      BY <2>1 DEF HookReturns, HookPanics, CheckRunning, Goto, SlotKeptUnderWorker, InProcess
    <3>2. QED
      BY <1>1, <2>1, <3>1 DEF HookReturns, HookPanics, CheckRunning, TypeOK
  <2>2. CASE Retire(w)
    BY <1>1, <2>2, SweptFact DEF Retire
  <2>3. CASE Claim(w)
    <3> DEFINE swept == AutoResumePreempted(slots)
    <3>1. PICK s \in NextPending(swept) :
            /\ pc[w] = "scan"
            /\ slots' = [swept EXCEPT ![s].state = "Downloading"]
            /\ active' = [active EXCEPT ![w] = s]
      BY <2>3 DEF Claim
    <3>2. active[w] = NoSlot /\ s \in Slots
      BY <3>1, SweptFact, NextPendingFact DEF SlotKeptUnderWorker, InProcess
    <3>3. \A r \in Slots \ {s} : slots'[r] = swept[r] /\ (Held(r) => Held(r)')
      <4>1. NoSlot \notin Slots
        BY SizeAssumption DEF Slots, NoSlot
      <4>2. QED
        BY <3>1, <3>2, <4>1, SweptFact DEF Held, TypeOK
    <3>4. Held(s)'
      BY <3>1 DEF Held, TypeOK
    <3>5. QED
      BY <3>3, <3>4, SweptFact
  <2>4. CASE Finish(w)
    <3> DEFINE s == active[w]
    <3>1. /\ s \in Slots /\ result[w] \in Outcome \ {"None"}
          /\ slots' = [slots EXCEPT ![s] = Settled(slots[s], result[w])]
          /\ active' = [active EXCEPT ![w] = NoSlot]
      BY <2>4 DEF Finish, Goto, SlotKeptUnderWorker, SettlesWithResult, InProcess, TypeOK
    <3>2. Settled(slots[s], result[w]).state # "Downloading"
      BY <3>1 DEF Settled, SlotType, TypeOK, Outcome
    <3>3. \A r \in Slots \ {s} : slots'[r] = slots[r] /\ (Held(r) => Held(r)')
      <4>1. NoSlot \notin Slots
        BY SizeAssumption DEF Slots, NoSlot
      <4>2. QED
        BY <3>1, <4>1 DEF Held, TypeOK
    <3>4. slots'[s].state # "Downloading"
      BY <3>1, <3>2 DEF TypeOK
    <3>5. QED
      BY <3>3, <3>4
  <2>5. CASE \/ StopBeforeStart(w) \/ ServeCached(w) \/ OpenFails(w) \/ Open(w)
             \/ StopOpened(w) \/ KeepOpened(w) \/ PublishHandle(w)
             \/ StartReading(w) \/ FinishWithoutReading(w)
             \/ ReadChunk(w) \/ EndOfBody(w) \/ ObserveStop(w)
    <3>1. UNCHANGED active
      BY <2>5 DEF StopBeforeStart, ServeCached, OpenFails, Open, StopOpened, KeepOpened,
         PublishHandle, StartReading, FinishWithoutReading, ReadChunk, EndOfBody,
         ObserveStop, SettleAs
    <3>2. UNCHANGED slots \/ \E n \in 0..MaxBytes :
                               slots' = [slots EXCEPT ![active[w]].bytes = n]
      <4>1. MaxBytes \in 0..MaxBytes
        BY SizeAssumption
      <4>2. QED
        BY <2>5, <4>1 DEF StopBeforeStart, ServeCached, OpenFails, Open, StopOpened, KeepOpened,
           PublishHandle, StartReading, FinishWithoutReading, ReadChunk, EndOfBody, ObserveStop
    <3>3. QED
      BY <1>1, <3>1, <3>2 DEF TypeOK, SlotType
  <2>6. QED
    BY <1>6, <2>1, <2>2, <2>3, <2>4, <2>5 DEF Worker, ThreadStep, AnswerStep
<1>7. QED
  BY <1>1, <1>2, <1>3, <1>4, <1>5, <1>6 DEF Next, Caller

(* The worker whose retiring sweep leaves an entry Preempted leaves it to  *)
(* another: user work holds the sweep back, none of it is pending, so some *)
(* of it is in flight, with a worker behind it.                            *)
LEMMA SweptStep ==
  ASSUME Inv, DownloadingIsHeld, PreemptedIsSwept, [Next]_vars
  PROVE  PreemptedIsSwept'
<1> USE DEF Inv
<1> DEFINE Busy  == {"top", "scan"} \cup InProcess
           Kept  == /\ \A w \in Workers : pc[w] \in Busy => pc'[w] \in Busy
                    /\ \A r \in Slots : slots'[r].inUse /\ slots'[r].state = "Preempted"
                         => slots[r].inUse /\ slots[r].state = "Preempted"
<1>1. Kept /\ UNCHANGED phase => PreemptedIsSwept'
  BY DEF PreemptedIsSwept, Running
<1>2. CASE UNCHANGED vars
  BY <1>1, <1>2 DEF vars
<1>3. ASSUME NEW prio \in Priority, NEW t \in Times, Queue(prio, t) PROVE PreemptedIsSwept'
  <2>1. PICK s \in FreeSlot :
          LET entered == [slots EXCEPT ![s] = NewEntry(prio, t)]
          IN  /\ \/ slots' = entered
                 \/ \E y \in PreemptForUser(entered, active, prio, HasIdleWorker) :
                      slots' = [entered EXCEPT ![y].state = "Preempted",
                                               ![y].pauseRequested = TRUE]
              /\ pc' \in ArmWorkers(slots', pc)
    BY <1>3 DEF Queue
  <2>2. NewEntry(prio, t) \in SlotType /\ NewEntry(prio, t).state = "Pending"
    BY SizeAssumption DEF NewEntry, SlotType, State
  <2> DEFINE entered == [slots EXCEPT ![s] = NewEntry(prio, t)]
  <2>3. /\ entered \in [Slots -> SlotType] /\ s \in Slots
        /\ \A r \in Slots : entered[r].state = "Preempted" => entered[r] = slots[r]
    BY <2>2 DEF TypeOK, FreeSlot
  <2>4. \A w \in Workers : pc[w] \in Busy => pc'[w] \in Busy
    BY <2>1, ArmWorkersFact DEF TypeOK, InProcess
  <2>5. UNCHANGED phase
    BY <1>3 DEF Queue
  <2>6. CASE slots' = entered
    BY <1>1, <2>3, <2>4, <2>5, <2>6
  <2>7. ASSUME NEW y \in PreemptForUser(entered, active, prio, HasIdleWorker)
        PROVE  \E w \in Workers : pc'[w] \in Busy
    <3> HIDE DEF entered
    <3>1. PICK w \in Workers : active[w] = y /\ y \in Slots
      BY <2>3, <2>7, PreemptFact DEF TypeOK
    <3>2. y # NoSlot
      BY <3>1, SizeAssumption DEF Slots, NoSlot
    <3>3. QED
      BY <2>4, <3>1, <3>2 DEF SlotKeptUnderWorker
  <2>8. QED
    BY <2>1, <2>6, <2>7 DEF PreemptedIsSwept
<1>4. ASSUME NEW s \in Slots, Cancel(s) \/ Pause(s) \/ Remove(s) PROVE PreemptedIsSwept'
  BY <1>1, <1>4 DEF Cancel, Pause, Remove, TypeOK, SlotType, CancelState
<1>5. ASSUME NEW s \in Slots, Resume(s) PROVE PreemptedIsSwept'
  <2>1. \A w \in Workers : pc[w] \in Busy => pc'[w] \in Busy
    BY <1>5, ArmWorkersFact DEF Resume, TypeOK, InProcess
  <2>2. QED
    BY <1>1, <1>5, <2>1 DEF Resume, TypeOK, SlotType
<1>6. CASE BeginDrop \/ Dropping \/ Dropped
  BY <1>6 DEF BeginDrop, Dropping, CancelActive, JoinWorkers, Dropped, vars,
     PreemptedIsSwept, Running
<1>7. ASSUME NEW w \in Workers, Worker(w) PROVE PreemptedIsSwept'
  <2>1. CASE HookReturns(w) \/ HookPanics(w)
    <3>1. /\ pc[w] = "hook" /\ UNCHANGED <<slots, phase>>
          /\ \E to \in Pc : pc' = [pc EXCEPT ![w] = to]
      BY <2>1 DEF HookReturns, HookPanics, Goto, Pc
    <3>2. QED
      BY <1>1, <3>1 DEF TypeOK, InProcess
  <2>2. CASE CheckRunning(w)
    BY <2>2 DEF CheckRunning, Goto, TypeOK, PreemptedIsSwept, Running
  <2>3. CASE Retire(w)
    <3> SUFFICES ASSUME NEW r \in Slots, Running',
                        slots'[r].inUse, slots'[r].state = "Preempted"
                 PROVE  \E v \in Workers : pc'[v] \in Busy
      BY DEF PreemptedIsSwept
    <3>1. /\ slots' = AutoResumePreempted(slots) /\ NextPending(slots') = {}
          /\ pc[w] = "scan" /\ pc' = [pc EXCEPT ![w] = "off"]
      BY <2>3 DEF Retire, Goto
    <3>2. UserWorkOutstanding(slots)
      <4>1. CASE ~UserWorkOutstanding(slots)
        <5>1. slots'[r] = IF slots[r].inUse /\ slots[r].state = "Preempted"
                          THEN [slots[r] EXCEPT !.state = "Pending"] ELSE slots[r]
          BY <3>1, <4>1 DEF AutoResumePreempted, TypeOK
        <5>2. slots[r] \in SlotType
          BY DEF TypeOK
        <5>3. QED
          BY <5>1, <5>2 DEF SlotType
      <4>2. QED
        BY <4>1
    <3>3. slots' = slots /\ PendingIn(slots) = {}
      BY <3>1, <3>2, SweptFact, NextPendingExists DEF AutoResumePreempted
    <3>4. PICK s \in Slots : slots[s].inUse /\ slots[s].state = "Downloading"
      BY <3>2, <3>3 DEF UserWorkOutstanding, PendingIn, TypeOK
    <3>5. PICK v \in Workers : active[v] = s
      BY <3>4 DEF DownloadingIsHeld, Held
    <3>6. s # NoSlot
      BY <3>4, SizeAssumption DEF Slots, NoSlot
    <3>7. pc[v] \in InProcess
      BY <3>5, <3>6 DEF SlotKeptUnderWorker
    <3>8. v # w
      BY <3>1, <3>7 DEF InProcess
    <3>9. QED
      BY <3>1, <3>7, <3>8 DEF TypeOK
  <2>4. CASE Claim(w)
    <3> DEFINE at == [pc EXCEPT ![w] = "claimed"]
    <3>1. pc' \in ArmWorkers(slots', at)
      BY <2>4 DEF Claim
    <3>2. at \in [Workers -> Pc] /\ at[w] = "claimed"
      BY DEF TypeOK, Pc, InProcess
    <3> HIDE DEF at
    <3>3. pc'[w] = "claimed"
      BY <3>1, <3>2, ArmWorkersFact
    <3>4. QED
      BY <3>3 DEF PreemptedIsSwept, InProcess
  <2>5. CASE Finish(w)
    BY <2>5 DEF Finish, Goto, TypeOK, PreemptedIsSwept
  <2>6. CASE StopBeforeStart(w) \/ ServeCached(w) \/ OpenFails(w) \/ StopOpened(w)
             \/ FinishWithoutReading(w) \/ EndOfBody(w) \/ ObserveStop(w)
    <3>1. pc'[w] = "settle"
      BY <2>6 DEF StopBeforeStart, ServeCached, OpenFails, StopOpened, FinishWithoutReading,
         EndOfBody, ObserveStop, SettleAs, Goto, TypeOK
    <3>2. QED
      BY <3>1 DEF PreemptedIsSwept, InProcess
  <2>7. CASE Open(w) \/ KeepOpened(w) \/ PublishHandle(w) \/ StartReading(w) \/ ReadChunk(w)
    <3>1. pc'[w] \in {"opened", "publish", "carry", "reading"}
      BY <2>7 DEF Open, KeepOpened, PublishHandle, StartReading, ReadChunk, Goto, TypeOK
    <3>2. QED
      BY <3>1 DEF PreemptedIsSwept, InProcess
  <2>8. QED
    BY <1>7, <2>1, <2>2, <2>3, <2>4, <2>5, <2>6, <2>7 DEF Worker, ThreadStep, AnswerStep
<1>8. QED
  BY <1>2, <1>3, <1>4, <1>5, <1>6, <1>7 DEF Next, Caller

(***************************************************************************)
(* Stops.                                                                  *)
(***************************************************************************)

(* Why a preemption reaches its transfer: while a worker holds the entry   *)
(* the request flag stays up for it to find, and a transfer that reads has *)
(* found it.                                                               *)
PreemptionKept ==
  \A w \in Workers : active[w] # NoSlot /\ slots[active[w]].state = "Preempted" =>
    /\ slots[active[w]].pauseRequested
    /\ pc[w] = "reading" => ~Unstopped(w)

(* A transfer that reads has kept the stop flags it had, or has just       *)
(* looked at every request there is.                                       *)
LEMMA ReadingFact ==
  ASSUME Inv, [Next]_vars, NEW w \in Workers, pc'[w] = "reading"
  PROVE  \/ /\ pc[w] = "reading"
            /\ download[w].cancel => download'[w].cancel
            /\ download[w].pause => download'[w].pause
         \/ StartReading(w)
<1> USE DEF Inv
<1> DEFINE Stays == /\ pc[w] = "reading"
                    /\ download[w].cancel => download'[w].cancel
                    /\ download[w].pause => download'[w].pause
<1>1. \A flag \in {"cancel", "pause"}, s \in Slots :
        /\ download[w].cancel => Requesting(flag, s)[w].cancel
        /\ download[w].pause => Requesting(flag, s)[w].pause
  BY DEF Requesting, TypeOK, Flags
<1>2. CASE UNCHANGED vars
  BY <1>2 DEF vars
<1>3. ASSUME NEW prio \in Priority, NEW t \in Times, Queue(prio, t) PROVE Stays
  <2>1. PICK s \in FreeSlot :
          LET entered == [slots EXCEPT ![s] = NewEntry(prio, t)]
          IN  /\ \/ UNCHANGED download
                 \/ \E y \in PreemptForUser(entered, active, prio, HasIdleWorker) :
                      download' = Requesting("pause", y)
              /\ pc' \in ArmWorkers(slots', pc)
    BY <1>3 DEF Queue
  <2>2. pc[w] = "reading"
    BY <2>1, ArmWorkersFact DEF TypeOK
  <2> DEFINE entered == [slots EXCEPT ![s] = NewEntry(prio, t)]
  <2>3. entered \in [Slots -> SlotType]
    <3>1. NewEntry(prio, t) \in SlotType
      BY SizeAssumption DEF NewEntry, SlotType, State
    <3>2. QED
      BY <3>1 DEF TypeOK
  <2>4. \A y \in PreemptForUser(entered, active, prio, HasIdleWorker) : y \in Slots
    BY <2>3, PreemptFact DEF TypeOK
  <2> HIDE DEF entered
  <2>5. UNCHANGED download \/ \E y \in Slots : download' = Requesting("pause", y)
    BY <2>1, <2>4 DEF entered
  <2>6. QED
    BY <1>1, <2>2, <2>5
<1>4. ASSUME NEW s \in Slots, Cancel(s) \/ Pause(s) \/ Remove(s) PROVE Stays
  BY <1>1, <1>4 DEF Cancel, Pause, Remove
<1>5. ASSUME NEW s \in Slots, Resume(s) PROVE Stays
  <2>1. pc' \in ArmWorkers(slots', pc) /\ UNCHANGED download
    BY <1>5 DEF Resume
  <2>2. QED
    BY <2>1, ArmWorkersFact DEF TypeOK
<1>6. CASE BeginDrop \/ Dropping \/ Dropped
  BY <1>6 DEF BeginDrop, Dropping, CancelActive, JoinWorkers, Dropped, vars, TypeOK, Flags
<1>7. ASSUME NEW v \in Workers, Claim(v) PROVE Stays
  <2>1. pc[v] = "scan" /\ UNCHANGED download
    BY <1>7 DEF Claim
  <2>2. pc' \in ArmWorkers(slots', [pc EXCEPT ![v] = "claimed"])
    BY <1>7 DEF Claim
  <2>3. [pc EXCEPT ![v] = "claimed"] \in [Workers -> Pc]
    BY DEF TypeOK, Pc, InProcess
  <2>4. [pc EXCEPT ![v] = "claimed"][w] = "reading"
    BY <2>2, <2>3, ArmWorkersFact
  <2>5. QED
    BY <2>1, <2>4 DEF TypeOK
<1>8. ASSUME NEW v \in Workers,
             \/ HookReturns(v) \/ HookPanics(v) \/ CheckRunning(v) \/ Retire(v)
             \/ StopBeforeStart(v) \/ ServeCached(v) \/ OpenFails(v) \/ Open(v)
             \/ StopOpened(v) \/ KeepOpened(v) \/ PublishHandle(v)
             \/ FinishWithoutReading(v) \/ EndOfBody(v) \/ ObserveStop(v) \/ Finish(v)
      PROVE  Stays
  <2>1. \E to \in Pc \ {"reading"} : pc' = [pc EXCEPT ![v] = to]
    BY <1>8 DEF HookReturns, HookPanics, CheckRunning, Retire, StopBeforeStart, ServeCached,
       OpenFails, Open, StopOpened, KeepOpened, PublishHandle, FinishWithoutReading,
       EndOfBody, ObserveStop, Finish, SettleAs, Goto, Pc, InProcess
  <2>2. w # v /\ pc[w] = "reading"
    BY <2>1 DEF TypeOK
  <2>3. UNCHANGED download \/ \E flags : download' = [download EXCEPT ![v] = flags]
    BY <1>8 DEF HookReturns, HookPanics, CheckRunning, Retire, StopBeforeStart, ServeCached,
       OpenFails, Open, StopOpened, KeepOpened, PublishHandle, FinishWithoutReading,
       EndOfBody, ObserveStop, Finish
  <2>4. QED
    BY <2>2, <2>3 DEF TypeOK
<1>9. ASSUME NEW v \in Workers, StartReading(v) PROVE Stays \/ StartReading(w)
  BY <1>9 DEF StartReading, Goto, TypeOK
<1>10. ASSUME NEW v \in Workers, ReadChunk(v) PROVE Stays
  BY <1>10 DEF ReadChunk
<1>11. QED
  BY <1>2, <1>3, <1>4, <1>5, <1>6, <1>7, <1>8, <1>9, <1>10
     DEF Next, Caller, Worker, ThreadStep, AnswerStep

(* Only drop's own sweep and join move the queue past it, and the sweep    *)
(* asks every transfer whose handle is there.                              *)
LEMMA SweepingFact ==
  ASSUME [Next]_vars, phase' \in {"joining", "dropped"}
  PROVE  phase \in {"joining", "dropped"} \/ CancelActive
<1>1. CASE UNCHANGED phase
  BY <1>1
<1>2. CASE BeginDrop \/ Dropping
  BY <1>2 DEF BeginDrop, Dropping, CancelActive, JoinWorkers
<1>3. ASSUME NEW v \in Workers, Worker(v) PROVE UNCHANGED phase
  BY <1>3 DEF Worker, ThreadStep, AnswerStep, HookReturns, HookPanics, CheckRunning, Retire,
     Claim, StopBeforeStart, ServeCached, OpenFails, Open, StopOpened, KeepOpened,
     PublishHandle, StartReading, FinishWithoutReading, ReadChunk, EndOfBody, ObserveStop,
     Finish, SettleAs
<1>4. QED
  BY <1>1, <1>2, <1>3 DEF Next, Caller, Dropped, vars, Queue, Cancel, Pause, Resume, Remove

(* Whatever reads on after drop's sweep was reading when it came, or has   *)
(* looked at running since.                                                *)
LEMMA DropStep ==
  ASSUME Inv, DropReachesTransfers, [Next]_vars
  PROVE  DropReachesTransfers'
<1> SUFFICES ASSUME phase' \in {"joining", "dropped"}, NEW w \in Workers, pc'[w] = "reading"
             PROVE  download'[w].cancel
  BY DEF DropReachesTransfers
<1>1. CASE CancelActive
  BY <1>1 DEF CancelActive, HandleVisible, Inv, TypeOK, Flags
<1>2. CASE phase \in {"joining", "dropped"} /\ StartReading(w)
  BY <1>2 DEF StartReading, Carried, Running, Inv, TypeOK
<1>3. CASE phase \in {"joining", "dropped"} /\ ~StartReading(w)
  BY <1>3, ReadingFact DEF DropReachesTransfers
<1>4. QED
  BY <1>1, <1>2, <1>3, SweepingFact

(* A step leaves an entry Preempted under a worker that has yet to settle  *)
(* it, with its request up, or a user entry has just preempted it; then    *)
(* the worker, if it is the only one, has been asked if it reads.          *)
LEMMA PreemptedFact ==
  ASSUME Inv, OneWorkerPerEntry, [Next]_vars, NEW w \in Workers,
         active'[w] # NoSlot, slots'[active'[w]].state = "Preempted"
  PROVE  /\ active[w] = active'[w]
         /\ \/ /\ slots[active[w]].state = "Preempted"
               /\ slots[active[w]].pauseRequested => slots'[active[w]].pauseRequested
            \/ /\ slots'[active[w]].pauseRequested
               /\ pc'[w] = "reading" => download'[w].pause
<1> USE DEF Inv
<1> DEFINE Same == /\ active[w] = active'[w]
                   /\ slots[active[w]].state = "Preempted"
                   /\ slots[active[w]].pauseRequested => slots'[active[w]].pauseRequested
           Asked == /\ active[w] = active'[w]
                    /\ slots'[active[w]].pauseRequested
                    /\ pc'[w] = "reading" => download'[w].pause
<1>1. NoSlot \notin Slots /\ \A v \in Workers : active[v] # NoSlot => active[v] \in Slots
  BY SizeAssumption DEF Slots, NoSlot, TypeOK
<1> DEFINE swept == AutoResumePreempted(slots)
<1>0. /\ swept \in [Slots -> SlotType]
      /\ \A s \in Slots : swept[s].state = "Preempted" => swept[s] = slots[s]
  <2>1. swept \in [Slots -> SlotType]
    BY SweptFact
  <2>2. ASSUME NEW s \in Slots PROVE swept[s].state = "Preempted" => swept[s] = slots[s]
    <3>1. slots \in [Slots -> SlotType] /\ slots[s] \in SlotType
      BY DEF TypeOK
    <3>2. [slots[s] EXCEPT !.state = "Pending"].state = "Pending"
      BY <3>1 DEF SlotType
    <3>3. QED
      BY <3>1, <3>2, SweepFact
  <2>3. QED
    BY <2>1, <2>2
<1> HIDE DEF swept
<1>2. CASE UNCHANGED <<slots, active>>
  BY <1>2
<1>3. ASSUME NEW prio \in Priority, NEW t \in Times, Queue(prio, t)
      PROVE  Same \/ Asked
  <2>1. PICK s \in FreeSlot :
          LET entered == [slots EXCEPT ![s] = NewEntry(prio, t)]
          IN  /\ \/ slots' = entered
                 \/ \E y \in PreemptForUser(entered, active, prio, HasIdleWorker) :
                      /\ slots' = [entered EXCEPT ![y].state = "Preempted",
                                                  ![y].pauseRequested = TRUE]
                      /\ download' = Requesting("pause", y)
              /\ pc' \in ArmWorkers(slots', pc)
    BY <1>3 DEF Queue
  <2>2. active' = active
    BY <1>3 DEF Queue
  <2> DEFINE a == active[w]
             entered == [slots EXCEPT ![s] = NewEntry(prio, t)]
  <2>3. a \in Slots /\ slots[a].inUse /\ s \in Slots /\ a # s
    BY <1>1, <2>2 DEF SlotKeptUnderWorker, FreeSlot
  <2>4. entered \in [Slots -> SlotType] /\ entered[a] = slots[a]
    <3>1. NewEntry(prio, t) \in SlotType
      BY SizeAssumption DEF NewEntry, SlotType, State
    <3>2. QED
      BY <2>3, <3>1 DEF TypeOK
  <2>5. CASE slots' = entered
    BY <2>2, <2>4, <2>5
  <2>6. ASSUME NEW y \in PreemptForUser(entered, active, prio, HasIdleWorker),
               slots' = [entered EXCEPT ![y].state = "Preempted", ![y].pauseRequested = TRUE],
               download' = Requesting("pause", y)
        PROVE  Same \/ Asked
    <3>1. y \in Slots
      BY <2>4, PreemptFact DEF TypeOK
    <3>2. CASE y # a
      <4>1. slots'[a] = entered[a]
        BY <2>3, <2>4, <2>6, <3>1, <3>2
      <4>2. QED
        BY <2>2, <2>4, <4>1
    <3>3. CASE y = a
      <4>1. slots'[a].pauseRequested
        BY <2>3, <2>4, <2>6, <3>3 DEF SlotType
      <4>2. ASSUME pc'[w] = "reading" PROVE download'[w].pause
        <5>1. pc[w] = "reading"
          BY <2>1, <4>2, ArmWorkersFact DEF TypeOK
        <5>2. w \in DownloadFor(a)
          <6>1. \A v \in Workers : v < w => active[v] # active[w]
            BY <2>3, <1>1, SizeAssumption DEF OneWorkerPerEntry, Workers
          <6>2. QED
            BY <5>1, <6>1 DEF DownloadFor, Holds, HandleVisible
        <5>3. QED
          BY <2>6, <3>3, <5>2 DEF Requesting, TypeOK, Flags
      <4>3. QED
        BY <2>2, <4>1, <4>2
    <3>4. QED
      BY <3>2, <3>3
  <2>7. QED
    BY <2>1, <2>5, <2>6
<1>4. ASSUME NEW s \in Slots, Cancel(s) \/ Pause(s) \/ Resume(s) \/ Remove(s) PROVE Same
  <2>1. active' = active /\ active[w] \in Slots
    BY <1>1, <1>4 DEF Cancel, Pause, Resume, Remove
  <2>2. QED
    BY <1>4, <2>1 DEF Cancel, Pause, Resume, Remove, TypeOK, SlotType, CancelState
<1>5. ASSUME NEW v \in Workers, Retire(v) PROVE Same
  <2>1. active' = active /\ active[w] \in Slots /\ slots' = swept
    BY <1>1, <1>5 DEF Retire, swept
  <2>2. QED
    BY <1>0, <2>1
<1>6. ASSUME NEW v \in Workers, Claim(v) PROVE Same
  <2>1. PICK s \in NextPending(swept) :
          /\ slots' = [swept EXCEPT ![s].state = "Downloading"]
          /\ active' = [active EXCEPT ![v] = s]
    BY <1>6 DEF Claim, swept
  <2>2. s \in Slots
    BY <1>0, <2>1, NextPendingFact
  <2>3. active'[w] \in Slots
    BY <1>1, <2>1, <2>2 DEF TypeOK
  <2>4. active'[w] # s /\ slots'[active'[w]] = swept[active'[w]]
    <3>1. swept[s] \in SlotType
      BY <1>0, <2>2
    <3>2. slots'[s].state = "Downloading"
      BY <1>0, <2>1, <2>2, <3>1 DEF SlotType
    <3>3. QED
      BY <1>0, <2>1, <2>2, <2>3, <3>2
  <2>5. active'[w] = active[w]
    BY <2>1, <2>4 DEF TypeOK
  <2>6. QED
    BY <1>0, <2>3, <2>4, <2>5
<1>7. ASSUME NEW v \in Workers, Finish(v) PROVE Same
  <2>1. /\ active[v] # NoSlot
        /\ slots' = [slots EXCEPT ![active[v]] = Settled(@, result[v])]
        /\ active' = [active EXCEPT ![v] = NoSlot]
    BY <1>7 DEF Finish, Goto, SlotKeptUnderWorker, InProcess
  <2>2. w # v /\ active'[w] = active[w]
    BY <2>1 DEF TypeOK
  <2>3. active[w] # active[v]
    BY <2>1, <2>2 DEF OneWorkerPerEntry
  <2>4. slots'[active[w]] = slots[active[w]]
    BY <1>1, <2>1, <2>2, <2>3 DEF TypeOK
  <2>5. QED
    BY <2>2, <2>4
<1>8. ASSUME NEW v \in Workers,
             \/ HookReturns(v) \/ HookPanics(v) \/ CheckRunning(v)
             \/ StopBeforeStart(v) \/ ServeCached(v) \/ OpenFails(v) \/ Open(v)
             \/ StopOpened(v) \/ KeepOpened(v) \/ PublishHandle(v) \/ StartReading(v)
             \/ FinishWithoutReading(v) \/ ReadChunk(v) \/ EndOfBody(v) \/ ObserveStop(v)
      PROVE  Same
  <2>1. active'[w] = active[w]
    BY <1>8 DEF HookReturns, HookPanics, CheckRunning, StopBeforeStart, ServeCached,
       OpenFails, Open, StopOpened, KeepOpened, PublishHandle, StartReading,
       FinishWithoutReading, ReadChunk, EndOfBody, ObserveStop, SettleAs, TypeOK
  <2>2. UNCHANGED slots \/ \E n : slots' = [slots EXCEPT ![active[v]].bytes = n]
    BY <1>8 DEF HookReturns, HookPanics, CheckRunning, StopBeforeStart, ServeCached,
       OpenFails, Open, StopOpened, KeepOpened, PublishHandle, StartReading,
       FinishWithoutReading, ReadChunk, EndOfBody, ObserveStop
  <2>3. active[w] \in Slots
    BY <1>1, <2>1
  <2>4. QED
    BY <2>1, <2>2, <2>3 DEF TypeOK, SlotType
<1>9. CASE BeginDrop \/ Dropping \/ Dropped
  BY <1>2, <1>9 DEF BeginDrop, Dropping, CancelActive, JoinWorkers, Dropped, vars
<1>10. QED
  BY <1>2, <1>3, <1>4, <1>5, <1>6, <1>7, <1>8, <1>9
     DEF Next, Caller, Worker, ThreadStep, AnswerStep, vars

(* As long as no two workers share an entry, what a preemption asks for is *)
(* there until the worker that holds the entry settles it.                 *)
LEMMA PreemptionStep ==
  ASSUME Inv, OneWorkerPerEntry, PreemptionKept, [Next]_vars
  PROVE  PreemptionKept'
<1> SUFFICES ASSUME NEW w \in Workers, active'[w] # NoSlot,
                    slots'[active'[w]].state = "Preempted"
             PROVE  /\ slots'[active'[w]].pauseRequested
                    /\ pc'[w] = "reading" => ~Unstopped(w)'
  BY DEF PreemptionKept
<1> DEFINE a == active[w]
<1>1. /\ a = active'[w]
      /\ \/ /\ slots[a].state = "Preempted"
            /\ slots[a].pauseRequested => slots'[a].pauseRequested
         \/ /\ slots'[a].pauseRequested
            /\ pc'[w] = "reading" => download'[w].pause
  BY PreemptedFact
<1>2. CASE /\ slots'[a].pauseRequested
           /\ pc'[w] = "reading" => download'[w].pause
  BY <1>1, <1>2 DEF Unstopped
<1>3. CASE slots[a].state = "Preempted" /\ (slots[a].pauseRequested => slots'[a].pauseRequested)
  <2>1. slots[a].pauseRequested /\ (pc[w] = "reading" => ~Unstopped(w))
    BY <1>1, <1>3 DEF PreemptionKept
  <2>2. ASSUME pc'[w] = "reading" PROVE download'[w].cancel \/ download'[w].pause
    <3>1. CASE StartReading(w)
      BY <2>1, <3>1 DEF StartReading, Carried, Inv, TypeOK
    <3>2. CASE ~StartReading(w)
      BY <2>1, <2>2, <3>2, ReadingFact DEF Unstopped
    <3>3. QED
      BY <3>1, <3>2
  <2>3. QED
    BY <1>1, <1>3, <2>1, <2>2 DEF Unstopped
<1>4. QED
  BY <1>1, <1>2, <1>3

(***************************************************************************)
(* The lifecycle of an entry.                                              *)
(***************************************************************************)

(* The sweep and the callers leave an entry that a worker holds to the     *)
(* worker: it is in flight, and no second worker holds it.                 *)
HeldApart ==
  /\ OneWorkerPerEntry
  /\ \A w \in Workers :
       active[w] # NoSlot => slots[active[w]].state \in {"Downloading", "Preempted"}

(* What the caller asked for, or the queue by preempting. *)
PauseWanted(s) == promise[s].pause \/ slots[s].state = "Preempted"

(* Every request flag, stop flag and outcome has a caller, a preemption or *)
(* a drop behind it.                                                       *)
SlotAsked(s) ==
  /\ slots[s].cancelRequested => promise[s].cancel
  /\ slots[s].pauseRequested => Held(s) /\ PauseWanted(s)

WorkerAsked(w) ==
  /\ active[w] = NoSlot => download[w] = NoFlags /\ result[w] = "None"
  /\ active[w] # NoSlot =>
       /\ download[w].cancel \/ result[w] = "Cancelled"
            => promise[active[w]].cancel \/ ~Running
       /\ download[w].pause \/ result[w] = "Paused" => PauseWanted(active[w])

RequestsTrue == (\A s \in Slots : SlotAsked(s)) /\ (\A w \in Workers : WorkerAsked(w))

(* What the lifecycle sees of a slot. *)
View(s) == IF slots[s].inUse
           THEN Lifecycle!Entry(slots[s].state, promise[s].cancel, promise[s].pause)
           ELSE Lifecycle!Entry("Free", FALSE, FALSE)

Moves(s) == View(s)' = View(s) \/ Lifecycle!Legal(View(s), View(s)')

(* A slot whose state and promises stay does not move.                     *)
LEMMA StaysFact ==
  ASSUME NEW s \in Slots, slots'[s].inUse = slots[s].inUse,
         slots'[s].state = slots[s].state, promise'[s] = promise[s]
  PROVE  Moves(s)
  BY DEF Moves, View

(* An entry that stays in use moves as its state and its promises do.      *)
LEMMA MovesFact ==
  ASSUME NEW s \in Slots, slots[s].inUse, slots'[s].inUse,
         Lifecycle!Legal(Lifecycle!Entry(slots[s].state, promise[s].cancel, promise[s].pause),
                         Lifecycle!Entry(slots'[s].state, promise'[s].cancel, promise'[s].pause))
  PROVE  Moves(s)
  BY DEF Moves, View

(* The moves of the lifecycle that the queue makes.                        *)
LEMMA LegalMoves ==
  ASSUME NEW a, NEW c \in BOOLEAN, NEW p \in BOOLEAN
  PROVE  /\ Lifecycle!Legal(Lifecycle!Entry("Free", FALSE, FALSE), Lifecycle!Entry("Pending", FALSE, FALSE))
         /\ a \in Lifecycle!Waiting \cup Lifecycle!Terminal
              => Lifecycle!Legal(Lifecycle!Entry(a, c, p), Lifecycle!Entry("Free", FALSE, FALSE))
         /\ a \in Lifecycle!Waiting
              => Lifecycle!Legal(Lifecycle!Entry(a, c, p), Lifecycle!Entry("Cancelled", TRUE, p))
         /\ a \in {"Downloading", "Preempted"}
              => Lifecycle!Legal(Lifecycle!Entry(a, c, p), Lifecycle!Entry(a, TRUE, p))
         /\ a = "Downloading" => Lifecycle!Legal(Lifecycle!Entry(a, c, p), Lifecycle!Entry(a, c, TRUE))
         /\ a = "Paused" => Lifecycle!Legal(Lifecycle!Entry(a, c, p), Lifecycle!Entry("Pending", c, FALSE))
         /\ a \in {"Pending", "Preempted"} /\ ~c
              => Lifecycle!Legal(Lifecycle!Entry(a, c, p), Lifecycle!Entry("Downloading", c, p))
         /\ a = "Downloading" => Lifecycle!Legal(Lifecycle!Entry(a, c, p), Lifecycle!Entry("Preempted", c, p))
         /\ a = "Preempted" /\ ~c => Lifecycle!Legal(Lifecycle!Entry(a, c, p), Lifecycle!Entry("Pending", c, p))
         /\ \A b : /\ a \in {"Downloading", "Preempted"}
                  /\ \/ b \in {"Complete", "Failed"} /\ ~c
                     \/ b = "Cancelled" /\ (c \/ ~Running)
                  => Lifecycle!Legal(Lifecycle!Entry(a, c, p), Lifecycle!Entry(b, c, FALSE))
         /\ a = "Downloading" /\ p => Lifecycle!Legal(Lifecycle!Entry(a, c, p), Lifecycle!Entry("Paused", c, p))
<1> USE DEF Lifecycle!Entry, Lifecycle!Legal, Lifecycle!Waiting, Lifecycle!Terminal
<1>1. Lifecycle!Queued(Lifecycle!Entry("Free", FALSE, FALSE), Lifecycle!Entry("Pending", FALSE, FALSE))
  BY DEF Lifecycle!Queued, Lifecycle!Free, Lifecycle!Fresh
<1>2. a \in Lifecycle!Waiting \cup Lifecycle!Terminal
        => Lifecycle!Removed(Lifecycle!Entry(a, c, p), Lifecycle!Entry("Free", FALSE, FALSE))
  BY DEF Lifecycle!Removed, Lifecycle!Free
<1>3. /\ a \in Lifecycle!Waiting
           => Lifecycle!Cancelled(Lifecycle!Entry(a, c, p), Lifecycle!Entry("Cancelled", TRUE, p))
      /\ a \in {"Downloading", "Preempted"}
           => Lifecycle!Cancelled(Lifecycle!Entry(a, c, p), Lifecycle!Entry(a, TRUE, p))
  BY DEF Lifecycle!Cancelled
<1>4. a = "Downloading" => Lifecycle!PauseAsked(Lifecycle!Entry(a, c, p), Lifecycle!Entry(a, c, TRUE))
  BY DEF Lifecycle!PauseAsked
<1>5. a = "Paused" => Lifecycle!Resumed(Lifecycle!Entry(a, c, p), Lifecycle!Entry("Pending", c, FALSE))
  BY DEF Lifecycle!Resumed
<1>6. a \in {"Pending", "Preempted"} /\ ~c
        => Lifecycle!Started(Lifecycle!Entry(a, c, p), Lifecycle!Entry("Downloading", c, p))
  BY DEF Lifecycle!Started
<1>7. a = "Downloading" => Lifecycle!Yields(Lifecycle!Entry(a, c, p), Lifecycle!Entry("Preempted", c, p))
  BY DEF Lifecycle!Yields
<1>8. a = "Preempted" /\ ~c => Lifecycle!AutoResumed(Lifecycle!Entry(a, c, p), Lifecycle!Entry("Pending", c, p))
  BY DEF Lifecycle!AutoResumed
<1>9. \A b : /\ a \in {"Downloading", "Preempted"}
             /\ \/ b \in {"Complete", "Failed"} /\ ~c
                \/ b = "Cancelled" /\ (c \/ ~Running)
             => Lifecycle!Ends(Lifecycle!Entry(a, c, p), Lifecycle!Entry(b, c, FALSE))
  BY DEF Lifecycle!Ends
<1>10. a = "Downloading" /\ p => Lifecycle!ComesToRest(Lifecycle!Entry(a, c, p), Lifecycle!Entry("Paused", c, p))
  BY DEF Lifecycle!ComesToRest
<1>11. QED
  BY <1>1, <1>2, <1>3, <1>4, <1>5, <1>6, <1>7, <1>8, <1>9, <1>10

(* A step keeps what a worker was asked if it takes back no promise, and   *)
(* sets a flag or an outcome only for a request there is.                  *)
LEMMA AskedFact ==
  ASSUME NEW w \in Workers, WorkerAsked(w), active'[w] = active[w],
         active[w] = NoSlot => download'[w] = download[w] /\ result'[w] = result[w],
         active[w] # NoSlot =>
           /\ promise[active[w]].cancel => promise'[active[w]].cancel
           /\ PauseWanted(active[w]) =>
                promise'[active[w]].pause \/ slots'[active[w]].state = "Preempted"
           /\ download'[w].cancel =>
                download[w].cancel \/ promise'[active[w]].cancel \/ ~Running'
           /\ download'[w].pause =>
                \/ download[w].pause
                \/ promise'[active[w]].pause \/ slots'[active[w]].state = "Preempted"
           /\ result'[w] = "Cancelled" =>
                result[w] = "Cancelled" \/ download'[w].cancel \/ promise'[active[w]].cancel
           /\ result'[w] = "Paused" => result[w] = "Paused" \/ download'[w].pause,
         ~Running => ~Running'
  PROVE  WorkerAsked(w)'
<1>1. CASE active[w] = NoSlot
  BY <1>1 DEF WorkerAsked
<1>2. CASE active[w] # NoSlot
  BY <1>2 DEF WorkerAsked, PauseWanted
<1>3. QED
  BY <1>1, <1>2

(* A request reaches only workers that hold the slot, and one flag.        *)
LEMMA RequestFact ==
  ASSUME download \in [Workers -> Flags], NEW s \in Slots, NEW w \in Workers
  PROVE  /\ active[w] # s => /\ Requesting("cancel", s)[w] = download[w]
                            /\ Requesting("pause", s)[w] = download[w]
         /\ Requesting("cancel", s)[w].pause = download[w].pause
         /\ Requesting("pause", s)[w].cancel = download[w].cancel
  BY DEF Requesting, DownloadFor, Holds, Flags

(* queue: a new entry, and at most one that yields to it.                  *)
LEMMA QueueMoves ==
  ASSUME Inv, HeldApart, RequestsTrue,
         NEW prio \in Priority, NEW t \in Times, Queue(prio, t)
  PROVE  RequestsTrue' /\ \A r \in Slots : Moves(r)
<1> USE DEF Inv
<1> PICK s \in FreeSlot :
      LET entered == [slots EXCEPT ![s] = NewEntry(prio, t)]
          yielded == PreemptForUser(entered, active, prio, HasIdleWorker)
      IN  /\ \/ slots' = entered /\ UNCHANGED download
             \/ \E y \in yielded :
                  /\ slots' = [entered EXCEPT ![y].state = "Preempted",
                                              ![y].pauseRequested = TRUE]
                  /\ download' = Requesting("pause", y)
          /\ promise' = [promise EXCEPT ![s] = NoPromise]
  BY DEF Queue
<1> DEFINE entered == [slots EXCEPT ![s] = NewEntry(prio, t)]
<1>1. s \in Slots /\ ~slots[s].inUse /\ ~Held(s)
  BY DEF FreeSlot, SlotKeptUnderWorker, Held, NoSlot, Slots
<1>2. /\ entered \in [Slots -> SlotType] /\ entered[s] = NewEntry(prio, t)
      /\ \A r \in Slots \ {s} : entered[r] = slots[r]
  <2>1. NewEntry(prio, t) \in SlotType
    BY SizeAssumption DEF NewEntry, SlotType, State
  <2>2. QED
    BY <1>1, <2>1 DEF TypeOK
<1>3. UNCHANGED <<active, result, phase>>
  BY DEF Queue
<1>4. /\ promise'[s] = NoPromise
      /\ \A r \in Slots \ {s} : promise'[r] = promise[r]
  BY <1>1 DEF TypeOK
<1> DEFINE Yields(r) == /\ slots[r].inUse /\ slots[r].state = "Downloading" /\ Held(r)
                       /\ slots'[r].inUse /\ slots'[r].state = "Preempted"
                       /\ slots'[r].cancelRequested = slots[r].cancelRequested
<1>5. /\ slots'[s] = NewEntry(prio, t)
      /\ \A r \in Slots \ {s} : slots'[r] = slots[r] \/ Yields(r)
      /\ \A w \in Workers :
           \/ download'[w] = download[w]
           \/ /\ active[w] \in Slots \ {s} /\ slots'[active[w]].state = "Preempted"
              /\ download'[w].cancel = download[w].cancel
  <2>1. CASE slots' = entered /\ UNCHANGED download
    BY <1>2, <2>1
  <2>2. ASSUME NEW y \in PreemptForUser(entered, active, prio, HasIdleWorker),
               slots' = [entered EXCEPT ![y].state = "Preempted",
                                        ![y].pauseRequested = TRUE],
               download' = Requesting("pause", y)
        PROVE  <1>5
    <3> HIDE DEF entered
    <3>1. /\ y \in Slots /\ entered[y].inUse /\ entered[y].state = "Downloading"
          /\ Held(y)
      <4>1. active \in [Workers -> Slots \cup {NoSlot}]
        BY DEF TypeOK
      <4>2. QED
        BY <4>1, <1>2, PreemptFact DEF Held
    <3>2. y # s
      BY <1>2, <3>1 DEF NewEntry
    <3>3. \A r \in Slots : r # y => slots'[r] = entered[r]
      BY <1>2, <2>2, <3>1
    <3>4. /\ slots'[y].state = "Preempted" /\ slots'[y].inUse = entered[y].inUse
          /\ slots'[y].cancelRequested = entered[y].cancelRequested
      <4>1. slots' = [entered EXCEPT ![y] =
                        [entered[y] EXCEPT !.state = "Preempted", !.pauseRequested = TRUE]]
        BY <2>2, <3>1, <1>2
      <4>2. \A e \in SlotType :
              /\ [e EXCEPT !.state = "Preempted", !.pauseRequested = TRUE].state = "Preempted"
              /\ [e EXCEPT !.state = "Preempted", !.pauseRequested = TRUE].inUse = e.inUse
              /\ [e EXCEPT !.state = "Preempted", !.pauseRequested = TRUE].cancelRequested
                   = e.cancelRequested
        BY DEF SlotType
      <4>3. entered[y] \in SlotType
        BY <3>1, <1>2
      <4>4. slots'[y] = [entered[y] EXCEPT !.state = "Preempted", !.pauseRequested = TRUE]
        BY <3>1, <4>1, <1>2
      <4>5. QED
        BY <4>2, <4>3, <4>4
    <3>5. entered[y] = slots[y]
      BY <1>2, <3>1, <3>2
    <3>6. \A r \in Slots \ {s} : slots'[r] = slots[r] \/ Yields(r)
      BY <1>2, <3>1, <3>3, <3>4, <3>5
    <3>7. ASSUME NEW w \in Workers
          PROVE  \/ download'[w] = download[w]
                 \/ /\ active[w] \in Slots \ {s} /\ slots'[active[w]].state = "Preempted"
                    /\ download'[w].cancel = download[w].cancel
      <4>1. active[w] # y => download'[w] = download[w]
        BY <2>2, <3>1, RequestFact DEF TypeOK
      <4>2. download'[w].cancel = download[w].cancel
        BY <2>2, <3>1, RequestFact DEF TypeOK
      <4>3. QED
        BY <3>1, <3>2, <3>4, <4>1, <4>2
    <3>8. QED
      BY <1>1, <1>2, <3>2, <3>3, <3>6, <3>7
  <2>3. QED
    BY <2>1, <2>2
<1> HIDE DEF entered
<1>6. ASSUME NEW r \in Slots
      PROVE  /\ Moves(r)
             /\ SlotAsked(r)'
  <2>1. CASE r = s
    <3>1. /\ slots'[r].inUse /\ slots'[r].state = "Pending"
          /\ ~slots'[r].cancelRequested /\ ~slots'[r].pauseRequested
          /\ ~promise'[r].cancel /\ ~promise'[r].pause
      BY <1>4, <1>5, <2>1 DEF NewEntry, NoPromise
    <3>2. View(r) = Lifecycle!Entry("Free", FALSE, FALSE)
      BY <1>1, <2>1 DEF View
    <3>3. View(r)' = Lifecycle!Entry("Pending", FALSE, FALSE)
      <4>1. promise'[r].cancel = FALSE /\ promise'[r].pause = FALSE
        BY <1>4, <2>1 DEF NoPromise
      <4>2. QED
        BY <3>1, <4>1 DEF View
    <3>4. Moves(r)
      <4>1. Lifecycle!Legal(Lifecycle!Entry("Free", FALSE, FALSE), Lifecycle!Entry("Pending", FALSE, FALSE))
        BY LegalMoves
      <4>2. QED
        BY <3>2, <3>3, <4>1 DEF Moves
    <3>5. SlotAsked(r)'
      BY <3>1 DEF SlotAsked
    <3>6. QED
      BY <3>4, <3>5
  <2>2. CASE r # s /\ slots'[r] = slots[r]
    <3>1. promise'[r] = promise[r] /\ (Held(r)' <=> Held(r))
      BY <1>3, <1>4, <2>2 DEF Held
    <3>2. QED
      BY <2>2, <3>1, StaysFact DEF RequestsTrue, SlotAsked, PauseWanted
  <2>3. CASE r # s /\ Yields(r)
    <3>1. promise'[r] = promise[r] /\ (Held(r)' <=> Held(r))
      BY <1>3, <1>4, <2>3 DEF Held
    <3>2. Moves(r)
      <4>1. /\ View(r) = Lifecycle!Entry("Downloading", promise[r].cancel, promise[r].pause)
            /\ View(r)' = Lifecycle!Entry("Preempted", promise[r].cancel, promise[r].pause)
        BY <2>3, <3>1 DEF View
      <4>2. promise[r].cancel \in BOOLEAN /\ promise[r].pause \in BOOLEAN
        BY DEF TypeOK, Flags
      <4>3. Lifecycle!Legal(Lifecycle!Entry("Downloading", promise[r].cancel, promise[r].pause),
                            Lifecycle!Entry("Preempted", promise[r].cancel, promise[r].pause))
        BY <4>2, LegalMoves
      <4>4. QED
        BY <4>1, <4>3 DEF Moves
    <3>3. QED
      BY <2>3, <3>1, <3>2 DEF RequestsTrue, SlotAsked, PauseWanted
  <2>4. QED
    BY <1>5, <2>1, <2>2, <2>3
<1>7. ASSUME NEW w \in Workers PROVE WorkerAsked(w)'
  <2>1. NoSlot \notin Slots /\ active[w] \in Slots \cup {NoSlot}
    BY SizeAssumption DEF Slots, NoSlot, TypeOK
  <2>2. active[w] # NoSlot => active[w] \in Slots \ {s}
    BY <1>1, <2>1 DEF Held
  <2>3. active[w] # NoSlot =>
          /\ promise'[active[w]] = promise[active[w]]
          /\ PauseWanted(active[w]) =>
               promise'[active[w]].pause \/ slots'[active[w]].state = "Preempted"
    BY <1>4, <1>5, <2>2 DEF PauseWanted
  <2>4. WorkerAsked(w) /\ active'[w] = active[w] /\ result'[w] = result[w]
    BY <1>3 DEF RequestsTrue
  <2>5. ~Running => ~Running'
    BY <1>3 DEF Running
  <2>6. QED
    BY <1>5, <2>1, <2>3, <2>4, <2>5, AskedFact
<1>8. QED
  BY <1>6, <1>7 DEF RequestsTrue

(* cancel: ends a waiting entry, and leaves one in flight to its settle.   *)
LEMMA CancelMoves ==
  ASSUME Inv, HeldApart, RequestsTrue, NEW s \in Slots, Cancel(s)
  PROVE  RequestsTrue' /\ \A r \in Slots : Moves(r)
<1> USE DEF Inv
<1> DEFINE state == CancelState(slots[s], Held(s))
<1>1. /\ promise' = [promise EXCEPT ![s].cancel = TRUE]
      /\ download' = Requesting("cancel", s)
      /\ UNCHANGED <<active, result, phase>>
      /\ CancelApplies(slots[s], Held(s))
  BY DEF Cancel
<1>2. /\ promise'[s].cancel = TRUE /\ promise'[s].pause = promise[s].pause
      /\ \A r \in Slots \ {s} : promise'[r] = promise[r]
      /\ promise[s].cancel \in BOOLEAN /\ promise[s].pause \in BOOLEAN
  BY <1>1 DEF TypeOK, Flags
<1>3. /\ slots'[s].state = state /\ slots'[s].inUse = slots[s].inUse
      /\ slots'[s].pauseRequested = slots[s].pauseRequested
      /\ \A r \in Slots \ {s} : slots'[r] = slots[r]
  <2>1. slots' = [slots EXCEPT ![s] = [slots[s] EXCEPT
                    !.state = state, !.cancelRequested = @ \/ Held(s)]]
    BY DEF Cancel, TypeOK
  <2> HIDE DEF state
  <2>2. slots[s] \in SlotType
    BY DEF TypeOK
  <2>3. QED
    BY <2>1, <2>2 DEF TypeOK, SlotType
<1>4. \A w \in Workers : /\ active[w] # s => download'[w] = download[w]
                         /\ download'[w].pause = download[w].pause
  BY <1>1, RequestFact DEF TypeOK
<1>5. Held(s) => slots[s].state \in {"Downloading", "Preempted"} /\ state = slots[s].state
  <2>1. Held(s) => slots[s].state \in {"Downloading", "Preempted"}
    BY SizeAssumption DEF Held, HeldApart, Slots, NoSlot
  <2>2. QED
    BY <2>1 DEF CancelState, CancelDefers
<1>6. ~Held(s) => slots[s].state \in Lifecycle!Waiting /\ state = "Cancelled"
  BY <1>1 DEF CancelApplies, CancelDefers, CancelState, Lifecycle!Waiting
<1> HIDE DEF state
<1>7. \A r \in Slots : Held(r)' <=> Held(r)
  BY <1>1 DEF Held
<1>8. Moves(s)
  <2>1. CASE ~slots[s].inUse
    BY <1>3, <2>1 DEF Moves, View
  <2>2. CASE slots[s].inUse
    <3>1. CASE Held(s)
      <4>1. Lifecycle!Legal(
              Lifecycle!Entry(slots[s].state, promise[s].cancel, promise[s].pause),
              Lifecycle!Entry(slots[s].state, TRUE, promise[s].pause))
        BY <1>2, <1>5, <3>1, LegalMoves
      <4>2. QED
        BY <1>2, <1>3, <1>5, <2>2, <3>1, <4>1, MovesFact
    <3>2. CASE ~Held(s)
      <4>1. Lifecycle!Legal(
              Lifecycle!Entry(slots[s].state, promise[s].cancel, promise[s].pause),
              Lifecycle!Entry("Cancelled", TRUE, promise[s].pause))
        BY <1>2, <1>6, <3>2, LegalMoves
      <4>2. QED
        BY <1>2, <1>3, <1>6, <2>2, <3>2, <4>1, MovesFact
    <3>3. QED
      BY <3>1, <3>2
  <2>3. QED
    BY <2>1, <2>2
<1>9. \A r \in Slots : r # s => Moves(r)
  BY <1>2, <1>3, StaysFact
<1>10. ASSUME NEW r \in Slots PROVE SlotAsked(r)'
  <2>1. CASE r = s
    BY <1>2, <1>3, <1>5, <1>7, <2>1 DEF RequestsTrue, SlotAsked, PauseWanted
  <2>2. CASE r # s
    BY <1>2, <1>3, <1>7, <2>2 DEF RequestsTrue, SlotAsked, PauseWanted
  <2>3. QED
    BY <2>1, <2>2
<1>11. ASSUME NEW w \in Workers PROVE WorkerAsked(w)'
  <2>1. NoSlot \notin Slots /\ active[w] \in Slots \cup {NoSlot}
    BY SizeAssumption DEF Slots, NoSlot, TypeOK
  <2>2. active[w] # s => download'[w] = download[w]
    BY <1>4
  <2>3. active[w] # NoSlot =>
          /\ promise[active[w]].cancel => promise'[active[w]].cancel
          /\ active[w] = s => promise'[active[w]].cancel
          /\ PauseWanted(active[w]) =>
               promise'[active[w]].pause \/ slots'[active[w]].state = "Preempted"
    <3>1. CASE active[w] = s
      <4>1. Held(s)
        BY <3>1 DEF Held
      <4>2. QED
        BY <1>2, <1>3, <1>5, <3>1, <4>1 DEF PauseWanted
    <3>2. CASE active[w] \in Slots \ {s}
      BY <1>2, <1>3, <3>2 DEF PauseWanted
    <3>3. QED
      BY <2>1, <3>1, <3>2
  <2>4. WorkerAsked(w) /\ active'[w] = active[w] /\ result'[w] = result[w]
    BY <1>1 DEF RequestsTrue
  <2>5. ~Running => ~Running'
    BY <1>1 DEF Running
  <2>6. QED
    BY <1>4, <2>1, <2>2, <2>3, <2>4, <2>5, AskedFact
<1>12. QED
  BY <1>8, <1>9, <1>10, <1>11 DEF RequestsTrue

(* pause: asks the worker of an entry in flight.                           *)
LEMMA PauseMoves ==
  ASSUME Inv, HeldApart, RequestsTrue, NEW s \in Slots, Pause(s)
  PROVE  RequestsTrue' /\ \A r \in Slots : Moves(r)
<1> USE DEF Inv
<1>1. /\ promise' = [promise EXCEPT ![s].pause = TRUE]
      /\ download' = Requesting("pause", s)
      /\ UNCHANGED <<active, result, phase>>
      /\ Held(s) /\ slots[s].state = "Downloading"
  BY DEF Pause, PauseApplies
<1>2. /\ promise'[s].pause = TRUE /\ promise'[s].cancel = promise[s].cancel
      /\ \A r \in Slots \ {s} : promise'[r] = promise[r]
      /\ promise[s].cancel \in BOOLEAN /\ promise[s].pause \in BOOLEAN
  BY <1>1 DEF TypeOK, Flags
<1>3. /\ slots'[s].state = slots[s].state /\ slots'[s].inUse = slots[s].inUse
      /\ slots'[s].cancelRequested = slots[s].cancelRequested
      /\ \A r \in Slots \ {s} : slots'[r] = slots[r]
  BY DEF Pause, TypeOK, SlotType
<1>4. \A w \in Workers : /\ active[w] # s => download'[w] = download[w]
                         /\ download'[w].cancel = download[w].cancel
  BY <1>1, RequestFact DEF TypeOK
<1>5. \A r \in Slots : /\ Held(r)' <=> Held(r)
                       /\ promise[r].cancel => promise'[r].cancel
                       /\ PauseWanted(r) => PauseWanted(r)'
  BY <1>1, <1>2, <1>3 DEF Held, PauseWanted
<1>6. PauseWanted(s)'
  BY <1>2 DEF PauseWanted
<1>7. ASSUME NEW r \in Slots PROVE Moves(r)
  <2>1. CASE r # s
    BY <1>2, <1>3, <2>1, StaysFact
  <2>2. CASE r = s /\ slots[s].inUse
    <3>1. Lifecycle!Legal(
            Lifecycle!Entry(slots[s].state, promise[s].cancel, promise[s].pause),
            Lifecycle!Entry(slots[s].state, promise[s].cancel, TRUE))
      BY <1>1, <1>2, LegalMoves
    <3>2. QED
      BY <1>2, <1>3, <2>2, <3>1, MovesFact
  <2>3. CASE r = s /\ ~slots[s].inUse
    BY <1>3, <2>3 DEF Moves, View
  <2>4. QED
    BY <2>1, <2>2, <2>3
<1>8. ASSUME NEW r \in Slots PROVE SlotAsked(r)'
  BY <1>1, <1>3, <1>5, <1>6 DEF RequestsTrue, SlotAsked
<1>9. ASSUME NEW w \in Workers PROVE WorkerAsked(w)'
  <2>1. NoSlot \notin Slots /\ active[w] \in Slots \cup {NoSlot}
    BY SizeAssumption DEF Slots, NoSlot, TypeOK
  <2>2. active[w] # s => download'[w] = download[w]
    BY <1>4
  <2>3. active[w] # NoSlot =>
          /\ promise[active[w]].cancel => promise'[active[w]].cancel
          /\ active[w] = s => promise'[active[w]].pause
          /\ PauseWanted(active[w]) =>
               promise'[active[w]].pause \/ slots'[active[w]].state = "Preempted"
    <3>1. CASE active[w] = s
      BY <1>2, <3>1
    <3>2. CASE active[w] \in Slots \ {s}
      BY <1>2, <1>3, <3>2 DEF PauseWanted
    <3>3. QED
      BY <2>1, <3>1, <3>2
  <2>4. WorkerAsked(w) /\ active'[w] = active[w] /\ result'[w] = result[w]
    BY <1>1 DEF RequestsTrue
  <2>5. ~Running => ~Running'
    BY <1>1 DEF Running
  <2>6. QED
    BY <1>4, <2>1, <2>2, <2>3, <2>4, <2>5, AskedFact
<1>10. QED
  BY <1>7, <1>8, <1>9 DEF RequestsTrue

(* A step that leaves the workers alone, and what is promised and asked of *)
(* the entries they hold, leaves every request with its reason.            *)
LEMMA RestFact ==
  ASSUME Inv, RequestsTrue, UNCHANGED <<active, result, download, phase>>,
         \A r \in Slots :
           /\ slots'[r].cancelRequested = slots[r].cancelRequested
           /\ slots'[r].pauseRequested = slots[r].pauseRequested
           /\ promise'[r].cancel = promise[r].cancel
           /\ Held(r) => slots'[r].state = slots[r].state /\ promise'[r] = promise[r]
  PROVE  RequestsTrue'
<1>1. \A r \in Slots : Held(r)' <=> Held(r)
  BY DEF Held
<1>2. ASSUME NEW r \in Slots PROVE SlotAsked(r)'
  BY <1>1 DEF RequestsTrue, SlotAsked, PauseWanted
<1>3. ASSUME NEW w \in Workers PROVE WorkerAsked(w)'
  <2>1. NoSlot \notin Slots /\ active[w] \in Slots \cup {NoSlot}
    BY SizeAssumption DEF Slots, NoSlot, Inv, TypeOK
  <2>2. active[w] # NoSlot =>
          /\ promise'[active[w]] = promise[active[w]]
          /\ PauseWanted(active[w]) =>
               promise'[active[w]].pause \/ slots'[active[w]].state = "Preempted"
    BY <2>1 DEF PauseWanted, Held
  <2>3. WorkerAsked(w) /\ active'[w] = active[w] /\ result'[w] = result[w]
        /\ download'[w] = download[w]
    BY DEF RequestsTrue
  <2>4. ~Running => ~Running'
    BY DEF Running
  <2>5. QED
    BY <2>1, <2>2, <2>3, <2>4, AskedFact
<1>4. QED
  BY <1>2, <1>3 DEF RequestsTrue

(* resume: an entry at rest is nobody's, and goes back in line.            *)
LEMMA ResumeMoves ==
  ASSUME Inv, HeldApart, RequestsTrue, NEW s \in Slots, Resume(s)
  PROVE  RequestsTrue' /\ \A r \in Slots : Moves(r)
<1> USE DEF Inv
<1>1. /\ promise' = [promise EXCEPT ![s].pause = FALSE]
      /\ UNCHANGED <<active, result, download, phase>>
      /\ slots[s].state = "Paused"
  BY DEF Resume, ResumeApplies
<1>2. /\ promise'[s].pause = FALSE /\ promise'[s].cancel = promise[s].cancel
      /\ \A r \in Slots \ {s} : promise'[r] = promise[r]
      /\ promise[s].cancel \in BOOLEAN /\ promise[s].pause \in BOOLEAN
  BY <1>1 DEF TypeOK, Flags
<1>3. /\ slots'[s].state = "Pending" /\ slots'[s].inUse = slots[s].inUse
      /\ slots'[s].cancelRequested = slots[s].cancelRequested
      /\ slots'[s].pauseRequested = slots[s].pauseRequested
      /\ \A r \in Slots \ {s} : slots'[r] = slots[r]
  BY DEF Resume, TypeOK, SlotType
<1>4. ~Held(s)
  BY <1>1, SizeAssumption DEF Held, HeldApart, Slots, NoSlot
<1>5. Moves(s)
  <2>1. Lifecycle!Legal(
          Lifecycle!Entry(slots[s].state, promise[s].cancel, promise[s].pause),
          Lifecycle!Entry("Pending", promise[s].cancel, FALSE))
    BY <1>1, <1>2, LegalMoves
  <2>2. CASE slots[s].inUse
    BY <1>2, <1>3, <2>1, <2>2, MovesFact
  <2>3. CASE ~slots[s].inUse
    BY <1>3, <2>3 DEF Moves, View
  <2>4. QED
    BY <2>2, <2>3
<1>6. \A r \in Slots : r # s => Moves(r)
  BY <1>2, <1>3, StaysFact
<1>7. RequestsTrue'
  BY <1>1, <1>2, <1>3, <1>4, RestFact
<1>8. QED
  BY <1>5, <1>6, <1>7

(* remove: frees an entry that rests or has ended.                         *)
LEMMA RemoveMoves ==
  ASSUME Inv, HeldApart, RequestsTrue, NEW s \in Slots, Remove(s)
  PROVE  RequestsTrue' /\ \A r \in Slots : Moves(r)
<1> USE DEF Inv
<1>1. /\ UNCHANGED <<active, pc, result, download, phase, submitted, promise>>
      /\ slots[s].inUse /\ slots[s].state # "Downloading"
  BY DEF Remove, RemoveApplies
<1>2. /\ slots'[s].inUse = FALSE /\ slots'[s].state = slots[s].state
      /\ slots'[s].cancelRequested = slots[s].cancelRequested
      /\ slots'[s].pauseRequested = slots[s].pauseRequested
      /\ \A r \in Slots \ {s} : slots'[r] = slots[r]
  BY DEF Remove, TypeOK, SlotType
<1>3. Moves(s)
  <2>1. slots[s].state \in Lifecycle!Waiting \cup Lifecycle!Terminal
    BY <1>1 DEF TypeOK, SlotType, State, Lifecycle!Waiting, Lifecycle!Terminal
  <2>2. promise[s].cancel \in BOOLEAN /\ promise[s].pause \in BOOLEAN
    BY DEF TypeOK, Flags
  <2>3. Lifecycle!Legal(
          Lifecycle!Entry(slots[s].state, promise[s].cancel, promise[s].pause),
          Lifecycle!Entry("Free", FALSE, FALSE))
    BY <2>1, <2>2, LegalMoves
  <2>4. QED
    BY <1>1, <1>2, <2>3 DEF Moves, View
<1>4. \A r \in Slots : r # s => Moves(r)
  BY <1>1, <1>2, StaysFact
<1>5. RequestsTrue'
  BY <1>1, <1>2, RestFact
<1>6. QED
  BY <1>3, <1>4, <1>5

(* The sweep leaves the requests, and moves only preempted entries.        *)
LEMMA SweptKeeps ==
  ASSUME Inv, NEW s \in Slots
  PROVE  LET swept == AutoResumePreempted(slots)[s]
         IN  /\ swept.inUse = slots[s].inUse
             /\ swept.cancelRequested = slots[s].cancelRequested
             /\ swept.pauseRequested = slots[s].pauseRequested
             /\ swept.state = slots[s].state
                \/ (slots[s].state = "Preempted" /\ swept.state = "Pending")
<1>1. slots \in [Slots -> SlotType] /\ slots[s] \in SlotType
  BY DEF Inv, TypeOK
<1>2. \A e \in SlotType : [e EXCEPT !.state = "Pending"].pauseRequested = e.pauseRequested
  BY DEF SlotType
<1>3. AutoResumePreempted(slots)[s].pauseRequested = slots[s].pauseRequested
  BY <1>1, <1>2, SweepFact
<1>4. QED
  BY <1>3, SweptFact

(* An entry nobody holds and the sweep moves was never asked to stop.      *)
LEMMA SweptMoves ==
  ASSUME Inv, NEW s \in Slots, promise' = promise,
         slots'[s] = AutoResumePreempted(slots)[s],
         slots'[s].state = slots[s].state \/ ~Held(s)
  PROVE  Moves(s)
<1>1. CASE slots'[s].state = slots[s].state
  <2>1. slots'[s].inUse = slots[s].inUse
    BY SweptKeeps
  <2>2. QED
    BY <1>1, <2>1, StaysFact
<1>2. CASE ~Held(s) /\ slots'[s].state # slots[s].state
  <2>1. /\ slots[s].state = "Preempted" /\ slots'[s].state = "Pending"
        /\ slots'[s].inUse = slots[s].inUse
    BY <1>2, SweptKeeps
  <2>2. ~promise[s].cancel /\ promise[s].cancel \in BOOLEAN /\ promise[s].pause \in BOOLEAN
    BY <1>2, <2>1 DEF Inv, CancelKept, TypeOK, Flags
  <2>3. Lifecycle!Legal(
          Lifecycle!Entry("Preempted", promise[s].cancel, promise[s].pause),
          Lifecycle!Entry("Pending", promise[s].cancel, promise[s].pause))
    BY <2>2, LegalMoves
  <2>4. CASE slots[s].inUse
    BY <2>1, <2>3, <2>4, MovesFact
  <2>5. CASE ~slots[s].inUse
    BY <2>1, <2>5 DEF Moves, View
  <2>6. QED
    BY <2>4, <2>5
<1>3. QED
  BY <1>1, <1>2

(* The sweep of a retiring worker, when it resumes none that is held.      *)
LEMMA RetireMoves ==
  ASSUME Inv, HeldApart', RequestsTrue, NEW w \in Workers, Retire(w)
  PROVE  RequestsTrue' /\ \A r \in Slots : Moves(r)
<1>1. /\ slots' = AutoResumePreempted(slots)
      /\ UNCHANGED <<active, result, download, phase, promise>>
  BY DEF Retire
<1>2. \A r \in Slots : Held(r) => slots'[r].state = slots[r].state
  <2>1. \A r \in Slots : Held(r) => slots'[r].state \in {"Downloading", "Preempted"}
    BY <1>1, SizeAssumption DEF Held, HeldApart, Slots, NoSlot
  <2>2. QED
    BY <1>1, <2>1, SweptKeeps
<1>3. \A r \in Slots : Moves(r)
  BY <1>1, <1>2, SweptMoves
<1>4. RequestsTrue'
  BY <1>1, <1>2, SweptKeeps, RestFact
<1>5. QED
  BY <1>3, <1>4

(* The sweep of a worker that goes on to claim, when it resumes none that  *)
(* is held and claims none that is held.                                   *)
LEMMA ClaimMoves ==
  ASSUME Inv, HeldApart', RequestsTrue, NEW w \in Workers, Claim(w)
  PROVE  RequestsTrue' /\ \A r \in Slots : Moves(r)
<1> USE DEF Inv
<1> DEFINE swept == AutoResumePreempted(slots)
<1> PICK s \in NextPending(swept) :
      /\ pc[w] = "scan"
      /\ slots' = [swept EXCEPT ![s].state = "Downloading"]
      /\ active' = [active EXCEPT ![w] = s]
      /\ UNCHANGED <<result, download, phase, submitted, promise>>
  BY DEF Claim
<1>1. swept \in [Slots -> SlotType]
  BY SweptFact
<1>2. \A r \in Slots :
        /\ swept[r].inUse = slots[r].inUse
        /\ swept[r].cancelRequested = slots[r].cancelRequested
        /\ swept[r].pauseRequested = slots[r].pauseRequested
        /\ swept[r].state = slots[r].state
           \/ (slots[r].state = "Preempted" /\ swept[r].state = "Pending")
  BY SweptKeeps
<1>3. s \in Slots /\ swept[s].inUse /\ swept[s].state = "Pending"
  BY <1>1, NextPendingFact
<1>4. /\ \A r \in Slots : r # s => slots'[r] = swept[r]
      /\ slots'[s].state = "Downloading" /\ slots'[s].inUse
      /\ slots'[s].cancelRequested = swept[s].cancelRequested
      /\ slots'[s].pauseRequested = swept[s].pauseRequested
  <2> HIDE DEF swept
  <2>1. slots' = [swept EXCEPT ![s] = [swept[s] EXCEPT !.state = "Downloading"]]
    BY <1>1, <1>3
  <2>2. swept[s] \in SlotType
    BY <1>1, <1>3
  <2>3. QED
    BY <1>1, <1>3, <2>1, <2>2 DEF SlotType
<1>5. /\ active[w] = NoSlot /\ active'[w] = s
      /\ \A v \in Workers : v # w => active'[v] = active[v]
      /\ NoSlot \notin Slots
      /\ \A v \in Workers : active[v] \in Slots \cup {NoSlot}
  BY SizeAssumption DEF SlotKeptUnderWorker, InProcess, TypeOK, Slots, NoSlot
<1>6. ~Held(s)
  BY <1>3, <1>5 DEF Held, HeldApart, OneWorkerPerEntry
<1>7. \A r \in Slots : r # s => (Held(r)' <=> Held(r))
  BY <1>3, <1>5 DEF Held
<1>8. ASSUME NEW r \in Slots, r # s, Held(r) PROVE slots'[r].state = slots[r].state
  <2>1. slots'[r].state \in {"Downloading", "Preempted"}
    BY <1>5, <1>7, <1>8 DEF Held, HeldApart
  <2>2. QED
    BY <1>2, <1>4, <1>8, <2>1
<1>9. Moves(s)
  <2>1. slots[s].state \in {"Pending", "Preempted"} /\ slots[s].inUse
    BY <1>2, <1>3
  <2>2. ~promise[s].cancel /\ promise[s].cancel \in BOOLEAN /\ promise[s].pause \in BOOLEAN
    BY <1>3, <1>6, <2>1 DEF CancelKept, TypeOK, Flags
  <2>3. Lifecycle!Legal(
          Lifecycle!Entry(slots[s].state, promise[s].cancel, promise[s].pause),
          Lifecycle!Entry("Downloading", promise[s].cancel, promise[s].pause))
    BY <2>1, <2>2, LegalMoves
  <2>4. promise'[s] = promise[s]
    OBVIOUS
  <2>5. QED
    BY <1>3, <1>4, <2>1, <2>3, <2>4, MovesFact
<1>10. \A r \in Slots : r # s => Moves(r)
  BY <1>4, <1>8, SweptMoves
<1>11. ASSUME NEW r \in Slots PROVE SlotAsked(r)'
  <2>1. CASE r = s
    <3>1. SlotAsked(s)
      BY <1>3 DEF RequestsTrue
    <3>2. QED
      BY <1>2, <1>3, <1>4, <1>6, <2>1, <3>1 DEF SlotAsked
  <2>2. CASE r # s
    <3>1. SlotAsked(r)
      BY DEF RequestsTrue
    <3>2. QED
      BY <1>2, <1>4, <1>7, <1>8, <2>2, <3>1 DEF SlotAsked, PauseWanted
  <2>3. QED
    BY <2>1, <2>2
<1>12. ASSUME NEW v \in Workers PROVE WorkerAsked(v)'
  <2>1. WorkerAsked(v) /\ result'[v] = result[v] /\ download'[v] = download[v]
    BY DEF RequestsTrue
  <2>2. CASE v = w
    BY <1>3, <1>5, <2>1, <2>2 DEF WorkerAsked, NoFlags
  <2>3. CASE v # w
    <3>1. active'[v] = active[v] /\ active[v] # s
      BY <1>3, <1>5, <1>6, <2>3 DEF Held
    <3>2. active[v] # NoSlot /\ PauseWanted(active[v]) =>
            promise'[active[v]].pause \/ slots'[active[v]].state = "Preempted"
      BY <1>5, <1>8, <3>1 DEF Held, PauseWanted
    <3>3. (~Running => ~Running') /\ promise' = promise
      BY DEF Running
    <3>4. QED
      BY <2>1, <3>1, <3>2, <3>3, AskedFact
  <2>4. QED
    BY <2>2, <2>3
<1>13. QED
  BY <1>9, <1>10, <1>11, <1>12 DEF RequestsTrue

(* Steps inside a transfer, up to its settle: what the worker stops for    *)
(* and how the transfer ends was asked of it.                              *)
LEMMA TransferMoves ==
  ASSUME Inv, RequestsTrue, NEW w \in Workers,
         \/ StopBeforeStart(w) \/ ServeCached(w) \/ OpenFails(w) \/ Open(w)
         \/ StopOpened(w) \/ KeepOpened(w) \/ PublishHandle(w)
         \/ StartReading(w) \/ FinishWithoutReading(w)
         \/ ReadChunk(w) \/ EndOfBody(w) \/ ObserveStop(w)
  PROVE  RequestsTrue' /\ \A r \in Slots : Moves(r)
<1> USE DEF Inv
<1>1. UNCHANGED <<active, phase, promise>>
  BY DEF StopBeforeStart, ServeCached, OpenFails, Open, StopOpened, KeepOpened,
         PublishHandle, StartReading, FinishWithoutReading, ReadChunk, EndOfBody,
         ObserveStop, SettleAs
<1>2. pc[w] \in InProcess
  BY DEF StopBeforeStart, ServeCached, OpenFails, Open, StopOpened, KeepOpened,
         PublishHandle, StartReading, FinishWithoutReading, ReadChunk, EndOfBody,
         ObserveStop, SettleAs, Goto, InProcess
<1>3. active[w] # NoSlot /\ active[w] \in Slots /\ SlotAsked(active[w])
  BY <1>2 DEF SlotKeptUnderWorker, TypeOK, RequestsTrue
<1>4. \A r \in Slots : /\ slots'[r].inUse = slots[r].inUse
                       /\ slots'[r].state = slots[r].state
                       /\ slots'[r].cancelRequested = slots[r].cancelRequested
                       /\ slots'[r].pauseRequested = slots[r].pauseRequested
  <2>1. CASE UNCHANGED slots
    BY <2>1
  <2>2. ASSUME NEW n \in 0..MaxBytes, slots' = [slots EXCEPT ![active[w]].bytes = n]
        PROVE  <1>4
    BY <2>2 DEF TypeOK, SlotType
  <2>3. MaxBytes \in 0..MaxBytes
    BY SizeAssumption
  <2>4. QED
    BY <2>1, <2>2, <2>3 DEF StopBeforeStart, ServeCached, OpenFails, Open, StopOpened,
       KeepOpened, PublishHandle, StartReading, FinishWithoutReading, ReadChunk,
       EndOfBody, ObserveStop
<1>5. /\ \A v \in Workers : v # w => download'[v] = download[v]
      /\ download'[w].cancel =>
           download[w].cancel \/ slots[active[w]].cancelRequested \/ ~Running
      /\ download'[w].pause => download[w].pause \/ slots[active[w]].pauseRequested
  <2>1. CASE Open(w)
    BY <2>1 DEF Open, NoFlags, TypeOK, Flags
  <2>2. CASE download' = [download EXCEPT ![w] = Carried(w)]
    BY <2>2 DEF Carried, CancelRequested, TypeOK, Flags
  <2>3. CASE UNCHANGED download
    BY <2>3
  <2>4. QED
    BY <2>1, <2>2, <2>3 DEF StopBeforeStart, ServeCached, OpenFails, StopOpened,
       KeepOpened, PublishHandle, StartReading, FinishWithoutReading, ReadChunk,
       EndOfBody, ObserveStop
<1>6. /\ \A v \in Workers : v # w => result'[v] = result[v]
      /\ result'[w] = "Cancelled" =>
           \/ result[w] = "Cancelled"
           \/ slots[active[w]].cancelRequested \/ download'[w].cancel
      /\ result'[w] = "Paused" => result[w] = "Paused" \/ download'[w].pause
  <2>1. CASE StopBeforeStart(w) \/ StopOpened(w)
    BY <2>1 DEF StopBeforeStart, StopOpened, SettleAs, CancelRequested, TypeOK
  <2>2. CASE ServeCached(w) \/ OpenFails(w) \/ FinishWithoutReading(w) \/ EndOfBody(w)
    BY <2>2 DEF ServeCached, OpenFails, FinishWithoutReading, EndOfBody, SettleAs, TypeOK
  <2>3. CASE ObserveStop(w)
    BY <2>3 DEF ObserveStop, SettleAs, Unstopped, TypeOK
  <2>4. CASE UNCHANGED result
    BY <2>4
  <2>5. QED
    BY <2>1, <2>2, <2>3, <2>4 DEF Open, KeepOpened, PublishHandle, StartReading, ReadChunk
<1>7. \A r \in Slots : Held(r)' <=> Held(r)
  BY <1>1 DEF Held
<1>8. \A r \in Slots : PauseWanted(r) <=> PauseWanted(r)'
  BY <1>1, <1>4 DEF PauseWanted
<1>9. ASSUME NEW r \in Slots PROVE Moves(r) /\ SlotAsked(r)'
  <2>1. Moves(r)
    BY <1>1, <1>4, StaysFact
  <2>2. SlotAsked(r)
    BY DEF RequestsTrue
  <2>3. QED
    BY <1>1, <1>4, <1>7, <1>8, <2>1, <2>2 DEF SlotAsked
<1>10. ASSUME NEW v \in Workers PROVE WorkerAsked(v)'
  <2>1. WorkerAsked(v) /\ active'[v] = active[v] /\ promise' = promise
    BY <1>1 DEF RequestsTrue
  <2>2. ~Running => ~Running'
    BY <1>1 DEF Running
  <2>3. active[v] # NoSlot /\ PauseWanted(active[v]) =>
          promise'[active[v]].pause \/ slots'[active[v]].state = "Preempted"
    <3>1. active[v] \in Slots \cup {NoSlot}
      BY DEF TypeOK
    <3>2. QED
      BY <1>4, <2>1, <3>1 DEF PauseWanted
  <2>4. CASE v # w
    BY <1>5, <1>6, <2>1, <2>2, <2>3, <2>4, AskedFact
  <2>5. CASE v = w
    <3>1. slots[active[w]].cancelRequested => promise'[active[w]].cancel
      BY <1>3, <2>1 DEF SlotAsked
    <3>2. slots[active[w]].pauseRequested =>
            promise'[active[w]].pause \/ slots'[active[w]].state = "Preempted"
      BY <1>3, <2>3, <2>5 DEF SlotAsked
    <3>3. Running' <=> Running
      BY <1>1 DEF Running
    <3>4. /\ download'[w].cancel =>
               download[w].cancel \/ promise'[active[w]].cancel \/ ~Running'
          /\ download'[w].pause =>
               \/ download[w].pause
               \/ promise'[active[w]].pause \/ slots'[active[w]].state = "Preempted"
          /\ result'[w] = "Cancelled" =>
               result[w] = "Cancelled" \/ download'[w].cancel \/ promise'[active[w]].cancel
          /\ result'[w] = "Paused" => result[w] = "Paused" \/ download'[w].pause
      BY <1>5, <1>6, <3>1, <3>2, <3>3
    <3>5. QED
      BY <1>3, <2>1, <2>2, <2>3, <2>5, <3>4, AskedFact
  <2>6. QED
    BY <2>4, <2>5
<1>11. QED
  BY <1>9, <1>10 DEF RequestsTrue

(* The settle: a transfer ends as it was asked to, or as the peer and the  *)
(* validation had it end.                                                  *)
LEMMA FinishMoves ==
  ASSUME Inv, HeldApart, RequestsTrue, NEW w \in Workers, Finish(w)
  PROVE  RequestsTrue' /\ \A r \in Slots : Moves(r)
<1> USE DEF Inv
<1> PICK s \in Slots : s = active[w]
  BY DEF Finish, Goto, SlotKeptUnderWorker, InProcess, TypeOK
<1> DEFINE e == slots[s]
           settled == IF e.cancelRequested THEN "Cancelled" ELSE result[w]
           state == IF e.state = "Preempted" /\ settled = "Paused" THEN e.state ELSE settled
           pause == promise[s].pause /\ state \in {"Paused", "Preempted"}
<1>1. /\ pc[w] = "settle"
      /\ active' = [active EXCEPT ![w] = NoSlot]
      /\ result' = [result EXCEPT ![w] = "None"]
      /\ download' = [download EXCEPT ![w] = NoFlags]
      /\ phase' = phase
  BY DEF Finish, Goto
<1>2. /\ s \in Slots /\ s # NoSlot /\ NoSlot \notin Slots
      /\ result[w] \in {"Complete", "Failed", "Cancelled", "Paused"}
      /\ e.inUse /\ e.state \in {"Downloading", "Preempted"} /\ Held(s)
  BY <1>1, SizeAssumption DEF SlotKeptUnderWorker, SettlesWithResult, InProcess, TypeOK,
     Outcome, HeldApart, Held, Slots, NoSlot
<1>3. /\ slots'[s].state = state /\ slots'[s].inUse = e.inUse
      /\ slots'[s].cancelRequested = e.cancelRequested
      /\ slots'[s].pauseRequested = FALSE
      /\ \A r \in Slots \ {s} : slots'[r] = slots[r]
  <2>1. slots' = [slots EXCEPT ![s] = Settled(e, result[w])]
    BY <1>2 DEF Finish, TypeOK
  <2>2. e \in SlotType
    BY <1>2 DEF TypeOK
  <2>3. /\ Settled(e, result[w]).state = state /\ Settled(e, result[w]).inUse = e.inUse
        /\ Settled(e, result[w]).cancelRequested = e.cancelRequested
        /\ Settled(e, result[w]).pauseRequested = FALSE
    BY <2>2 DEF Settled, SlotType
  <2> HIDE DEF state, e
  <2>4. QED
    BY <1>2, <2>1, <2>3 DEF TypeOK
<1>4. /\ promise'[s].cancel = promise[s].cancel /\ promise'[s].pause = pause
      /\ \A r \in Slots \ {s} : promise'[r] = promise[r]
      /\ promise[s].cancel \in BOOLEAN /\ promise[s].pause \in BOOLEAN
  <2>1. promise' = [promise EXCEPT ![s].pause =
                      @ /\ slots'[s].state \in {"Paused", "Preempted"}]
    BY DEF Finish
  <2>2. promise[s] \in Flags /\ DOMAIN promise = Slots
    BY <1>2 DEF TypeOK
  <2> HIDE DEF state, e
  <2>3. QED
    BY <1>2, <1>3, <2>1, <2>2 DEF Flags
<1>5. /\ e.cancelRequested <=> promise[s].cancel
      /\ result[w] = "Cancelled" => promise[s].cancel \/ ~Running
      /\ result[w] = "Paused" /\ e.state = "Downloading" => promise[s].pause
  <2>1. SlotAsked(s) /\ WorkerAsked(w)
    BY <1>2 DEF RequestsTrue
  <2>2. e.cancelRequested => promise[s].cancel
    BY <2>1 DEF SlotAsked
  <2>3. promise[s].cancel => e.cancelRequested
    BY <1>2 DEF CancelKept
  <2>4. /\ result[w] = "Cancelled" => promise[s].cancel \/ ~Running
        /\ result[w] = "Paused" /\ e.state = "Downloading" => promise[s].pause
    BY <1>2, <2>1 DEF WorkerAsked, PauseWanted
  <2>5. QED
    BY <2>2, <2>3, <2>4
<1>6. Moves(s)
  <2>1. CASE state = e.state
    <3>1. e.state = "Preempted" /\ promise'[s].pause = promise[s].pause
      BY <1>2, <1>4, <2>1
    <3>2. /\ slots'[s].state = slots[s].state /\ slots'[s].inUse = slots[s].inUse
          /\ promise'[s].cancel = promise[s].cancel
      BY <1>3, <1>4, <2>1
    <3> HIDE DEF e, state, settled, pause
    <3>3. QED
      BY <3>1, <3>2 DEF Moves, View
  <2>2. CASE state = "Paused" /\ state # e.state
    <3>1. e.state = "Downloading" /\ result[w] = "Paused" /\ promise[s].pause
      BY <1>2, <1>5, <2>2
    <3>2. Lifecycle!Legal(
            Lifecycle!Entry(e.state, promise[s].cancel, promise[s].pause),
            Lifecycle!Entry("Paused", promise[s].cancel, promise[s].pause))
      BY <1>4, <3>1, LegalMoves
    <3>3. promise'[s].pause = promise[s].pause
      BY <1>4, <2>2, <3>1
    <3>4. QED
      BY <1>2, <1>3, <1>4, <2>2, <3>2, <3>3, MovesFact
  <2>3. CASE state # "Paused" /\ state # e.state
    <3>1. \/ state \in {"Complete", "Failed"} /\ ~promise[s].cancel
          \/ state = "Cancelled" /\ (promise[s].cancel \/ ~Running)
      BY <1>2, <1>5, <2>3
    <3>2. Lifecycle!Legal(
            Lifecycle!Entry(e.state, promise[s].cancel, promise[s].pause),
            Lifecycle!Entry(state, promise[s].cancel, FALSE))
      <4> HIDE DEF state, e
      <4>1. QED
        BY <1>2, <1>4, <3>1, LegalMoves
    <3>3. promise'[s].pause = FALSE
      BY <1>4, <2>3, <3>1
    <3>4. QED
      <4> HIDE DEF state
      <4>1. QED
        BY <1>2, <1>3, <1>4, <3>2, <3>3, MovesFact
  <2>4. QED
    BY <2>1, <2>2, <2>3
<1>7. \A r \in Slots : r # s => Moves(r)
  BY <1>3, <1>4, StaysFact
<1>8. \A r \in Slots : r # s => (Held(r)' <=> Held(r))
  BY <1>1, <1>2 DEF Held, TypeOK
<1> HIDE DEF state, pause, settled
<1>9. ASSUME NEW r \in Slots PROVE SlotAsked(r)'
  <2>1. SlotAsked(r)
    BY DEF RequestsTrue
  <2>2. CASE r = s
    BY <1>3, <1>4, <2>1, <2>2 DEF SlotAsked
  <2>3. CASE r # s
    BY <1>3, <1>4, <1>8, <2>1, <2>3 DEF SlotAsked, PauseWanted
  <2>4. QED
    BY <2>2, <2>3
<1>10. ASSUME NEW v \in Workers PROVE WorkerAsked(v)'
  <2>1. CASE v = w
    BY <1>1, <1>2, <2>1 DEF WorkerAsked, NoFlags, TypeOK
  <2>2. CASE v # w
    <3>1. /\ WorkerAsked(v) /\ active'[v] = active[v] /\ result'[v] = result[v]
          /\ download'[v] = download[v]
      BY <1>1, <2>2 DEF RequestsTrue, TypeOK
    <3>2. active[v] \in (Slots \ {s}) \cup {NoSlot}
      BY <1>2, <2>2 DEF HeldApart, OneWorkerPerEntry, TypeOK
    <3>3. active[v] # NoSlot =>
            /\ promise'[active[v]] = promise[active[v]]
            /\ slots'[active[v]] = slots[active[v]]
      BY <1>3, <1>4, <3>2
    <3>4. ~Running => ~Running'
      BY <1>1 DEF Running
    <3>5. QED
      BY <3>1, <3>3, <3>4, AskedFact DEF PauseWanted
  <2>3. QED
    BY <2>1, <2>2
<1>11. QED
  BY <1>6, <1>7, <1>9, <1>10 DEF RequestsTrue

(* Steps of the thread outside a transfer, and of drop before its sweep    *)
(* and after it: nothing is asked of anyone.                               *)
LEMMA IdleMoves ==
  ASSUME Inv, RequestsTrue, UNCHANGED <<slots, active, result, download, promise>>,
         ~Running => ~Running'
  PROVE  RequestsTrue' /\ \A r \in Slots : Moves(r)
<1>1. \A r \in Slots : Moves(r)
  BY StaysFact
<1>2. ASSUME NEW r \in Slots PROVE SlotAsked(r)'
  BY DEF RequestsTrue, SlotAsked, PauseWanted, Held
<1>3. ASSUME NEW w \in Workers PROVE WorkerAsked(w)'
  <2>1. WorkerAsked(w)
    BY DEF RequestsTrue
  <2>2. QED
    BY <2>1, AskedFact DEF PauseWanted
<1>4. QED
  BY <1>1, <1>2, <1>3 DEF RequestsTrue

(* drop's sweep: whatever it stops, the queue is no longer open.           *)
LEMMA SweepMoves ==
  ASSUME Inv, RequestsTrue, CancelActive
  PROVE  RequestsTrue' /\ \A r \in Slots : Moves(r)
<1>1. /\ UNCHANGED <<slots, active, result, promise>> /\ ~Running /\ ~Running'
      /\ download' = [w \in Workers |-> IF HandleVisible(w)
                                        THEN [download[w] EXCEPT !.cancel = TRUE]
                                        ELSE download[w]]
  BY DEF CancelActive, Running
<1>2. \A r \in Slots : Moves(r)
  BY <1>1, StaysFact
<1>3. ASSUME NEW r \in Slots PROVE SlotAsked(r)'
  BY <1>1 DEF RequestsTrue, SlotAsked, PauseWanted, Held
<1>4. ASSUME NEW w \in Workers PROVE WorkerAsked(w)'
  <2>1. WorkerAsked(w)
    BY DEF RequestsTrue
  <2>2. HandleVisible(w) => active[w] # NoSlot
    BY DEF HandleVisible, Inv, SlotKeptUnderWorker, InProcess
  <2>3. download[w] \in Flags
    BY DEF Inv, TypeOK
  <2>4. /\ download'[w].pause = download[w].pause
        /\ ~HandleVisible(w) => download'[w] = download[w]
    BY <1>1, <2>3 DEF Flags
  <2>5. QED
    BY <1>1, <2>1, <2>2, <2>4, AskedFact DEF PauseWanted
<1>5. QED
  BY <1>2, <1>3, <1>4 DEF RequestsTrue

(* Every step of the queue is a step of the lifecycle, or none, while the  *)
(* workers' entries are held apart.                                        *)
LEMMA StepMoves ==
  ASSUME Inv, HeldApart, HeldApart', RequestsTrue, [Next]_vars
  PROVE  RequestsTrue' /\ (Running' => Running) /\ \A r \in Slots : Moves(r)
<1>1. CASE UNCHANGED vars
  BY <1>1, IdleMoves DEF vars, Running
<1>2. CASE Caller
  <2>1. Running' => Running
    BY <1>2 DEF Caller, Queue, Cancel, Pause, Resume, Remove, BeginDrop, Running
  <2>2. CASE BeginDrop
    <3>1. UNCHANGED <<slots, active, result, download, promise>> /\ ~Running'
      BY <2>2 DEF BeginDrop, Running
    <3>2. QED
      BY <2>1, <3>1, IdleMoves
  <2>3. CASE \E prio \in Priority, t \in Times : Queue(prio, t)
    BY <2>1, <2>3, QueueMoves
  <2>4. CASE \E s \in Slots : Cancel(s) \/ Pause(s) \/ Resume(s) \/ Remove(s)
    BY <2>1, <2>4, CancelMoves, PauseMoves, ResumeMoves, RemoveMoves
  <2>5. QED
    BY <1>2, <2>2, <2>3, <2>4 DEF Caller
<1>3. CASE Dropping
  <2>1. CASE CancelActive
    BY <2>1, SweepMoves DEF CancelActive, Running
  <2>2. CASE JoinWorkers
    <3>1. UNCHANGED <<slots, active, result, download, promise>> /\ ~Running'
      BY <2>2 DEF JoinWorkers, Running
    <3>2. QED
      BY <3>1, IdleMoves
  <2>3. QED
    BY <1>3, <2>1, <2>2 DEF Dropping
<1>4. CASE Dropped
  BY <1>1, <1>4 DEF Dropped
<1>5. ASSUME NEW w \in Workers, Worker(w)
      PROVE  RequestsTrue' /\ (Running' => Running) /\ \A r \in Slots : Moves(r)
  <2>1. CASE HookReturns(w) \/ HookPanics(w) \/ CheckRunning(w)
    <3>1. /\ UNCHANGED <<slots, result, download, phase, promise>>
          /\ pc[w] \in {"hook", "top"}
      BY <2>1 DEF HookReturns, HookPanics, CheckRunning, Goto
    <3>2. active[w] = NoSlot
      BY <3>1 DEF Inv, SlotKeptUnderWorker, InProcess
    <3>3. active' = active
      BY <2>1, <3>2 DEF HookReturns, HookPanics, CheckRunning, Inv, TypeOK
    <3>4. QED
      BY <3>1, <3>3, IdleMoves DEF Running
  <2>2. CASE Retire(w) \/ Claim(w) \/ Finish(w)
    <3>1. Running' => Running
      BY <2>2 DEF Retire, Claim, Finish, Running
    <3>2. QED
      BY <2>2, <3>1, RetireMoves, ClaimMoves, FinishMoves
  <2>3. CASE \/ StopBeforeStart(w) \/ ServeCached(w) \/ OpenFails(w) \/ Open(w)
             \/ StopOpened(w) \/ KeepOpened(w) \/ PublishHandle(w)
             \/ StartReading(w) \/ FinishWithoutReading(w)
             \/ ReadChunk(w) \/ EndOfBody(w) \/ ObserveStop(w)
    <3>1. Running' => Running
      BY <2>3 DEF StopBeforeStart, ServeCached, OpenFails, Open, StopOpened, KeepOpened,
         PublishHandle, StartReading, FinishWithoutReading, ReadChunk, EndOfBody,
         ObserveStop, SettleAs, Running
    <3>2. QED
      BY <2>3, <3>1, TransferMoves
  <2>4. QED
    BY <1>5, <2>1, <2>2, <2>3 DEF Worker, ThreadStep, AnswerStep
<1>6. QED
  BY <1>1, <1>2, <1>3, <1>4, <1>5 DEF Next

(* A single worker holds its entries apart: it sweeps and claims only when *)
(* it holds none itself.                                                   *)
LEMMA AloneStep ==
  ASSUME NumWorkers = 1, Inv, HeldApart, [Next]_vars
  PROVE  HeldApart'
<1> USE DEF Inv
<1> DEFINE InFlight(r) == slots[r].state \in {"Downloading", "Preempted"}
<1>1. Workers = {0}
  BY DEF Workers
<1>2. OneWorkerPerEntry'
  BY <1>1 DEF OneWorkerPerEntry
<1>3. NoSlot \notin Slots /\ \A w \in Workers : active[w] \in Slots \cup {NoSlot}
  BY SizeAssumption DEF Slots, NoSlot, TypeOK
<1>4. ASSUME active' = active,
             \A r \in Slots : Held(r) /\ InFlight(r) => slots'[r].state \in {"Downloading", "Preempted"}
      PROVE  HeldApart'
  BY <1>2, <1>3, <1>4 DEF HeldApart, Held
<1>5. ASSUME NEW w \in Workers, active' = active, active[w] = NoSlot
      PROVE  HeldApart'
  BY <1>1, <1>2, <1>5 DEF HeldApart
<1>6. CASE UNCHANGED vars
  BY <1>4, <1>6 DEF vars
<1>7. ASSUME NEW prio \in Priority, NEW t \in Times, Queue(prio, t) PROVE HeldApart'
  <2>1. PICK s \in FreeSlot :
          \/ slots' = [slots EXCEPT ![s] = NewEntry(prio, t)]
          \/ \E y \in PreemptForUser([slots EXCEPT ![s] = NewEntry(prio, t)],
                                     active, prio, HasIdleWorker) :
               slots' = [[slots EXCEPT ![s] = NewEntry(prio, t)]
                           EXCEPT ![y].state = "Preempted", ![y].pauseRequested = TRUE]
    BY <1>7 DEF Queue
  <2> DEFINE entered == [slots EXCEPT ![s] = NewEntry(prio, t)]
  <2>2. s \in Slots /\ ~slots[s].inUse /\ ~Held(s) /\ active' = active
    BY <1>3, <1>7 DEF FreeSlot, SlotKeptUnderWorker, Held, Queue
  <2>3. /\ entered \in [Slots -> SlotType]
        /\ \A r \in Slots : r # s => entered[r] = slots[r]
    BY <2>2, SizeAssumption DEF TypeOK, NewEntry, SlotType, State
  <2>4. CASE slots' = entered
    BY <1>4, <2>2, <2>3, <2>4
  <2>5. ASSUME NEW y \in PreemptForUser(entered, active, prio, HasIdleWorker),
               slots' = [entered EXCEPT ![y].state = "Preempted", ![y].pauseRequested = TRUE]
        PROVE  HeldApart'
    <3> HIDE DEF entered
    <3>1. y \in Slots
      <4>1. active \in [Workers -> Slots \cup {NoSlot}]
        BY DEF TypeOK
      <4>2. QED
        BY <4>1, <2>3, PreemptFact
    <3>2. /\ \A r \in Slots : r # y => slots'[r] = entered[r]
          /\ slots'[y].state = "Preempted"
      BY <2>3, <2>5, <3>1 DEF SlotType
    <3>3. QED
      BY <1>4, <2>2, <2>3, <3>2
  <2>6. QED
    BY <2>1, <2>4, <2>5
<1>8. ASSUME NEW s \in Slots, Cancel(s) PROVE HeldApart'
  <2>1. /\ active' = active /\ slots'[s].state = CancelState(slots[s], Held(s))
        /\ \A r \in Slots : r # s => slots'[r] = slots[r]
    BY <1>8 DEF Cancel, TypeOK, SlotType
  <2>2. Held(s) /\ InFlight(s) => slots'[s].state = slots[s].state
    BY <2>1 DEF CancelState, CancelDefers
  <2>3. QED
    BY <1>4, <2>1, <2>2
<1>9. ASSUME NEW s \in Slots, Pause(s) \/ Remove(s) PROVE HeldApart'
  <2>1. active' = active /\ \A r \in Slots : slots'[r].state = slots[r].state
    BY <1>9 DEF Pause, Remove, TypeOK, SlotType
  <2>2. QED
    BY <1>4, <2>1
<1>10. ASSUME NEW s \in Slots, Resume(s) PROVE HeldApart'
  <2>1. active' = active /\ ~InFlight(s) /\ \A r \in Slots : r # s => slots'[r] = slots[r]
    BY <1>10 DEF Resume, ResumeApplies, TypeOK
  <2>2. QED
    BY <1>4, <2>1
<1>11. CASE BeginDrop \/ CancelActive \/ JoinWorkers
  BY <1>4, <1>11 DEF BeginDrop, CancelActive, JoinWorkers
<1>12. ASSUME NEW w \in Workers, Worker(w) PROVE HeldApart'
  <2>1. CASE HookReturns(w) \/ HookPanics(w) \/ CheckRunning(w) \/ Retire(w)
    <3>1. pc[w] \notin InProcess
      BY <2>1 DEF HookReturns, HookPanics, CheckRunning, Retire, Goto, InProcess
    <3>2. active[w] = NoSlot
      BY <3>1 DEF SlotKeptUnderWorker
    <3>3. active' = active
      BY <2>1, <3>2 DEF HookReturns, HookPanics, CheckRunning, Retire, TypeOK
    <3>4. QED
      BY <1>5, <3>2, <3>3
  <2>2. CASE Claim(w)
    <3>1. PICK s \in NextPending(AutoResumePreempted(slots)) :
            /\ slots' = [AutoResumePreempted(slots) EXCEPT ![s].state = "Downloading"]
            /\ active' = [active EXCEPT ![w] = s]
      BY <2>2 DEF Claim
    <3>2. AutoResumePreempted(slots) \in [Slots -> SlotType]
      BY SweptFact
    <3>3. s \in Slots
      BY <3>2, NextPendingFact
    <3>4. active'[w] = s /\ slots'[s].state = "Downloading"
      BY <3>1, <3>2, <3>3 DEF TypeOK, SlotType
    <3>5. QED
      BY <1>1, <1>2, <3>4 DEF HeldApart
  <2>3. CASE Finish(w)
    <3>1. active'[w] = NoSlot
      BY <2>3 DEF Finish, TypeOK
    <3>2. QED
      BY <1>1, <1>2, <3>1 DEF HeldApart
  <2>4. CASE \/ StopBeforeStart(w) \/ ServeCached(w) \/ OpenFails(w) \/ Open(w)
             \/ StopOpened(w) \/ KeepOpened(w) \/ PublishHandle(w)
             \/ StartReading(w) \/ FinishWithoutReading(w)
             \/ ReadChunk(w) \/ EndOfBody(w) \/ ObserveStop(w)
    <3>1. active' = active /\ \A r \in Slots : slots'[r].state = slots[r].state
      <4>1. active' = active
        BY <2>4 DEF StopBeforeStart, ServeCached, OpenFails, Open, StopOpened, KeepOpened,
           PublishHandle, StartReading, FinishWithoutReading, ReadChunk, EndOfBody,
           ObserveStop, SettleAs
      <4>2. \/ UNCHANGED slots
            \/ \E n \in 0..MaxBytes : slots' = [slots EXCEPT ![active[w]].bytes = n]
        <5>1. MaxBytes \in 0..MaxBytes
          BY SizeAssumption
        <5>2. CASE ServeCached(w) \/ ReadChunk(w)
          BY <5>1, <5>2 DEF ServeCached, ReadChunk
        <5>3. QED
          BY <2>4, <5>2 DEF StopBeforeStart, OpenFails, Open, StopOpened, KeepOpened,
             PublishHandle, StartReading, FinishWithoutReading, EndOfBody, ObserveStop
      <4>3. QED
        BY <4>1, <4>2 DEF TypeOK, SlotType
    <3>2. QED
      BY <1>4, <3>1
  <2>5. QED
    BY <1>12, <2>1, <2>2, <2>3, <2>4 DEF Worker, ThreadStep, AnswerStep
<1>13. QED
  BY <1>6, <1>7, <1>8, <1>9, <1>10, <1>11, <1>12 DEF Next, Caller, Dropping, Dropped

(***************************************************************************)
(* The theorems.                                                           *)
(***************************************************************************)

(* Every step of a caller or a worker preserves the invariant.             *)
LEMMA StepInv == Inv /\ [Next]_vars => Inv'
<1> SUFFICES ASSUME Inv, [Next]_vars PROVE Inv'
  OBVIOUS
<1>1. CASE UNCHANGED vars
  <2>1. TypeOK' /\ SettlesWithResult'
    BY <1>1 DEF vars, Inv, TypeOK, SettlesWithResult
  <2>2. QED
    BY <1>1, <2>1, FrameInv DEF vars
<1>2. CASE Caller
  BY <1>2, QueueInv, CancelInv, PauseInv, ResumeInv, RemoveInv, DropInv DEF Caller
<1>3. CASE Dropping
  BY <1>3, DropInv DEF Dropping
<1>4. CASE Dropped
  BY <1>1, <1>4 DEF Dropped
<1>5. ASSUME NEW w \in Workers, Worker(w) PROVE Inv'
  <2>1. CASE HookReturns(w) \/ HookPanics(w) \/ CheckRunning(w)
    BY <2>1, ThreadInv
  <2>2. CASE Retire(w)
    BY <2>2, RetireInv
  <2>3. CASE Claim(w)
    BY <2>3, ClaimInv
  <2>4. CASE Finish(w)
    BY <2>4, FinishInv
  <2>5. CASE \/ StopBeforeStart(w) \/ ServeCached(w) \/ OpenFails(w) \/ Open(w)
             \/ StopOpened(w) \/ KeepOpened(w) \/ PublishHandle(w)
             \/ StartReading(w) \/ FinishWithoutReading(w)
             \/ ReadChunk(w) \/ EndOfBody(w) \/ ObserveStop(w)
    BY <2>5, TransferInv
  <2>6. QED
    BY <1>5, <2>1, <2>2, <2>3, <2>4, <2>5 DEF Worker, ThreadStep, AnswerStep
<1>6. QED
  BY <1>1, <1>2, <1>3, <1>4, <1>5 DEF Next

(* The strengthening of the three properties below is inductive: the calls *)
(* and the worker steps of queue/mod.rs each preserve it.                  *)
THEOREM Invariance == Spec => []Inv
<1>1. Init => Inv
  BY InitInv
<1>2. Inv /\ [Next]_vars => Inv'
  BY StepInv
<1>3. QED
  BY <1>1, <1>2, PTL DEF Spec

(* Every variable keeps its type, whatever the sizes and the bounds.       *)
THEOREM TypeCorrect == Spec => []TypeOK
<1>1. Inv => TypeOK
  BY DEF Inv
<1>2. QED
  BY <1>1, Invariance, PTL

(* No slot is freed or handed out again under the worker transferring into *)
(* it (remove, queue, run_drain), with any number of workers.              *)
THEOREM SlotNeverFreedUnderWorker == Spec => []SlotKeptUnderWorker
<1>1. Inv => SlotKeptUnderWorker
  BY DEF Inv
<1>2. QED
  BY <1>1, Invariance, PTL

(* A cancel that returned true is honoured (cancel, process, finish), with *)
(* any number of slots and workers, panicking hooks and refused threads.   *)
THEOREM CancelIsHonoured == Spec => []CancelHonoured
<1>1. Inv => CancelHonoured
  BY DEF Inv, CancelKept, CancelHonoured
<1>2. QED
  BY <1>1, Invariance, PTL

(* No entry reads Downloading with nobody behind it (run_drain's claim,    *)
(* finish), with any number of workers, hooks that panic and threads the   *)
(* host refuses: it could be neither removed nor cancelled.                *)
THEOREM NothingOrphaned == Spec => []DownloadingIsHeld
<1>1. Init => DownloadingIsHeld
  BY DEF Init, EmptySlot, DownloadingIsHeld
<1>2. Inv /\ DownloadingIsHeld /\ [Next]_vars => DownloadingIsHeld'
  BY DownloadingStep
<1>3. QED
  BY <1>1, <1>2, Invariance, PTL DEF Spec

(* No preempted entry is stranded: while the queue runs, some worker has   *)
(* yet to come back to the sweep (run_drain sweeps and retires in one lock *)
(* hold), with any number of slots and workers.                            *)
THEOREM NothingStranded == Spec => []PreemptedIsSwept
<1>1. Init => PreemptedIsSwept
  BY DEF Init, EmptySlot, PreemptedIsSwept
<1>2. Inv /\ DownloadingIsHeld /\ PreemptedIsSwept /\ [Next]_vars => PreemptedIsSwept'
  BY SweptStep
<1>3. QED
  BY <1>1, <1>2, Invariance, NothingOrphaned, PTL DEF Spec

(* Once drop has swept the active transfers none of them reads on, whatever *)
(* it was doing when the sweep came (process re-reads running after it has  *)
(* published the handle), with any number of workers.                       *)
THEOREM DropIsSeen == Spec => []DropReachesTransfers
<1>1. Init => DropReachesTransfers
  BY DEF Init, DropReachesTransfers
<1>2. Inv /\ DropReachesTransfers /\ [Next]_vars => DropReachesTransfers'
  BY DropStep
<1>3. QED
  BY <1>1, <1>2, Invariance, PTL DEF Spec

(* A preemption reaches the transfer it preempts, whatever it was doing     *)
(* (queue, request_pause, process), as long as no two workers hold one      *)
(* entry. Two of several may, when the sweep resumes an entry its worker    *)
(* has not settled, and then a preemption can be missed: one worker cannot. *)
LEMMA PreemptionIsSeen == Spec /\ []OneWorkerPerEntry => []PreemptionReachesTransfer
<1>1. Init => PreemptionKept
  BY DEF Init, PreemptionKept
<1>2. Inv /\ OneWorkerPerEntry /\ PreemptionKept /\ [Next]_vars => PreemptionKept'
  BY PreemptionStep
<1>3. Inv /\ PreemptionKept => PreemptionReachesTransfer
  BY DEF Inv, PreemptionKept, PreemptionReachesTransfer, SlotKeptUnderWorker, InProcess
<1>4. QED
  BY <1>1, <1>2, <1>3, Invariance, PTL DEF Spec

(* Every step of the queue is a step of the lifecycle its states name       *)
(* (State, cancel, pause, resume, remove, finish), as long as the sweep     *)
(* resumes no entry a worker still holds, which one of several may do.      *)
LEMMA LifecycleKept == Spec /\ []HeldApart => ImplementsLifecycle
<1>1. Init => Lifecycle!Init /\ RequestsTrue
  <2> SUFFICES ASSUME Init PROVE Lifecycle!Init /\ RequestsTrue
    OBVIOUS
  <2>1. Lifecycle!Init
    BY DEF Init, EmptySlot, Lifecycle!Init, Lifecycle!Free, Lifecycle!Entry, Running
  <2>2. RequestsTrue
    <3>1. \A r \in Slots : SlotAsked(r)
      BY DEF Init, EmptySlot, SlotAsked
    <3>2. \A w \in Workers : WorkerAsked(w)
      BY DEF Init, WorkerAsked
    <3>3. QED
      BY <3>1, <3>2 DEF RequestsTrue
  <2>3. QED
    BY <2>1, <2>2
<1>2. Inv /\ HeldApart /\ HeldApart' /\ RequestsTrue /\ [Next]_vars
        => RequestsTrue' /\ Lifecycle!Next
  <2> SUFFICES ASSUME Inv, HeldApart, HeldApart', RequestsTrue, [Next]_vars
               PROVE  RequestsTrue' /\ Lifecycle!Next
    OBVIOUS
  <2>1. RequestsTrue' /\ (Running' => Running) /\ \A r \in Slots : Moves(r)
    BY StepMoves
  <2>2. QED
    BY <2>1 DEF Lifecycle!Next, Moves, View, Lifecycle!Entry
<1>3. QED
  BY <1>1, <1>2, Invariance, PTL DEF Spec, ImplementsLifecycle, Lifecycle!Spec

(* With the one worker the updater configures by default nothing has to be  *)
(* supposed: its entries are held apart.                                    *)
LEMMA OneWorkerHeldApart ==
  ASSUME NumWorkers = 1 PROVE Spec => []HeldApart
<1>1. Init => HeldApart
  BY DEF Init, HeldApart, OneWorkerPerEntry, NoSlot
<1>2. Inv /\ HeldApart /\ [Next]_vars => HeldApart'
  BY AloneStep
<1>3. QED
  BY <1>1, <1>2, Invariance, PTL DEF Spec

(* So with one worker the queue implements the lifecycle (queue/mod.rs),    *)
(* whatever the slots, the priorities, the hook and the host do.            *)
THEOREM LifecycleOfOneWorker ==
  ASSUME NumWorkers = 1 PROVE Spec => ImplementsLifecycle
BY OneWorkerHeldApart, LifecycleKept, PTL

(* And with one worker every preemption reaches the transfer it preempts    *)
(* (process, which re-reads the request after publishing the handle).       *)
THEOREM PreemptionSeenByOneWorker ==
  ASSUME NumWorkers = 1 PROVE Spec => []PreemptionReachesTransfer
<1>1. HeldApart => OneWorkerPerEntry
  BY DEF HeldApart
<1>2. QED
  BY <1>1, OneWorkerHeldApart, PreemptionIsSeen, PTL
=============================================================================
