----------------------------- MODULE EntryPolicy -----------------------------
(***************************************************************************)
(* The scheduling policy of the transfer queue (queue/entry.rs): pure      *)
(* functions of the entries in the slot array.  Which pending entry runs   *)
(* next, how a request resolves against an entry's state, which transfer   *)
(* yields to user work and when a preempted entry resumes.                 *)
(*                                                                         *)
(* An entry is a record with at least the fields                           *)
(*   inUse, prio, state, time, bytes                                       *)
(* and `slots` is a function from slot indices to entries.                 *)
(***************************************************************************)
EXTENDS Integers

(* Declaration order is ranking order: User outranks Background. *)
Background == 0
User       == 1
Priority   == {Background, User}

State == {"Pending", "Downloading", "Paused", "Preempted",
          "Complete", "Failed", "Cancelled"}

(***************************************************************************)
(* Picking work.                                                           *)
(***************************************************************************)

PendingIn(slots) ==
  {s \in DOMAIN slots : slots[s].inUse /\ slots[s].state = "Pending"}

(* Higher priority first, then the earlier wall-clock time; the scan keeps *)
(* the entry it met first on a full tie.                                   *)
RunsBefore(slots, s, t) ==
  \/ slots[s].prio > slots[t].prio
  \/ /\ slots[s].prio = slots[t].prio
     /\ \/ slots[s].time < slots[t].time
        \/ slots[s].time = slots[t].time /\ s < t

(* next_pending: the empty set stands for None. *)
NextPending(slots) ==
  {s \in PendingIn(slots) :
     \A t \in PendingIn(slots) \ {s} : RunsBefore(slots, s, t)}

(***************************************************************************)
(* How a request resolves against an entry.  `held` is whether a worker    *)
(* holds the entry's slot.  None of them looks at inUse.                   *)
(***************************************************************************)

(* The worker is asked to stop and the state is left for its settle. *)
CancelDefers(entry, held) == held /\ entry.state \in {"Downloading", "Preempted"}

CancelApplies(entry, held) ==
  CancelDefers(entry, held) \/ entry.state \in {"Pending", "Paused", "Preempted"}

CancelState(entry, held) ==
  IF CancelDefers(entry, held) THEN entry.state ELSE "Cancelled"

PauseApplies(entry, held) == held /\ entry.state = "Downloading"

ResumeApplies(entry) == entry.state = "Paused"

(* Seeded fault: freeing looks at the state alone. *)
RemoveByState(entry, held) == entry.state # "Downloading"

RemoveApplies(entry, held) == ~held /\ entry.state # "Downloading"

(***************************************************************************)
(* Preemption.  `active` maps a worker to the slot it holds.               *)
(***************************************************************************)

YieldsBefore(slots, s, t) ==
  \/ slots[s].bytes < slots[t].bytes
  \/ slots[s].bytes = slots[t].bytes /\ slots[s].time > slots[t].time

(* The workers whose transfer may be asked to yield. *)
MayYield(slots, active) ==
  {w \in DOMAIN active :
     /\ active[w] \in DOMAIN slots
     /\ slots[active[w]].inUse
     /\ slots[active[w]].state = "Downloading"
     /\ slots[active[w]].prio = Background}

(* preempt_for_user: the slot that yields, as a set with at most one       *)
(* member.  Nothing yields while a worker is idle or to background work.   *)
PreemptForUser(slots, active, prio, idle) ==
  IF prio # User \/ idle THEN {}
  ELSE {active[w] : w \in
         {w \in MayYield(slots, active) : \A v \in MayYield(slots, active) :
            /\ ~YieldsBefore(slots, active[v], active[w])
            /\ v < w => YieldsBefore(slots, active[w], active[v])}}

(* Seeded fault: a user entry that has settled still holds others back. *)
UserEntryPresent(slots) ==
  \E s \in DOMAIN slots : slots[s].inUse /\ slots[s].prio = User

UserWorkOutstanding(slots) ==
  \E s \in DOMAIN slots : /\ slots[s].inUse
                          /\ slots[s].prio = User
                          /\ slots[s].state \in {"Pending", "Downloading"}

(* Seeded fault: the sweep resumes what the caller paused as well. *)
AutoResumeStopped(slots) ==
  IF UserWorkOutstanding(slots) THEN slots
  ELSE [s \in DOMAIN slots |->
          IF slots[s].inUse /\ slots[s].state \in {"Preempted", "Paused"}
          THEN [slots[s] EXCEPT !.state = "Pending"]
          ELSE slots[s]]

(* auto_resume_preempted: every preempted entry returns to Pending once no *)
(* user work is queued or in flight.                                       *)
AutoResumePreempted(slots) ==
  IF UserWorkOutstanding(slots) THEN slots
  ELSE [s \in DOMAIN slots |->
          IF slots[s].inUse /\ slots[s].state = "Preempted"
          THEN [slots[s] EXCEPT !.state = "Pending"]
          ELSE slots[s]]
=============================================================================
