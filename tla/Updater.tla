------------------------------- MODULE Updater --------------------------------
(***************************************************************************)
(* The updater (crates/updater/src/updater, check, schedule): it checks a  *)
(* channel on an interval, stretched while checks fail, and applies what   *)
(* it finds, on one thread of its own; its caller polls it.  A check takes *)
(* what is installed, asks the channel, and says what that means; an apply *)
(* publishes a generation in the install root and offers it, once.         *)
(*                                                                         *)
(* InstallRoot has the apply and the collection in detail; here an apply   *)
(* resolves, claims, publishes, releases and offers, and a collection is   *)
(* one step.  A generation goes by its id; what it holds is data.          *)
(***************************************************************************)
EXTENDS Integers, Sequences, FiniteSets

CONSTANTS
  Generations,   \* generation ids
  Interval,      \* the check interval
  RetryBase,     \* the first retry's delay
  MaxShift,      \* the largest doubling of it
  MaxFailures,   \* where the count of failures saturates (u32::MAX)
  AutoApply,     \* whether a check that finds an update applies it
  MaxReleases,   \* what the channel publishes (bound)
  MaxFaults,     \* what goes wrong outside the network (bound)
  MayFail        \* whether a check or an apply may fail

ASSUME ScheduleAssumption ==
  Interval \in Nat /\ RetryBase \in Nat /\ MaxShift \in Nat /\ MaxFailures \in Nat
ASSUME UpdaterAssumption == 
  {AutoApply, MayFail} \subseteq BOOLEAN /\ MaxReleases \in Nat /\ MaxFaults \in Nat

NoGen  == "none"

ASSUME GenerationAssumption == NoGen \notin Generations

VARIABLES
  channel,   \* the generation the channel offers, and how many it has published
  root,      \* the generations in the install root, in the order they were published
  claims,    \* generations an apply is publishing
  seen,      \* generations this process has offered
  offered,   \* those not yet taken, oldest first
  status,    \* what a poll reports: phase, available, installed, applying
  job,       \* where the updater's thread is
  schedule,  \* the failures in a row and the time since the last attempt
  faults     \* what has gone wrong so far

updater == <<channel, root, claims, seen, offered, status, job, schedule, faults>>

NoTime == -1        \* no check was attempted
NoJob  == [pc |-> "idle", plan |-> NoGen, installed |-> NoGen]

JobPc == {"idle", "check", "conclude", "failed", "resolve", "claim", "publish", "release",
          "offer", "refused", "settle"}

(* The host lets one thing down: a thread refused, a job that unwinds, a   *)
(* write or a load that fails.                                             *)
Fault == faults < MaxFaults /\ faults' = faults + 1

NewStatus == [phase |-> "Idle", available |-> NoGen, installed |-> NoGen, applying |-> NoGen]

(* What a process starts with; the install root outlives it. *)
Fresh ==
  /\ claims = {} /\ seen = {} /\ offered = <<>>
  /\ status = NewStatus
  /\ job = NoJob
  /\ schedule = [failures |-> 0, since |-> NoTime]

Restarted ==
  /\ claims' = {} /\ seen' = {} /\ offered' = <<>>
  /\ status' = NewStatus
  /\ job' = NoJob
  /\ schedule' = [failures |-> 0, since |-> NoTime]
  /\ UNCHANGED <<channel, root, faults>>

InRoot == {root[i] : i \in DOMAIN root}

-----------------------------------------------------------------------------
(* When a check is due. *)

RetryDelay(count) == RetryBase * 2^(IF count > MaxShift THEN MaxShift ELSE count)

Wait(failures) ==
  IF failures = 0 \/ RetryDelay(failures - 1) < Interval THEN Interval
  ELSE RetryDelay(failures - 1)

(* A clock that ran past the longest wait says no more than that it did. *)
LongestWait == IF Interval < RetryBase * 2^MaxShift THEN RetryBase * 2^MaxShift ELSE Interval

Due == schedule.since = NoTime \/ schedule.since >= Wait(schedule.failures)

Elapse ==
  /\ schedule.since \in 0..(LongestWait - 1)
  /\ schedule' = [schedule EXCEPT !.since = @ + 1]
  /\ UNCHANGED <<channel, root, claims, seen, offered, status, job, faults>>

Failed(s)    == [s EXCEPT !.failures = IF @ < MaxFailures THEN @ + 1 ELSE @]
Succeeded(s) == [s EXCEPT !.failures = 0]

-----------------------------------------------------------------------------
(* The caller's calls. *)

(* Puts a check on the updater's thread unless one runs; only a check that *)
(* started counts as attempted.                                            *)
StartCheck ==
  IF status.phase # "Idle" THEN UNCHANGED <<status, job, schedule>>
  ELSE /\ status' = [status EXCEPT !.phase = "Checking"]
       /\ job' = [NoJob EXCEPT !.pc = "check"]
       /\ schedule' = [schedule EXCEPT !.since = 0]

(* The host may refuse the thread. *)
BeginCheck ==
  \/ StartCheck /\ UNCHANGED faults
  \/ status.phase = "Idle" /\ Fault /\ UNCHANGED <<status, job, schedule>>

TickUpdater == IF Due THEN BeginCheck ELSE UNCHANGED <<status, job, schedule, faults>>

(* The elements of a sequence that are in a set, in their order; recursive *)
(* as a function, so that it can be reasoned about.                        *)
Kept(seq, set) ==
  LET kept[i \in 0..Len(seq)] ==
        IF i = 0 THEN <<>>
        ELSE IF seq[i] \in set THEN Append(kept[i - 1], seq[i]) ELSE kept[i - 1]
  IN  kept[Len(seq)]

(* What retain keeps of the root: the live generations and the claimed. *)
Retained(live) == Kept(root, live \cup claims)

-----------------------------------------------------------------------------
(* The updater's thread. *)

Goes(from, to) == job.pc = from /\ job' = [job EXCEPT !.pc = to]

(* The record of the check is written, or the check has failed.            *)
Authenticate ==
  /\ job.pc = "check"
  /\ job' = [job EXCEPT !.pc = "conclude", !.plan = channel.newest,
                        !.installed = status.installed]
  /\ UNCHANGED <<channel, root, claims, seen, offered, status, schedule, faults>>

(* Offline, or the chain, the manifest or the record of the check failed. *)
CheckFails ==
  /\ MayFail /\ Goes("check", "failed")
  /\ UNCHANGED <<channel, root, claims, seen, offered, status, schedule, faults>>

(* The generation this process has published is up to date; any other is   *)
(* an update, whether or not the root holds it.                            *)
Conclude ==
  LET current == job.plan = job.installed
  IN  /\ job.pc = "conclude"
      /\ status' = [status EXCEPT !.available = IF current THEN NoGen ELSE job.plan]
      /\ schedule' = Succeeded(schedule)
      /\ job' = [NoJob EXCEPT !.pc = IF ~current /\ AutoApply THEN "resolve" ELSE "settle",
                           !.plan = job.plan]
      /\ UNCHANGED <<channel, root, claims, seen, offered, faults>>

ConcludeFailed ==
  /\ Goes("failed", "settle")
  /\ schedule' = Failed(schedule)
  /\ UNCHANGED <<channel, root, claims, seen, offered, status, faults>>

(* A generation the root records is not acquired again. *)
Resolve ==
  /\ job.pc = "resolve"
  /\ status' = [status EXCEPT !.phase = "Applying", !.applying = job.plan]
  /\ job' = [job EXCEPT !.pc = IF job.plan \in InRoot THEN "offer" ELSE "claim"]
  /\ UNCHANGED <<channel, root, claims, seen, offered, schedule, faults>>

ClaimPlan ==
  /\ Goes("claim", "publish")
  /\ claims' = claims \cup {job.plan}
  /\ UNCHANGED <<channel, root, seen, offered, status, schedule, faults>>

Publish ==
  /\ Goes("publish", "release")
  /\ root' = IF job.plan \in InRoot THEN root ELSE Append(root, job.plan)
  /\ UNCHANGED <<channel, claims, seen, offered, status, schedule, faults>>

PublishFails ==
  /\ MayFail /\ Goes("publish", "refused")
  /\ UNCHANGED <<channel, root, claims, seen, offered, status, schedule, faults>>

Release ==
  /\ Goes("release", "offer") \/ Goes("refused", "settle")
  /\ claims' = claims \ {job.plan}
  /\ UNCHANGED <<channel, root, seen, offered, status, schedule, faults>>

Offer ==
  /\ Goes("offer", "settle")
  /\ seen' = seen \cup {job.plan}
  /\ offered' = IF job.plan \in seen THEN offered ELSE Append(offered, job.plan)
  /\ status' = [status EXCEPT !.installed = job.plan,
                              !.available = IF @ = job.plan THEN NoGen ELSE @]
  /\ UNCHANGED <<channel, root, claims, schedule, faults>>

(* The phase is settled last. *)
Settle ==
  /\ job.pc = "settle" /\ job' = NoJob
  /\ status' = [status EXCEPT !.phase = "Idle", !.applying = NoGen]
  /\ UNCHANGED <<channel, root, claims, seen, offered, schedule, faults>>

(* Seeded fault: an unwinding job takes its phase with it. *)
PanicUncaught ==
  /\ Fault /\ job.pc \notin {"idle", "settle"}
  /\ job' = NoJob
  /\ claims' = claims \ {job.plan}
  /\ UNCHANGED <<channel, root, seen, offered, status, schedule>>

(* A job that unwinds is caught, its claim dropped on the way. *)
Panic ==
  /\ Fault /\ job.pc \notin {"idle", "settle"}
  /\ job' = [job EXCEPT !.pc = "settle"]
  /\ claims' = claims \ {job.plan}
  /\ UNCHANGED <<channel, root, seen, offered, status, schedule>>

Job ==
  \/ Authenticate \/ CheckFails \/ Conclude \/ ConcludeFailed
  \/ Resolve \/ ClaimPlan \/ Publish \/ PublishFails \/ Release \/ Offer \/ Settle \/ Panic

(* The publisher: another set, or one it has published before. *)
ReleaseSet(g) ==
  /\ channel.releases < MaxReleases /\ g # channel.newest
  /\ channel' = [newest |-> g, releases |-> channel.releases + 1]
  /\ UNCHANGED <<root, claims, seen, offered, status, job, schedule, faults>>
=============================================================================
