----------------------------- MODULE ReleaseChain -----------------------------
(***************************************************************************)
(* The publishing side of a channel (crates/publish, crates/tuf): a        *)
(* workspace that publishes release sets and a stateless job that pulls    *)
(* and re-signs them, each writing a chain of three roles locally, then    *)
(* pushing the same files, in the same order, to a release host a client   *)
(* reads at any time.  A run may die at any step.                          *)
(*                                                                         *)
(* A role file is a record that holds what it pins: a pin is a digest, and *)
(* the records are equal when the bytes are.  Keys, signatures and the     *)
(* root, which no run replaces, are left out.  Runs do not overlap, and    *)
(* the workspace pulls first when it is behind: nothing in the code sees   *)
(* to either, the module comment of remote.rs asks for it.                 *)
(***************************************************************************)
EXTENDS Integers, Sequences

CONSTANTS
  MaxVersion,     \* metadata versions (bound)
  MaxReleases,    \* release sets (bound)
  MaxTime,        \* the last day (bound)
  TimestampDays,  \* how long a timestamp stays valid
  LongDays,       \* how long a snapshot and a targets role do
  MaxFaults       \* runs killed, checks cut off, stores lost (bound)

ASSUME ChainAssumption ==
  /\ MaxVersion \in Nat \ {0} /\ MaxReleases \in Nat
  /\ MaxTime \in Nat /\ MaxFaults \in Nat
  /\ TimestampDays \in Nat \ {0} /\ LongDays \in Nat /\ LongDays >= TimestampDays

VARIABLES
  now,       \* today
  host,      \* the rolling release: what each name serves
  past,      \* what its entry point has ever served
  local,     \* the channel directory of the workspace, and of the job
  run,       \* the run under way
  released,  \* the newest release set there is
  faults     \* what has failed so far

publishing == <<now, host, past, local, run, released, faults>>

Days == 0..(MaxTime + LongDays)

-----------------------------------------------------------------------------
(* Files and names. *)

NoFile == [role |-> "none", version |-> 0]

Targets(version, release, day) ==
  [role |-> "targets", version |-> version, release |-> release, expires |-> day + LongDays]
Snapshot(version, targets, day) ==
  [role |-> "snapshot", version |-> version, pins |-> targets, expires |-> day + LongDays]
Timestamp(version, snapshot, day) ==
  [role |-> "timestamp", version |-> version, pins |-> snapshot, expires |-> day + TimestampDays]
Manifest(release) == [role |-> "manifest", version |-> release]

(* The timestamp alone is published under a name that stays. *)
Entry == <<"timestamp", 0>>
Name(file) == IF file.role = "timestamp" THEN Entry ELSE <<file.role, file.version>>

Names == {Entry} \cup ({"snapshot", "targets"} \X (1..MaxVersion))
                 \cup ({"manifest"} \X (1..MaxReleases))

Nothing == [name \in Names |-> NoFile]

Holding(repository, file) == [repository EXCEPT ![Name(file)] = file]

(* The first chain, which names no release set. *)
FirstChain ==
  LET targets  == Targets(1, 0, 0)
      snapshot == Snapshot(1, targets, 0)
  IN  Holding(Holding(Holding(Nothing, targets), snapshot), Timestamp(1, snapshot, 0))

InForce(file, day) == day < file.expires

(* The roles the entry point pins are there, and are what was pinned.      *)
Chained(repository) ==
  LET timestamp == repository[Entry]
      snapshot  == timestamp.pins
      targets   == snapshot.pins
  IN  /\ timestamp # NoFile
      /\ repository[Name(snapshot)] = snapshot /\ repository[Name(targets)] = targets

Verifies(repository, day) ==
  /\ Chained(repository)
  /\ InForce(repository[Entry], day) /\ InForce(repository[Entry].pins, day)
  /\ InForce(repository[Entry].pins.pins, day)

(* So is the manifest the targets role names, if it names one. *)
NamesWhatIsThere(repository) ==
  LET release == repository[Entry].pins.pins.release
  IN  release # 0 => repository[<<"manifest", release>>] = Manifest(release)

-----------------------------------------------------------------------------
(* The chain in force in a directory, followed by version. *)

SnapshotOf(repository) == repository[<<"snapshot", repository[Entry].pins.version>>]
TargetsOf(repository)  == repository[<<"targets", SnapshotOf(repository).pins.version>>]

CanRead(repository) ==
  /\ repository[Entry] # NoFile
  /\ SnapshotOf(repository) # NoFile
  /\ TargetsOf(repository) # NoFile

(* Seeded fault: the entry point is written first. *)
CommitBackwards(repository, release, day) ==
  LET targets   == Targets(SnapshotOf(repository).pins.version + 1, release, day)
      snapshot  == Snapshot(SnapshotOf(repository).version + 1, targets, day)
      timestamp == Timestamp(repository[Entry].version + 1, snapshot, day)
  IN  <<timestamp, targets, snapshot>>

(* A role is written only after everything it pins. *)
Commit(repository, release, day) ==
  LET targets   == Targets(SnapshotOf(repository).pins.version + 1, release, day)
      snapshot  == Snapshot(SnapshotOf(repository).version + 1, targets, day)
      timestamp == Timestamp(repository[Entry].version + 1, snapshot, day)
  IN  <<targets, snapshot, timestamp>>

FitsBound(files) == \A i \in DOMAIN files : files[i].version <= MaxVersion

-----------------------------------------------------------------------------
(* Runs. *)

NoRun == [pc |-> "idle", who |-> "workspace", files |-> <<>>, i |-> 1, pushes |-> FALSE]

RunOf(who, files, pushes) ==
  [pc |-> "write", who |-> who, files |-> files, i |-> 1, pushes |-> pushes]

InitPublishing ==
  /\ now = 0 /\ released = 0 /\ faults = 0
  /\ host = FirstChain /\ past = {FirstChain[Entry]}
  /\ local = [workspace |-> FirstChain, job |-> Nothing]
  /\ run = NoRun

InUse(name) == host[name] # NoFile

Behind == /\ InUse(Entry)
          /\ local.workspace[Entry].version < host[Entry].version

(* Nothing is written unless what the host serves verifies; the manifest   *)
(* is not read.                                                            *)
Pull(who) ==
  /\ run.pc = "idle"
  /\ Verifies(host, now)
  /\ run' = RunOf(who, <<host[Entry].pins.pins, host[Entry].pins, host[Entry]>>, FALSE)
  /\ UNCHANGED <<now, host, past, local, released, faults>>

(* A new release set, or the last one again, served already or not.        *)
Publish(release) ==
  LET files == Commit(local.workspace, release, now)
  IN  /\ run.pc = "idle" /\ ~Behind /\ CanRead(local.workspace)
      /\ release \in {released, released + 1} \cap (1..MaxReleases)
      /\ FitsBound(files)
      /\ run' = RunOf("workspace", <<Manifest(release)>> \o files, TRUE)
      /\ released' = release
      /\ UNCHANGED <<now, host, past, local, faults>>

(* Carries the targets in force, with a new version and new expiries: by   *)
(* hand in the workspace, or in the job, which has just pulled.            *)
Resign(who) ==
  LET files == Commit(local[who], TargetsOf(local[who]).release, now)
  IN  /\ run.pc = IF who = "job" THEN "pulled" ELSE "idle"
      /\ who = "workspace" => ~Behind
      /\ CanRead(local[who]) /\ FitsBound(files)
      /\ run' = RunOf(who, files, TRUE)
      /\ UNCHANGED <<now, host, past, local, released, faults>>

File == run.files[run.i]

(* The run's last file, and what comes after it. *)
Advance(next, done) ==
  run' = IF run.i < Len(run.files) THEN [run EXCEPT !.pc = next, !.i = @ + 1] ELSE done

(* Local files, each replaced at once. *)
Write ==
  /\ run.pc = "write"
  /\ local' = [local EXCEPT ![run.who] = Holding(@, File)]
  /\ Advance("write", IF run.pushes THEN [run EXCEPT !.pc = "push", !.i = 1]
                      ELSE IF run.who = "job" THEN [NoRun EXCEPT !.pc = "pulled", !.who = "job"]
                      ELSE NoRun)
  /\ UNCHANGED <<now, host, past, released, faults>>

Kept == IF run.who = "job" THEN [local EXCEPT !.job = Nothing] ELSE local

Serves(file) ==
  /\ host' = Holding(host, file)
  /\ past' = IF Name(file) = Entry THEN past \cup {file} ELSE past
  /\ Advance("push", NoRun)
  /\ local' = IF run'.pc = "idle" THEN Kept ELSE local
  /\ UNCHANGED <<now, released, faults>>

(* A name not taken is served by its upload; a name in use is swapped: the *)
(* new bytes are staged, the old asset is dropped, the staged one renamed. *)
Upload == run.pc = "push" /\ ~InUse(Name(File)) /\ Serves(File)

DropOld ==
  /\ run.pc = "push" /\ InUse(Name(File))
  /\ host' = [host EXCEPT ![Name(File)] = NoFile]
  /\ run' = [run EXCEPT !.pc = "rename"]
  /\ UNCHANGED <<now, past, local, released, faults>>

Rename == run.pc = "rename" /\ Serves(File)

Fault == faults < MaxFaults /\ faults' = faults + 1

(* Killed, out of network, or stopped short; the job's machine is gone.    *)
Die ==
  /\ run.pc # "idle" /\ Fault
  /\ run' = NoRun /\ local' = Kept
  /\ UNCHANGED <<now, host, past, released>>

NextDay ==
  /\ now < MaxTime /\ now' = now + 1
  /\ UNCHANGED <<host, past, local, run, released, faults>>

Start == \/ \E who \in {"workspace", "job"} : Pull(who) \/ Resign(who)
         \/ \E release \in 1..MaxReleases : Publish(release)

Proceed == Write \/ Upload \/ DropOld \/ Rename

Publishing == Start \/ Proceed \/ Die \/ NextDay

(* remote.rs, chain.rs: whatever a run was doing when it died, and         *)
(* whichever side goes on, the roles the entry point pins are there, and   *)
(* the release set they name is the newest the channel ever served, even   *)
(* where the versions have gone back.  The manifest is another matter.     *)
HostKeepsItsChain ==
  InUse(Entry) =>
    /\ Chained(host)
    /\ \A entry \in past : entry.pins.pins.release <= host[Entry].pins.pins.release

(* What the module comments of remote.rs and publish.rs claim of the       *)
(* manifest as well: a publish that is interrupted leaves what was served  *)
(* untouched, and nothing is served before what it names.                  *)
HostServesAChain == InUse(Entry) => Chained(host) /\ NamesWhatIsThere(host)

(* remote.rs: "recovery is always forward": after a run that stopped short *)
(* the next one supersedes what was served, and never falls behind it.     *)
RecoveryIsForward ==
  InUse(Entry) => \A entry \in past : entry.version <= host[Entry].version
=============================================================================
