-------------------------- MODULE ChannelTrustProofs ---------------------------
(***************************************************************************)
(* Theorems about the channel, for every bound on versions, release sets,  *)
(* days and faults, and whichever side re-signs: what the host serves, and *)
(* what a client takes from it.                                            *)
(***************************************************************************)
EXTENDS ChannelTrust, SequenceTheorems, TLAPS

(***************************************************************************)
(* The inductive invariant: files, and what each name may hold.            *)
(***************************************************************************)

Versions == 1..MaxVersion
Releases == 0..MaxReleases

(* Every chain ever signed is even: its three roles have one version, as   *)
(* the first chain has and as each commit moves all three by one.          *)
TargetsFile ==
  [role : {"targets"}, version : Versions, release : Releases, expires : Int]
SnapshotFile ==
  {file \in [role : {"snapshot"}, version : Versions, pins : TargetsFile, expires : Int] :
     file.pins.version = file.version}
TimestampFile ==
  {file \in [role : {"timestamp"}, version : Versions, pins : SnapshotFile, expires : Int] :
     file.pins.version = file.version}
ManifestFile == [role : {"manifest"}, version : 1..MaxReleases]

SignedFile == TargetsFile \cup SnapshotFile \cup TimestampFile \cup ManifestFile

(* A name holds nothing, or a file of its role and version. *)
IsRepository(repository) ==
  /\ repository \in [Names -> SignedFile \cup {NoFile}]
  /\ repository[Entry] \in TimestampFile \cup {NoFile}
  /\ \A v \in Versions :
       /\ repository[<<"snapshot", v>>] \in {f \in SnapshotFile : f.version = v} \cup {NoFile}
       /\ repository[<<"targets", v>>] \in {f \in TargetsFile : f.version = v} \cup {NoFile}
  /\ \A r \in 1..MaxReleases : repository[<<"manifest", r>>] \in {Manifest(r), NoFile}

(***************************************************************************)
(* The inductive invariant: a run and what it has done so far.             *)
(***************************************************************************)

Chain(timestamp) == <<timestamp.pins.pins, timestamp.pins, timestamp>>
Whole(timestamp) ==
  <<Manifest(timestamp.pins.pins.release), timestamp.pins.pins, timestamp.pins, timestamp>>

RunType ==
  [pc : {"idle", "write", "pulled", "push", "rename"}, who : {"workspace", "job"},
   files : Seq(SignedFile), i : Nat, pushes : BOOLEAN]

UnderWay == run.pc \in {"write", "push", "rename"}

Carries(timestamp) ==
  \/ run.files = Chain(timestamp)
  \/ run.files = Whole(timestamp) /\ timestamp.pins.pins.release # 0

(* What the directories hold and what a run carries are whole chains of    *)
(* signed files, whoever wrote them and wherever a run died.               *)
TypesInv ==
  /\ now \in Nat /\ released \in Releases
  /\ IsRepository(host) /\ past \subseteq TimestampFile
  /\ local \in [{"workspace", "job"} -> [Names -> SignedFile \cup {NoFile}]]
  /\ IsRepository(local.workspace) /\ IsRepository(local.job)
  /\ run \in RunType
  /\ UnderWay => /\ run.i \in 1..Len(run.files)
                 /\ \E timestamp \in TimestampFile : Carries(timestamp)

(* A pull writes the chain the host serves.  What is pushed is newer than  *)
(* what the host serves, and a release set comes with its manifest.        *)
RunsFor(timestamp) ==
  \/ /\ ~run.pushes /\ run.pc = "write" /\ run.files = Chain(timestamp)
     /\ host[Entry] = timestamp
  \/ /\ run.pushes /\ (InUse(Entry) => host[Entry].version < timestamp.version)
     /\ \/ run.files = Chain(timestamp)
        \/ run.files = Whole(timestamp) /\ timestamp.pins.pins.release # 0

(* The files before the run's next are where the run puts them. *)
Placed ==
  /\ run.pc = "write" =>
       \A j \in 1..(run.i - 1) : local[run.who][Name(run.files[j])] = run.files[j]
  /\ run.pc \in {"push", "rename"} =>
       \A j \in 1..(run.i - 1) : host[Name(run.files[j])] = run.files[j]

(* What the job is to re-sign is what the host serves. *)
PulledIsServed ==
  run.pc = "pulled" =>
    /\ run.who = "job" /\ InUse(Entry)
    /\ \A j \in 1..3 : local.job[Name(Chain(host[Entry])[j])] = Chain(host[Entry])[j]

HostInv ==
  /\ UnderWay => \E timestamp \in TimestampFile : RunsFor(timestamp)
  /\ Placed /\ PulledIsServed
  /\ InUse(Entry) => Chained(host)

(***************************************************************************)
(* The inductive invariant: the client.                                    *)
(***************************************************************************)

FloorType == [timestamp : Int, snapshot : Int, targets : Int, verified_at : Int]
Fields    == {"timestamp", "snapshot", "targets", "verified_at"}
ChainType == [timestamp : SignedFile \cup {NoFile}, snapshot : SignedFile \cup {NoFile},
              targets : SignedFile \cup {NoFile}]
Checking  == {"timestamp", "snapshot", "targets", "floor", "target"}

ClientTypes ==
  /\ floor \in FloorType /\ accepted.floor \in FloorType
  /\ store \in ChainType /\ store.timestamp \in TimestampFile \cup {NoFile}
  /\ client \in [pc : {"idle"} \cup Checking, at : Nat, chain : ChainType]
  /\ client.pc \in {"snapshot", "targets", "floor", "target"} =>
       client.chain.timestamp \in TimestampFile
  /\ client.pc \in {"targets", "floor", "target"} => client.chain.snapshot \in SnapshotFile
  /\ client.pc \in {"floor", "target"} => client.chain.targets \in TargetsFile

(* Whatever order the checks and the faults came in, the floor on disk is  *)
(* no lower than what was accepted, no later than the check under way, and *)
(* exactly the chain that a check is about to name.                        *)
TrustInv ==
  /\ ClientTypes
  /\ client.pc # "idle" => floor.verified_at <= client.at
  /\ client.pc = "target" => floor = FloorOf(client.chain, client.at)
  /\ \A field \in Fields : accepted.floor[field] <= floor[field]

(***************************************************************************)
(* The inductive invariant: what was ever served.                          *)
(***************************************************************************)

ReleaseOf(timestamp) == timestamp.pins.pins.release

Served == {entry.version : entry \in past}

(* Every version above this one and up to the newest was served.           *)
Gapless(version) ==
  \A entry \in past : \A v \in Versions : version < v /\ v <= entry.version => v \in Served

(* The chain that a run pushes is the next of what the workspace has and   *)
(* of what was served since.  Its version was served before, or all that   *)
(* was served is older.                                                    *)
Follows(timestamp) ==
  /\ ReleaseOf(timestamp) <= released /\ Gapless(timestamp.version)
  /\ \A v \in Versions :
       local.workspace[Entry].version < v /\ v < timestamp.version => v \in Served
  /\ \/ timestamp.version \in Served
     \/ \A entry \in past : entry.version < timestamp.version

(* A chain that is no older names no older a release set, except one whose *)
(* version came to be served twice.                                        *)
Doubled ==
  \A one, other \in past : one.version <= other.version =>
     \/ ReleaseOf(one) <= ReleaseOf(other)
     \/ \E twin \in past : twin.version = one.version /\ twin # one

PastInv ==
  /\ \A entry \in past : ReleaseOf(entry) <= released
  /\ Gapless(local.workspace[Entry].version)
  /\ InUse(Entry) => host[Entry] \in past /\ Gapless(host[Entry].version)
  /\ UnderWay /\ run.pushes => Follows(run.files[Len(run.files)])
  /\ Doubled

(***************************************************************************)
(* The inductive invariant: the newest release set.                        *)
(***************************************************************************)

Newest(release) == \A entry \in past : ReleaseOf(entry) <= release

(* The release set of the chain in force in the workspace.                 *)
InForceName == <<"targets", local.workspace[Entry].version>>
InForceSet  == local.workspace[InForceName].release

Last == run.files[Len(run.files)]

(* Nothing ever served was newer than what the workspace has, than what    *)
(* the host serves, or than what a run pushes; what a run has begun to     *)
(* push, the workspace has, or something newer.                            *)
LatestInv ==
  /\ local.workspace[Entry] # NoFile /\ local.workspace[InForceName] # NoFile
  /\ InForceSet <= released /\ Newest(InForceSet)
  /\ InUse(Entry) => Newest(ReleaseOf(host[Entry]))
  /\ UnderWay /\ run.pushes =>
       /\ Newest(ReleaseOf(Last))
       /\ run.who = "job" \/ run.pc # "write" => ReleaseOf(Last) <= InForceSet

(* What a check has, keeps and names is of a chain that was served.        *)
NamedInv ==
  /\ store.timestamp \in past \cup {NoFile}
  /\ client.pc \in {"snapshot", "targets", "floor", "target"} => client.chain.timestamp \in past
  /\ client.pc \in {"targets", "floor", "target"} =>
       client.chain.snapshot = client.chain.timestamp.pins
  /\ client.pc \in {"floor", "target"} => client.chain.targets = client.chain.snapshot.pins
  /\ accepted.release # 0 =>
       \E entry \in past : /\ entry.version = accepted.floor.timestamp
                           /\ ReleaseOf(entry) = accepted.release

(***************************************************************************)
(* Lemmas about files, names and repositories.                             *)
(***************************************************************************)

(* What the four roles of file are, and the name each is published under.  *)
LEMMA FileFact ==
  /\ \A f \in TargetsFile :
       /\ f.role = "targets" /\ f.version \in Versions /\ f.release \in Releases
       /\ Name(f) = <<"targets", f.version>>
  /\ \A f \in SnapshotFile :
       /\ f.role = "snapshot" /\ f.version \in Versions /\ f.pins \in TargetsFile
       /\ f.pins.version = f.version /\ Name(f) = <<"snapshot", f.version>>
  /\ \A f \in TimestampFile :
       /\ f.role = "timestamp" /\ f.version \in Versions /\ f.pins \in SnapshotFile
       /\ f.pins.version = f.version /\ Name(f) = Entry
  /\ \A f \in ManifestFile :
       /\ f.role = "manifest" /\ f.version \in 1..MaxReleases
       /\ f = Manifest(f.version) /\ Name(f) = <<"manifest", f.version>>
  /\ NoFile \notin SignedFile
<1>1. \A f \in TargetsFile :
        /\ f.role = "targets" /\ f.version \in Versions /\ f.release \in Releases
        /\ Name(f) = <<"targets", f.version>>
  BY DEF TargetsFile, Name
<1>2. \A f \in SnapshotFile :
        /\ f.role = "snapshot" /\ f.version \in Versions /\ f.pins \in TargetsFile
        /\ f.pins.version = f.version /\ Name(f) = <<"snapshot", f.version>>
  BY DEF SnapshotFile, Name
<1>3. \A f \in TimestampFile :
        /\ f.role = "timestamp" /\ f.version \in Versions /\ f.pins \in SnapshotFile
        /\ f.pins.version = f.version /\ Name(f) = Entry
  BY DEF TimestampFile, Name
<1>4. \A f \in ManifestFile :
        /\ f.role = "manifest" /\ f.version \in 1..MaxReleases
        /\ f = Manifest(f.version) /\ Name(f) = <<"manifest", f.version>>
  BY DEF ManifestFile, Name, Manifest
<1>5. NoFile.role = "none"
  BY DEF NoFile
<1>6. QED
  BY <1>1, <1>2, <1>3, <1>4, <1>5 DEF SignedFile

(* Names of different roles, or of different versions, are different.      *)
LEMMA NameFact ==
  /\ Entry \in Names
  /\ \A v \in Versions : <<"snapshot", v>> \in Names /\ <<"targets", v>> \in Names
  /\ \A r \in 1..MaxReleases : <<"manifest", r>> \in Names
  /\ \A v, r : /\ <<"snapshot", v>> # Entry /\ <<"targets", v>> # Entry
               /\ <<"manifest", r>> # Entry /\ <<"snapshot", v>> # <<"targets", r>>
               /\ <<"snapshot", v>> # <<"manifest", r>>
               /\ <<"targets", v>> # <<"manifest", r>>
               /\ v # r => /\ <<"snapshot", v>> # <<"snapshot", r>>
                           /\ <<"targets", v>> # <<"targets", r>>
                           /\ <<"manifest", v>> # <<"manifest", r>>
  BY DEF Names, Entry, Versions

(* What is published under a name has the name's role and version.         *)
LEMMA PublishedFact ==
  ASSUME NEW file \in SignedFile
  PROVE  /\ Name(file) \in Names
         /\ Name(file) = Entry => file \in TimestampFile
         /\ \A v : /\ Name(file) = <<"snapshot", v>> => file \in SnapshotFile /\ file.version = v
                   /\ Name(file) = <<"targets", v>> => file \in TargetsFile /\ file.version = v
                   /\ Name(file) = <<"manifest", v>> => file = Manifest(v)
<1>1. CASE file \in TargetsFile
  <2>1. Name(file) = <<"targets", file.version>> /\ file.version \in Versions
    BY <1>1, FileFact
  <2>2. \A v : Name(file) = <<"targets", v>> => v = file.version
    BY <2>1, NameFact
  <2>3. Name(file) # Entry /\ \A v : /\ Name(file) # <<"snapshot", v>>
                                   /\ Name(file) # <<"manifest", v>>
    BY <2>1, NameFact
  <2>4. Name(file) \in Names
    BY <2>1, NameFact
  <2>5. QED
    BY <1>1, <2>2, <2>3, <2>4
<1>2. CASE file \in SnapshotFile
  <2>1. Name(file) = <<"snapshot", file.version>> /\ file.version \in Versions
    BY <1>2, FileFact
  <2>2. \A v : Name(file) = <<"snapshot", v>> => v = file.version
    BY <2>1, NameFact
  <2>3. Name(file) # Entry /\ \A v : /\ Name(file) # <<"targets", v>>
                                   /\ Name(file) # <<"manifest", v>>
    BY <2>1, NameFact
  <2>4. Name(file) \in Names
    BY <2>1, NameFact
  <2>5. QED
    BY <1>2, <2>2, <2>3, <2>4
<1>3. CASE file \in TimestampFile
  <2>1. Name(file) = Entry
    BY <1>3, FileFact
  <2>2. \A v : /\ Name(file) # <<"snapshot", v>> /\ Name(file) # <<"targets", v>>
              /\ Name(file) # <<"manifest", v>>
    BY <2>1, NameFact
  <2>3. QED
    BY <1>3, <2>1, <2>2, NameFact
<1>4. CASE file \in ManifestFile
  <2>1. /\ Name(file) = <<"manifest", file.version>> /\ file = Manifest(file.version)
        /\ file.version \in 1..MaxReleases
    BY <1>4, FileFact
  <2>2. QED
    BY <2>1, NameFact
<1>5. QED
  BY <1>1, <1>2, <1>3, <1>4 DEF SignedFile

(* A file replaced in a repository changes its own name and no other.      *)
LEMMA HoldingFact ==
  ASSUME NEW repository, IsRepository(repository), NEW file \in SignedFile
  PROVE  /\ IsRepository(Holding(repository, file))
         /\ Name(file) \in Names /\ Holding(repository, file)[Name(file)] = file
         /\ \A name \in Names : name # Name(file) =>
              Holding(repository, file)[name] = repository[name]
<1> DEFINE new == Holding(repository, file)
<1>1. Name(file) \in Names
  BY PublishedFact
<1>2. /\ new \in [Names -> SignedFile \cup {NoFile}] /\ new[Name(file)] = file
      /\ \A name \in Names : name # Name(file) => new[name] = repository[name]
  BY <1>1 DEF Holding, IsRepository
<1> HIDE DEF new
<1>3. new[Entry] \in TimestampFile \cup {NoFile}
  BY <1>2, PublishedFact, NameFact DEF IsRepository
<1>4. ASSUME NEW v \in Versions
      PROVE  new[<<"snapshot", v>>] \in {f \in SnapshotFile : f.version = v} \cup {NoFile}
  <2>1. CASE Name(file) = <<"snapshot", v>>
    BY <1>2, <2>1, PublishedFact
  <2>2. QED
    BY <1>2, <2>1, NameFact DEF IsRepository
<1>5. ASSUME NEW v \in Versions
      PROVE  new[<<"targets", v>>] \in {f \in TargetsFile : f.version = v} \cup {NoFile}
  <2>1. CASE Name(file) = <<"targets", v>>
    BY <1>2, <2>1, PublishedFact
  <2>2. QED
    BY <1>2, <2>1, NameFact DEF IsRepository
<1>6. ASSUME NEW r \in 1..MaxReleases
      PROVE  new[<<"manifest", r>>] \in {Manifest(r), NoFile}
  <2>1. CASE Name(file) = <<"manifest", r>>
    BY <1>2, <2>1, PublishedFact
  <2>2. QED
    BY <1>2, <2>1, NameFact DEF IsRepository
<1>7. IsRepository(new)
  BY <1>2, <1>3, <1>4, <1>5, <1>6 DEF IsRepository
<1>8. QED
  BY <1>1, <1>2, <1>7 DEF new

(* So does one that is dropped.                                            *)
LEMMA DroppingFact ==
  ASSUME NEW repository, IsRepository(repository), NEW name \in Names
  PROVE  IsRepository([repository EXCEPT ![name] = NoFile])
  BY DEF IsRepository

(* The chain that a commit writes over a repository: even, one version up, *)
(* each role pinned by the next.                                           *)
LEMMA CommitFact ==
  ASSUME NEW repository, IsRepository(repository), CanRead(repository),
         NEW release \in Releases, NEW day \in Nat,
         FitsBound(Commit(repository, release, day))
  PROVE  \E timestamp \in TimestampFile :
           /\ Commit(repository, release, day) = Chain(timestamp)
           /\ timestamp.version = repository[Entry].version + 1
           /\ timestamp.pins.pins.release = release
<1> DEFINE version   == repository[Entry].version + 1
           targets   == Targets(version, release, day)
           snapshot  == Snapshot(version, targets, day)
           timestamp == Timestamp(version, snapshot, day)
<1>1. repository[Entry] \in TimestampFile
  BY DEF IsRepository, CanRead
<1>2. /\ SnapshotOf(repository) \in SnapshotFile
      /\ SnapshotOf(repository).version = repository[Entry].version
  BY <1>1, FileFact DEF IsRepository, CanRead, SnapshotOf
<1>3. SnapshotOf(repository).pins.version + 1 = version /\ version \in Nat \ {0}
  BY <1>1, <1>2, FileFact DEF Versions
<1>4. Commit(repository, release, day) = <<targets, snapshot, timestamp>>
  BY <1>2, <1>3 DEF Commit
<1>5. version <= MaxVersion
  <2>1. Commit(repository, release, day)[1].version = version
    BY <1>4 DEF Targets
  <2>2. 1 \in DOMAIN Commit(repository, release, day)
    BY <1>4
  <2>3. QED
    BY <2>1, <2>2 DEF FitsBound
<1>6. version \in Versions
  BY <1>3, <1>5, ChainAssumption DEF Versions
<1>7. day + LongDays \in Int /\ day + TimestampDays \in Int
  BY ChainAssumption
<1> HIDE DEF version
<1>8. targets \in TargetsFile /\ targets.version = version /\ targets.release = release
  BY <1>6, <1>7 DEF Targets, TargetsFile
<1> HIDE DEF targets
<1>9. snapshot \in SnapshotFile /\ snapshot.version = version /\ snapshot.pins = targets
  BY <1>6, <1>7, <1>8 DEF Snapshot, SnapshotFile
<1> HIDE DEF snapshot
<1>10. /\ timestamp \in TimestampFile /\ timestamp.version = version
       /\ timestamp.pins = snapshot
  BY <1>6, <1>7, <1>9 DEF Timestamp, TimestampFile
<1> HIDE DEF timestamp
<1>11. QED
  BY <1>4, <1>8, <1>9, <1>10 DEF Chain, version

(***************************************************************************)
(* Files and runs stay well formed.                                        *)
(***************************************************************************)

(* What a run carries are signed files, the timestamp last.                *)
LEMMA CarriedFact ==
  ASSUME NEW timestamp \in TimestampFile
  PROVE  /\ timestamp \in SignedFile /\ timestamp.pins \in SignedFile
         /\ timestamp.pins.pins \in SignedFile
         /\ Chain(timestamp) \in Seq(SignedFile) /\ Len(Chain(timestamp)) = 3
         /\ timestamp.pins.pins.release # 0 =>
              /\ Manifest(timestamp.pins.pins.release) \in SignedFile
              /\ Whole(timestamp) \in Seq(SignedFile) /\ Len(Whole(timestamp)) = 4
<1>1. /\ timestamp \in SignedFile /\ timestamp.pins \in SignedFile
      /\ timestamp.pins.pins \in SignedFile
  BY FileFact DEF SignedFile
<1>2. ASSUME timestamp.pins.pins.release # 0
      PROVE  Manifest(timestamp.pins.pins.release) \in SignedFile
  <2>1. timestamp.pins.pins.release \in 1..MaxReleases
    BY <1>2, FileFact DEF Releases
  <2>2. QED
    BY <2>1 DEF Manifest, ManifestFile, SignedFile
<1>3. Chain(timestamp) \in Seq(SignedFile) /\ Len(Chain(timestamp)) = 3
  BY <1>1 DEF Chain
<1>4. ASSUME timestamp.pins.pins.release # 0
      PROVE  Whole(timestamp) \in Seq(SignedFile) /\ Len(Whole(timestamp)) = 4
  BY <1>1, <1>2, <1>4 DEF Whole
<1>5. QED
  BY <1>1, <1>2, <1>3, <1>4

(* A manifest before a chain is a whole release set.                       *)
LEMMA WholeFact ==
  ASSUME NEW timestamp
  PROVE  <<Manifest(timestamp.pins.pins.release)>> \o Chain(timestamp) = Whole(timestamp)
<1>1. ASSUME NEW a, NEW b, NEW c, NEW d PROVE <<a>> \o <<b, c, d>> = <<a, b, c, d>>
  <2> DEFINE S == {a, b, c, d}
  <2>1. /\ <<a>> \in Seq(S) /\ Len(<<a>>) = 1
        /\ <<b, c, d>> \in Seq(S) /\ Len(<<b, c, d>>) = 3
        /\ <<a, b, c, d>> \in Seq(S) /\ Len(<<a, b, c, d>>) = 4
    OBVIOUS
  <2>2. /\ <<a>> \o <<b, c, d>> \in Seq(S) /\ Len(<<a>> \o <<b, c, d>>) = 4
        /\ \A i \in 1..4 : (<<a>> \o <<b, c, d>>)[i] = IF i <= 1 THEN <<a>>[i]
                                                       ELSE <<b, c, d>>[i - 1]
    BY <2>1, ConcatProperties
  <2>3. \A i \in 1..4 : (<<a>> \o <<b, c, d>>)[i] = <<a, b, c, d>>[i]
    BY <2>2
  <2>4. QED
    BY <2>1, <2>2, <2>3, SeqEqual
<1>2. QED
  BY <1>1 DEF Chain, Whole

(* The file a run is at is one of them.                                    *)
LEMMA FileAtFact ==
  ASSUME TypesInv, UnderWay
  PROVE  File \in SignedFile /\ run.i \in 1..Len(run.files)
  BY DEF TypesInv, RunType, File

(* A run that starts is at the first of its files.                         *)
LEMMA RunOfFact ==
  ASSUME NEW who \in {"workspace", "job"}, NEW files \in Seq(SignedFile),
         NEW pushes \in BOOLEAN, run' = RunOf(who, files, pushes)
  PROVE  /\ run' \in RunType /\ run'.pc = "write" /\ run'.who = who /\ run'.files = files
         /\ run'.i = 1 /\ run'.pushes = pushes
  BY DEF RunOf, RunType

(* No run is one, idle or pulled.                                          *)
LEMMA RunTypeFact ==
  /\ NoRun \in RunType /\ NoRun.pc = "idle"
  /\ [NoRun EXCEPT !.pc = "pulled", !.who = "job"] \in RunType
  /\ [NoRun EXCEPT !.pc = "pulled", !.who = "job"].pc = "pulled"
  /\ [NoRun EXCEPT !.pc = "pulled", !.who = "job"].who = "job"
<1>1. NoRun \in RunType /\ NoRun.pc = "idle"
  BY DEF NoRun, RunType
<1>2. ASSUME NEW r \in RunType
      PROVE  /\ [r EXCEPT !.pc = "pulled", !.who = "job"] \in RunType
             /\ [r EXCEPT !.pc = "pulled", !.who = "job"].pc = "pulled"
             /\ [r EXCEPT !.pc = "pulled", !.who = "job"].who = "job"
  BY DEF RunType
<1>3. QED
  BY <1>1, <1>2

(* A run that has written all its files carries them on to the host.       *)
LEMMA PushFact ==
  ASSUME run \in RunType, NEW pushing, pushing = [run EXCEPT !.pc = "push", !.i = 1]
  PROVE  /\ pushing \in RunType /\ pushing.pc = "push" /\ pushing.i = 1
         /\ pushing.who = run.who /\ pushing.files = run.files
         /\ pushing.pushes = run.pushes
  BY DEF RunType

(* A run that goes on carries the same files to the same place.            *)
LEMMA AdvanceFact ==
  ASSUME TypesInv, UnderWay, NEW next \in {"write", "push"}, NEW done, Advance(next, done)
  PROVE  \/ run.i = Len(run.files) /\ run' = done
         \/ /\ run' \in RunType /\ run'.pc = next /\ run'.who = run.who
            /\ run'.files = run.files /\ run'.pushes = run.pushes
            /\ run'.i = run.i + 1 /\ run'.i \in 1..Len(run.files)
<1>1. run \in RunType /\ run.i \in 1..Len(run.files) /\ Len(run.files) \in Nat
  BY DEF TypesInv, RunType
<1>2. CASE run.i < Len(run.files)
  <2>1. run' = [run EXCEPT !.pc = next, !.i = run.i + 1]
    BY <1>2 DEF Advance
  <2>2. run.i + 1 \in Nat /\ run.i + 1 \in 1..Len(run.files)
    BY <1>1, <1>2
  <2>3. QED
    BY <1>1, <2>1, <2>2 DEF RunType
<1>3. CASE ~(run.i < Len(run.files))
  BY <1>1, <1>3 DEF Advance
<1>4. QED
  BY <1>2, <1>3

(* The first chain is a repository; nothing is one.                        *)
LEMMA FirstFact ==
  /\ IsRepository(Nothing) /\ IsRepository(FirstChain)
  /\ FirstChain[Entry] \in TimestampFile
  /\ FirstChain[Entry].pins.pins.release = 0
  /\ \E timestamp \in TimestampFile :
       /\ FirstChain[Entry] = timestamp
       /\ FirstChain[Name(timestamp.pins)] = timestamp.pins
       /\ FirstChain[Name(timestamp.pins.pins)] = timestamp.pins.pins
<1> DEFINE targets   == Targets(1, 0, 0)
           snapshot  == Snapshot(1, targets, 0)
           timestamp == Timestamp(1, snapshot, 0)
           first     == Holding(Nothing, targets)
           second    == Holding(first, snapshot)
<1>1. IsRepository(Nothing)
  BY NameFact DEF Nothing, IsRepository
<1>2. 1 \in Versions /\ 0 \in Releases /\ 0 + LongDays \in Int /\ 0 + TimestampDays \in Int
  BY ChainAssumption DEF Versions, Releases
<1>3. targets \in TargetsFile /\ targets.version = 1 /\ targets.release = 0
  BY <1>2 DEF Targets, TargetsFile
<1> HIDE DEF targets
<1>4. snapshot \in SnapshotFile /\ snapshot.pins = targets
  BY <1>2, <1>3 DEF Snapshot, SnapshotFile
<1>5. snapshot.version = 1
  BY DEF Snapshot
<1> HIDE DEF snapshot
<1>6. timestamp \in TimestampFile /\ timestamp.pins = snapshot
  BY <1>2, <1>4, <1>5 DEF Timestamp, TimestampFile
<1> HIDE DEF timestamp
<1>7. FirstChain = Holding(second, timestamp)
  BY DEF FirstChain, first, second, targets, snapshot, timestamp
<1>8. IsRepository(first) /\ first[Name(targets)] = targets
  BY <1>1, <1>3, HoldingFact DEF SignedFile
<1> HIDE DEF first
<1>9. Name(targets) # Name(snapshot) /\ Name(targets) # Entry /\ Name(snapshot) # Entry
  BY <1>3, <1>4, FileFact, NameFact
<1>10. /\ IsRepository(second) /\ second[Name(snapshot)] = snapshot
       /\ second[Name(targets)] = targets
  BY <1>3, <1>4, <1>8, <1>9, HoldingFact, PublishedFact DEF SignedFile
<1> HIDE DEF second
<1>11. /\ IsRepository(FirstChain) /\ FirstChain[Entry] = timestamp
       /\ FirstChain[Name(snapshot)] = snapshot /\ FirstChain[Name(targets)] = targets
  <2>1. Name(timestamp) = Entry /\ timestamp \in SignedFile
    BY <1>6, FileFact DEF SignedFile
  <2>2. Name(targets) \in Names /\ Name(snapshot) \in Names
    BY <1>3, <1>4, PublishedFact DEF SignedFile
  <2>3. QED
    BY <1>7, <1>9, <1>10, <2>1, <2>2, HoldingFact
<1>12. QED
  BY <1>1, <1>3, <1>4, <1>6, <1>11

LEMMA InitTypes == Init => TypesInv
<1> SUFFICES ASSUME Init PROVE TypesInv
  OBVIOUS
<1> USE DEF Init, InitPublishing
<1>1. run \in RunType /\ ~UnderWay
  BY DEF NoRun, RunType, UnderWay
<1>2. /\ local \in [{"workspace", "job"} -> [Names -> SignedFile \cup {NoFile}]]
      /\ IsRepository(local.workspace) /\ IsRepository(local.job)
  BY FirstFact DEF IsRepository
<1>3. QED
  BY <1>1, <1>2, FirstFact, ChainAssumption DEF TypesInv, Releases

(* Starting a run writes nothing, and gives it files that are signed.      *)
LEMMA StartTypes ==
  ASSUME TypesInv, Start
  PROVE  TypesInv'
<1> USE DEF TypesInv
<1>1. ASSUME NEW who \in {"workspace", "job"}, NEW timestamp \in TimestampFile,
             NEW pushes \in BOOLEAN, run' = RunOf(who, Chain(timestamp), pushes),
             UNCHANGED <<now, host, past, local>>, released' \in Releases
      PROVE  TypesInv'
  <2>1. run' \in RunType /\ run'.files = Chain(timestamp) /\ run'.i = 1
    BY <1>1, CarriedFact, RunOfFact
  <2>2. run'.i \in 1..Len(run'.files)
    <3>1. Len(run'.files) = 3
      BY <2>1, CarriedFact
    <3>2. QED
      BY <2>1, <3>1
  <2>3. QED
    BY <1>1, <2>1, <2>2 DEF Carries
<1>2. ASSUME NEW who \in {"workspace", "job"}, Pull(who) PROVE TypesInv'
  <2>1. host[Entry] \in TimestampFile
    BY <1>2 DEF Pull, Verifies, Chained, IsRepository
  <2>2. run' = RunOf(who, Chain(host[Entry]), FALSE)
    BY <1>2 DEF Pull, Chain
  <2>3. QED
    BY <1>1, <1>2, <2>1, <2>2 DEF Pull
<1>3. ASSUME NEW who \in {"workspace", "job"}, Resign(who) PROVE TypesInv'
  <2> DEFINE release == TargetsOf(local[who]).release
  <2>1. IsRepository(local[who]) /\ CanRead(local[who])
    BY <1>3 DEF Resign
  <2>2. release \in Releases
    <3>1. local[who][Entry] \in TimestampFile
      BY <2>1 DEF CanRead, IsRepository
    <3>2. SnapshotOf(local[who]) \in SnapshotFile
      BY <2>1, <3>1, FileFact DEF CanRead, IsRepository, SnapshotOf
    <3>3. TargetsOf(local[who]) \in TargetsFile
      BY <2>1, <3>2, FileFact DEF CanRead, IsRepository, TargetsOf
    <3>4. QED
      BY <3>3, FileFact
  <2>3. FitsBound(Commit(local[who], release, now))
    BY <1>3 DEF Resign
  <2>4. PICK timestamp \in TimestampFile :
          Commit(local[who], release, now) = Chain(timestamp)
    BY <2>1, <2>2, <2>3, CommitFact
  <2>5. run' = RunOf(who, Chain(timestamp), TRUE) /\ UNCHANGED <<now, host, past, local, released>>
    BY <1>3, <2>4 DEF Resign
  <2>6. QED
    BY <1>1, <2>5
<1>4. ASSUME NEW release \in 1..MaxReleases, Publish(release) PROVE TypesInv'
  <2>1. release \in Releases /\ release # 0
    BY ChainAssumption DEF Releases
  <2>2. PICK timestamp \in TimestampFile :
          /\ Commit(local.workspace, release, now) = Chain(timestamp)
          /\ timestamp.pins.pins.release = release
    BY <1>4, <2>1, CommitFact DEF Publish
  <2>3. <<Manifest(release)>> \o Chain(timestamp) = Whole(timestamp)
    BY <2>2, WholeFact
  <2>4. /\ run' = RunOf("workspace", Whole(timestamp), TRUE)
        /\ released' = release /\ UNCHANGED <<now, host, past, local>>
    BY <1>4, <2>2, <2>3 DEF Publish
  <2>5. run' \in RunType /\ run'.files = Whole(timestamp) /\ run'.i = 1
    BY <2>1, <2>2, <2>4, CarriedFact, RunOfFact
  <2>6. run'.i \in 1..Len(run'.files)
    <3>1. Len(run'.files) = 4
      BY <2>1, <2>2, <2>5, CarriedFact
    <3>2. QED
      BY <2>5, <3>1
  <2>7. QED
    BY <2>1, <2>2, <2>4, <2>5, <2>6 DEF Carries
<1>5. QED
  BY <1>2, <1>3, <1>4 DEF Start

(* Serving a file keeps the host, and a run that ends leaves the job none. *)
LEMMA ServesTypes ==
  ASSUME TypesInv, UnderWay, Serves(File)
  PROVE  TypesInv'
<1> USE DEF TypesInv
<1>1. File \in SignedFile
  BY FileAtFact
<1>2. IsRepository(host')
  BY <1>1, HoldingFact DEF Serves
<1>3. past' \subseteq TimestampFile
  BY <1>1, PublishedFact DEF Serves
<1>4. /\ local' \in [{"workspace", "job"} -> [Names -> SignedFile \cup {NoFile}]]
      /\ IsRepository(local'.workspace) /\ IsRepository(local'.job)
  <2>1. local' = local \/ local' = [local EXCEPT !.job = Nothing]
    BY DEF Serves, Kept
  <2>2. QED
    BY <2>1, FirstFact DEF IsRepository
<1>5. NoRun \in RunType /\ NoRun.pc = "idle"
  BY RunTypeFact
<1>6. /\ run' \in RunType
      /\ UnderWay' => /\ run'.i \in 1..Len(run'.files) /\ run'.files = run.files
  BY <1>5, AdvanceFact DEF Serves, UnderWay
<1>7. QED
  BY <1>2, <1>3, <1>4, <1>6 DEF Serves, Carries

(* Every step keeps what directories hold and what a run carries.          *)
LEMMA StepTypes ==
  ASSUME TypesInv, [Next]_vars
  PROVE  TypesInv'
<1> USE DEF TypesInv
<1>1. ASSUME UNCHANGED held PROVE TypesInv'
  BY <1>1 DEF held, UnderWay, Carries
<1>2. CASE Check \/ CutOff \/ StoreLost \/ UNCHANGED vars
  BY <1>1, <1>2 DEF Check, CutOff, StoreLost, vars, Begin, FetchTimestamp, FetchStale,
     FetchEntry, FetchSnapshot, FetchTargets, RefreshFails, RaiseFloor, Resolve, Takes,
     publishing, held
<1>3. CASE Start
  BY <1>3, StartTypes
<1>4. CASE Write
  <2>1. UnderWay /\ run.pc = "write"
    BY <1>4 DEF Write, UnderWay
  <2>2. IsRepository(Holding(local[run.who], File)) /\ run.who \in {"workspace", "job"}
    BY <2>1, FileAtFact, HoldingFact DEF RunType
  <2>3. /\ local' \in [{"workspace", "job"} -> [Names -> SignedFile \cup {NoFile}]]
        /\ IsRepository(local'.workspace) /\ IsRepository(local'.job)
    BY <1>4, <2>2 DEF Write, IsRepository
  <2> DEFINE done == IF run.pushes THEN [run EXCEPT !.pc = "push", !.i = 1]
                     ELSE IF run.who = "job"
                          THEN [NoRun EXCEPT !.pc = "pulled", !.who = "job"] ELSE NoRun
  <2>4. run' = done =>
          /\ run' \in RunType
          /\ UnderWay' => /\ run'.files = run.files /\ run'.i \in 1..Len(run'.files)
    <3>1. Len(run.files) \in Nat /\ run.i \in 1..Len(run.files) /\ 1 \in 1..Len(run.files)
      BY <2>1, FileAtFact DEF RunType
    <3>2. CASE run.pushes
      <4>1. done = [run EXCEPT !.pc = "push", !.i = 1]
        BY <3>2
      <4>2. done \in RunType /\ done.files = run.files /\ done.i = 1
        <5>1. run \in RunType
          OBVIOUS
        <5> HIDE DEF done, TypesInv
        <5>2. QED
          BY <4>1, <5>1, PushFact
      <4>3. QED
        BY <3>1, <4>2
    <3>3. CASE ~run.pushes
      <4>1. done \in RunType /\ done.pc \in {"idle", "pulled"}
        BY <3>3, RunTypeFact
      <4>2. QED
        BY <4>1 DEF UnderWay
    <3>4. QED
      BY <3>2, <3>3
  <2>5. Advance("write", done)
    BY <1>4 DEF Write
  <2> HIDE DEF done
  <2>6. /\ run' \in RunType
        /\ UnderWay' => /\ run'.files = run.files /\ run'.i \in 1..Len(run'.files)
    BY <2>1, <2>4, <2>5, AdvanceFact
  <2>7. UNCHANGED <<now, host, past, released>>
    BY <1>4 DEF Write
  <2>8. QED
    BY <2>1, <2>3, <2>6, <2>7 DEF Carries
<1>5. CASE Upload \/ Rename
  BY <1>5, ServesTypes DEF Upload, Rename, UnderWay
<1>6. CASE DropOld
  <2>1. UnderWay /\ Name(File) \in Names
    BY <1>6, FileAtFact, PublishedFact DEF DropOld, UnderWay
  <2>2. IsRepository(host')
    BY <1>6, <2>1, DroppingFact DEF DropOld
  <2>3. /\ run' \in RunType /\ run'.files = run.files /\ run'.i = run.i
    BY <1>6 DEF DropOld, RunType
  <2>4. QED
    BY <1>6, <2>1, <2>2, <2>3 DEF DropOld, Carries
<1>7. CASE Die
  <2>1. run' \in RunType /\ ~UnderWay'
    BY <1>7 DEF Die, NoRun, RunType, UnderWay
  <2>2. local' = local \/ local' = [local EXCEPT !.job = Nothing]
    BY <1>7 DEF Die, Kept
  <2>3. /\ local' \in [{"workspace", "job"} -> [Names -> SignedFile \cup {NoFile}]]
        /\ IsRepository(local'.workspace) /\ IsRepository(local'.job)
    BY <2>2, FirstFact DEF IsRepository
  <2>4. QED
    BY <1>7, <2>1, <2>3 DEF Die
<1>8. CASE NextDay
  BY <1>8 DEF NextDay, UnderWay, Carries
<1>9. QED
  BY <1>2, <1>3, <1>4, <1>5, <1>6, <1>7, <1>8
     DEF Next, PublisherStep, Publishing, Proceed

(***************************************************************************)
(* The client's floor.                                                     *)
(***************************************************************************)

(* An admitted chain raises the floor to itself, never below what it was.  *)
LEMMA RaisedFact ==
  ASSUME NEW limit \in FloorType, NEW offered \in FloorType,
         Admits(limit, offered), limit.verified_at <= offered.verified_at
  PROVE  /\ RaisedTo(limit, offered) = offered
         /\ \A field \in Fields : limit[field] <= offered[field]
<1>1. DOMAIN limit = Fields /\ DOMAIN offered = Fields
  BY DEF FloorType, Fields
<1>2. \A field \in Fields : limit[field] \in Int /\ offered[field] \in Int
  BY DEF FloorType, Fields
<1>3. \A field \in Fields : limit[field] <= offered[field]
  BY DEF Admits, Roles, Fields
<1>4. \A field \in Fields : Highest(limit[field], offered[field]) = offered[field]
  BY <1>2, <1>3 DEF Highest
<1>5. RaisedTo(limit, offered) = [field \in Fields |-> offered[field]]
  BY <1>1, <1>4 DEF RaisedTo
<1>6. offered = [field \in Fields |-> offered[field]]
  BY <1>1 DEF FloorType, Fields
<1>7. QED
  BY <1>3, <1>5, <1>6

(* The floor of a verified chain is a floor.                               *)
LEMMA FloorOfFact ==
  ASSUME ClientTypes, client.pc \in {"floor", "target"}
  PROVE  /\ FloorOf(client.chain, client.at) \in FloorType
         /\ FloorOf(client.chain, client.at).verified_at = client.at
<1>1. /\ client.chain.timestamp.version \in Int /\ client.chain.snapshot.version \in Int
      /\ client.chain.targets.version \in Int /\ client.at \in Int
  BY FileFact DEF ClientTypes, Versions
<1>2. QED
  BY <1>1 DEF FloorOf, FloorType

LEMMA InitTrust == Init => TrustInv
<1> SUFFICES ASSUME Init PROVE TrustInv
  OBVIOUS
<1>1. NoFloor \in FloorType /\ \A field \in Fields : NoFloor[field] <= NoFloor[field]
  BY DEF NoFloor, FloorType, Fields
<1>2. NoChain \in ChainType /\ NoChain.timestamp = NoFile
  BY DEF NoChain, ChainType
<1>3. client.pc = "idle" /\ client \in [pc : {"idle"} \cup Checking, at : Nat, chain : ChainType]
  BY <1>2 DEF Init, Idle
<1>4. QED
  BY <1>1, <1>2, <1>3 DEF Init, TrustInv, ClientTypes

(* A check that ends, however it does, leaves the floor and what was       *)
(* accepted where they were.                                               *)
LEMMA EndsTrust ==
  ASSUME TrustInv, Ends, UNCHANGED <<floor, accepted>>,
         store' = store \/ store' = NoChain
  PROVE  TrustInv'
<1>1. NoChain \in ChainType /\ NoChain.timestamp = NoFile
  BY DEF NoChain, ChainType
<1>2. client'.pc = "idle" /\ client' \in [pc : {"idle"} \cup Checking, at : Nat, chain : ChainType]
  BY <1>1 DEF Ends, Idle
<1>3. QED
  BY <1>1, <1>2 DEF TrustInv, ClientTypes

(* A file taken goes to the chain and to the store, and to no floor.       *)
LEMMA TakesTrust ==
  ASSUME TrustInv, NEW role \in Roles, NEW file, NEW next,
         Takes(role, file, next), client.pc = role,
         \/ role = "timestamp" /\ next = "snapshot" /\ file \in TimestampFile
         \/ role = "snapshot" /\ next = "targets" /\ file \in SnapshotFile
         \/ role = "targets" /\ next = "floor" /\ file \in TargetsFile
  PROVE  TrustInv'
<1> USE DEF TrustInv, ClientTypes
<1>1. file \in SignedFile
  BY DEF SignedFile
<1>2. UNCHANGED <<floor, accepted>>
  BY DEF Takes
<1>3. CASE role = "timestamp"
  <2>1. /\ client' = [client EXCEPT !.pc = "snapshot", !.chain.timestamp = file]
        /\ store' = [store EXCEPT !.timestamp = file]
    BY <1>3 DEF Takes
  <2>2. QED
    BY <1>1, <1>2, <1>3, <2>1 DEF ChainType, Checking
<1>4. CASE role = "snapshot"
  <2>1. /\ client' = [client EXCEPT !.pc = "targets", !.chain.snapshot = file]
        /\ store' = [store EXCEPT !.snapshot = file]
    BY <1>4 DEF Takes
  <2>2. QED
    BY <1>1, <1>2, <1>4, <2>1 DEF ChainType, Checking
<1>5. CASE role = "targets"
  <2>1. /\ client' = [client EXCEPT !.pc = "floor", !.chain.targets = file]
        /\ store' = [store EXCEPT !.targets = file]
    BY <1>5 DEF Takes
  <2>2. QED
    BY <1>1, <1>2, <1>5, <2>1 DEF ChainType, Checking
<1>6. QED
  BY <1>3, <1>4, <1>5 DEF Roles

(* What a refresh takes for a timestamp is one.                            *)
LEMMA FetchTrust ==
  ASSUME TypesInv, TrustInv, NEW entry \in TimestampFile \cup {NoFile}, FetchEntry(entry)
  PROVE  TrustInv'
<1>1. Takes("timestamp", Offered(entry), "snapshot") /\ client.pc = "timestamp"
  BY DEF FetchEntry
<1>2. entry \in TimestampFile
  BY DEF FetchEntry, TakesEntry
<1>3. Offered(entry) \in TimestampFile
  <2>1. entry.version # 0 /\ NoFile.version = 0
    BY <1>2, FileFact DEF Versions, NoFile
  <2>2. CASE entry.version = Trusted("timestamp").version
    <3>1. store.timestamp # NoFile
      BY <2>1, <2>2 DEF Trusted
    <3>2. QED
      BY <2>2, <3>1 DEF Offered, TrustInv, ClientTypes
  <2>3. QED
    BY <1>2, <2>2 DEF Offered
<1>4. QED
  BY <1>1, <1>3, TakesTrust DEF Roles

(* Raising the floor: an admitted chain becomes the floor.                 *)
LEMMA RaiseTrust ==
  ASSUME TrustInv, RaiseFloor
  PROVE  TrustInv'
<1> DEFINE offered == FloorOf(client.chain, client.at)
<1>1. client.pc = "floor" /\ UNCHANGED <<store, accepted>>
  BY DEF RaiseFloor
<1>2. CASE ~Admits(floor, offered)
  BY <1>1, <1>2, EndsTrust DEF RaiseFloor
<1>3. CASE Admits(floor, offered)
  <2>1. floor' = RaisedTo(floor, offered) /\ client' = [client EXCEPT !.pc = "target"]
    BY <1>3 DEF RaiseFloor
  <2>2. /\ offered \in FloorType /\ floor \in FloorType
        /\ floor.verified_at <= offered.verified_at
    BY <1>1, FloorOfFact DEF TrustInv, ClientTypes
  <2>3. floor' = offered /\ \A field \in Fields : floor[field] <= floor'[field]
    BY <1>3, <2>1, <2>2, RaisedFact
  <2>4. /\ client' \in [pc : {"idle"} \cup Checking, at : Nat, chain : ChainType]
        /\ client'.pc = "target" /\ client'.at = client.at /\ client'.chain = client.chain
    BY <1>1, <2>1 DEF TrustInv, ClientTypes, Checking
  <2>5. \A field \in Fields : accepted'.floor[field] <= floor'[field]
    <3>1. \A field \in Fields : /\ accepted.floor[field] \in Int /\ floor[field] \in Int
                                /\ offered[field] \in Int
      BY <2>2 DEF TrustInv, ClientTypes, FloorType, Fields
    <3>2. \A field \in Fields : accepted.floor[field] <= floor[field]
      BY DEF TrustInv
    <3>3. QED
      BY <1>1, <2>3, <3>1, <3>2
  <2>6. floor' = FloorOf(client'.chain, client'.at) /\ floor'.verified_at <= client'.at
    <3>1. offered.verified_at = client.at /\ client.at \in Nat
      BY <1>1, FloorOfFact DEF TrustInv, ClientTypes
    <3>2. QED
      BY <2>3, <2>4, <3>1
  <2>7. ClientTypes'
    BY <1>1, <2>2, <2>3, <2>4 DEF TrustInv, ClientTypes
  <2>8. QED
    BY <2>5, <2>6, <2>7 DEF TrustInv
<1>4. QED
  BY <1>2, <1>3

(* What is accepted is what the floor was raised to.                       *)
LEMMA ResolveTrust ==
  ASSUME TrustInv, Resolve
  PROVE  /\ TrustInv'
         /\ accepted' # accepted => accepted'.floor = floor
<1>1. /\ client.pc = "target" /\ Ends /\ UNCHANGED <<store, floor>>
      /\ accepted' = accepted \/ accepted'.floor = FloorOf(client.chain, client.at)
  BY DEF Resolve
<1>2. accepted' # accepted => accepted'.floor = floor
  BY <1>1 DEF TrustInv
<1>3. CASE accepted' = accepted
  BY <1>1, <1>2, <1>3, EndsTrust
<1>4. CASE accepted'.floor = floor
  <2>1. NoChain \in ChainType
    BY DEF NoChain, ChainType
  <2>2. /\ client'.pc = "idle"
        /\ client' \in [pc : {"idle"} \cup Checking, at : Nat, chain : ChainType]
    BY <1>1, <2>1 DEF Ends, Idle
  <2>3. \A field \in Fields : floor[field] <= floor[field]
    BY DEF TrustInv, ClientTypes, FloorType, Fields
  <2>4. QED
    BY <1>1, <1>4, <2>2, <2>3 DEF TrustInv, ClientTypes
<1>5. QED
  BY <1>2, <1>3, <1>4

(* Every step of the client, of the publishers and of what fails keeps the *)
(* floor above what was accepted, and accepts nothing below the floor.     *)
LEMMA StepTrust ==
  ASSUME TypesInv, TrustInv, [Next]_vars
  PROVE  /\ TrustInv'
         /\ accepted' # accepted =>
              \A field \in DOMAIN floor : accepted.floor[field] <= accepted'.floor[field]
<1>1. ASSUME UNCHANGED trust PROVE TrustInv' /\ UNCHANGED accepted
  BY <1>1 DEF trust, TrustInv, ClientTypes
<1>2. CASE PublisherStep \/ UNCHANGED vars
  BY <1>1, <1>2 DEF PublisherStep, vars, trust
<1>3. CASE Begin
  <2>1. PICK at \in 0..now : /\ floor.verified_at <= at
                             /\ client' = [Idle EXCEPT !.pc = "timestamp", !.at = at]
    BY <1>3 DEF Begin, AdmitsDate
  <2>2. at \in Nat /\ NoChain \in ChainType
    BY DEF TypesInv, NoChain, ChainType
  <2>3. /\ client'.pc = "timestamp" /\ client'.at = at
        /\ client' \in [pc : {"idle"} \cup Checking, at : Nat, chain : ChainType]
    BY <2>1, <2>2 DEF Idle, Checking
  <2>4. QED
    BY <1>3, <2>1, <2>3 DEF Begin, TrustInv, ClientTypes
<1>4. CASE FetchTimestamp \/ FetchStale
  <2>1. \E entry \in TimestampFile \cup {NoFile} : FetchEntry(entry)
    BY <1>4 DEF FetchTimestamp, FetchStale, TypesInv, IsRepository
  <2>2. UNCHANGED accepted
    BY <2>1 DEF FetchEntry, Takes
  <2>3. QED
    BY <2>1, <2>2, FetchTrust
<1>5. CASE FetchSnapshot
  <2>1. /\ client.pc = "snapshot"
        /\ Takes("snapshot", client.chain.timestamp.pins, "targets")
    BY <1>5 DEF FetchSnapshot
  <2>2. client.chain.timestamp.pins \in SnapshotFile
    BY <2>1, FileFact DEF TrustInv, ClientTypes
  <2>3. QED
    BY <2>1, <2>2, TakesTrust DEF Roles, Takes
<1>6. CASE FetchTargets
  <2>1. /\ client.pc = "targets"
        /\ Takes("targets", client.chain.snapshot.pins, "floor")
    BY <1>6 DEF FetchTargets
  <2>2. client.chain.snapshot.pins \in TargetsFile
    BY <2>1, FileFact DEF TrustInv, ClientTypes
  <2>3. QED
    BY <2>1, <2>2, TakesTrust DEF Roles, Takes
<1>7. CASE RefreshFails \/ CutOff
  BY <1>7, EndsTrust DEF RefreshFails, CutOff
<1>8. CASE RaiseFloor
  BY <1>8, RaiseTrust DEF RaiseFloor
<1>9. CASE Resolve
  <2>1. DOMAIN floor = Fields
    BY DEF TrustInv, ClientTypes, FloorType, Fields
  <2>2. QED
    BY <1>9, <2>1, ResolveTrust DEF TrustInv
<1>10. CASE StoreLost
  <2>1. NoChain \in ChainType /\ NoChain.timestamp = NoFile
    BY DEF NoChain, ChainType
  <2>2. QED
    BY <1>10, <2>1 DEF StoreLost, TrustInv, ClientTypes
<1>11. QED
  BY <1>2, <1>3, <1>4, <1>5, <1>6, <1>7, <1>8, <1>9, <1>10 DEF Next, Check

(***************************************************************************)
(* What the host serves.                                                   *)
(***************************************************************************)

(* The files of a run have different names: the last is the entry point's, *)
(* the rest carry the run's version or its release set.                    *)
LEMMA CarriedNames ==
  ASSUME NEW timestamp \in TimestampFile, NEW files,
         \/ files = Chain(timestamp)
         \/ files = Whole(timestamp) /\ timestamp.pins.pins.release # 0
  PROVE  LET release == timestamp.pins.pins.release
             v       == timestamp.version
         IN  /\ Len(files) \in Nat \ {0}
             /\ \A i, j \in 1..Len(files) : i # j => Name(files[i]) # Name(files[j])
             /\ \A i \in 1..Len(files) :
                  \/ i = Len(files) /\ files[i] = timestamp /\ Name(files[i]) = Entry
                  \/ /\ i < Len(files)
                     /\ Name(files[i]) \in {<<"snapshot", v>>, <<"targets", v>>}
                  \/ /\ i = 1 /\ i < Len(files) /\ files = Whole(timestamp)
                     /\ files[i] = Manifest(release)
                     /\ Name(files[i]) = <<"manifest", release>>
<1> DEFINE v == timestamp.version
           release == timestamp.pins.pins.release
<1>1. /\ Name(timestamp) = Entry /\ Name(timestamp.pins) = <<"snapshot", v>>
      /\ Name(timestamp.pins.pins) = <<"targets", v>>
  BY FileFact
<1>2. release # 0 => Name(Manifest(release)) = <<"manifest", release>>
  BY DEF Name, Manifest
<1> HIDE DEF v, release
<1>3. CASE files = Chain(timestamp)
  <2>1. /\ Len(files) = 3 /\ files[1] = timestamp.pins.pins
        /\ files[2] = timestamp.pins /\ files[3] = timestamp
    BY <1>3 DEF Chain
  <2>2. \A i \in 1..Len(files) : i = 1 \/ i = 2 \/ i = 3
    BY <2>1
  <2>3. QED
    BY <1>1, <2>1, <2>2, NameFact DEF v, release
<1>4. CASE files = Whole(timestamp) /\ release # 0
  <2>1. /\ Len(files) = 4 /\ files[1] = Manifest(release) /\ files[2] = timestamp.pins.pins
        /\ files[3] = timestamp.pins /\ files[4] = timestamp
    BY <1>4 DEF Whole, release
  <2>2. \A i \in 1..Len(files) : i = 1 \/ i = 2 \/ i = 3 \/ i = 4
    BY <2>1
  <2>3. QED
    BY <1>1, <1>2, <1>4, <2>1, <2>2, NameFact DEF v, release
<1>5. QED
  BY <1>3, <1>4 DEF release

(* What the host serves is untouched by a step that leaves the entry       *)
(* point and the files of its version alone.                               *)
LEMMA ServedKept ==
  ASSUME IsRepository(host), Chained(host), InUse(Entry), host'[Entry] = host[Entry],
         host'[<<"snapshot", host[Entry].version>>] = host[<<"snapshot", host[Entry].version>>],
         host'[<<"targets", host[Entry].version>>] = host[<<"targets", host[Entry].version>>]
  PROVE  Chained(host)'
<1>1. host[Entry] \in TimestampFile
  BY DEF IsRepository, InUse
<1>2. /\ Name(host[Entry].pins) = <<"snapshot", host[Entry].version>>
      /\ Name(host[Entry].pins.pins) = <<"targets", host[Entry].version>>
  BY <1>1, FileFact
<1>3. QED
  BY <1>2 DEF Chained

LEMMA InitHost == Init => HostInv
<1> SUFFICES ASSUME Init PROVE HostInv
  OBVIOUS
<1>1. run.pc = "idle" /\ host = FirstChain
  BY RunTypeFact DEF Init, InitPublishing
<1>2. Chained(host)
  BY <1>1, FirstFact, FileFact DEF Chained, SignedFile
<1>3. QED
  BY <1>1, <1>2 DEF HostInv, UnderWay, Placed, PulledIsServed

(* What is re-signed is the chain in force in a directory, one version up. *)
LEMMA ResignFact ==
  ASSUME TypesInv, NEW who \in {"workspace", "job"}, Resign(who)
  PROVE  /\ local[who][Entry] \in TimestampFile
         /\ \E timestamp \in TimestampFile :
              /\ run' = RunOf(who, Chain(timestamp), TRUE)
              /\ timestamp.version = local[who][Entry].version + 1
              /\ timestamp.pins.pins.release
                   = local[who][<<"targets", local[who][Entry].version>>].release
<1> DEFINE entry   == local[who][Entry]
           release == local[who][<<"targets", entry.version>>].release
<1>1. IsRepository(local[who]) /\ CanRead(local[who]) /\ now \in Nat
  BY DEF Resign, TypesInv
<1>2. entry \in TimestampFile
  BY <1>1 DEF CanRead, IsRepository
<1>3. SnapshotOf(local[who]) \in SnapshotFile /\ SnapshotOf(local[who]).version = entry.version
  BY <1>1, <1>2, FileFact DEF CanRead, IsRepository, SnapshotOf
<1>4. TargetsOf(local[who]) = local[who][<<"targets", entry.version>>]
  BY <1>3, FileFact DEF TargetsOf
<1>5. release \in Releases
  BY <1>1, <1>2, <1>4, FileFact DEF CanRead, IsRepository
<1>6. /\ FitsBound(Commit(local[who], release, now))
      /\ run' = RunOf(who, Commit(local[who], release, now), TRUE)
  BY <1>4 DEF Resign
<1>7. PICK timestamp \in TimestampFile :
        /\ Commit(local[who], release, now) = Chain(timestamp)
        /\ timestamp.version = entry.version + 1
        /\ timestamp.pins.pins.release = release
  BY <1>1, <1>5, <1>6, CommitFact
<1>8. QED
  BY <1>2, <1>6, <1>7

(* The job's is the chain the host serves.                                 *)
LEMMA PulledFact ==
  ASSUME TypesInv, HostInv, Resign("job")
  PROVE  /\ InUse(Entry) /\ host[Entry] \in TimestampFile /\ local.job[Entry] = host[Entry]
         /\ local.job[<<"targets", host[Entry].version>>] = host[Entry].pins.pins
<1> DEFINE served == host[Entry]
<1>1. run.pc = "pulled"
  BY DEF Resign
<1>2. InUse(Entry) /\ served \in TimestampFile
  BY <1>1 DEF HostInv, PulledIsServed, TypesInv, IsRepository, InUse
<1>3. \A j \in 1..3 : local.job[Name(Chain(served)[j])] = Chain(served)[j]
  BY <1>1 DEF HostInv, PulledIsServed
<1>4. 1 \in 1..3 /\ 3 \in 1..3
  OBVIOUS
<1>5. Chain(served)[1] = served.pins.pins /\ Chain(served)[3] = served
  BY DEF Chain
<1>6. QED
  BY <1>2, <1>3, <1>4, <1>5, FileFact

(* The workspace signs, one version up, the chain it has.                  *)
LEMMA PublishFact ==
  ASSUME TypesInv, NEW release \in 1..MaxReleases, Publish(release)
  PROVE  /\ local.workspace[Entry] \in TimestampFile
         /\ \E timestamp \in TimestampFile :
              /\ run' = RunOf("workspace", Whole(timestamp), TRUE)
              /\ timestamp.version = local.workspace[Entry].version + 1
              /\ timestamp.pins.pins.release = release
<1>1. release \in Releases /\ release # 0
  BY ChainAssumption DEF Releases
<1>2. local.workspace[Entry] \in TimestampFile
  BY DEF Publish, CanRead, TypesInv, IsRepository
<1>3. PICK timestamp \in TimestampFile :
        /\ Commit(local.workspace, release, now) = Chain(timestamp)
        /\ timestamp.version = local.workspace[Entry].version + 1
        /\ timestamp.pins.pins.release = release
  BY <1>1, CommitFact DEF Publish, TypesInv
<1>4. run' = RunOf("workspace", Whole(timestamp), TRUE)
  BY <1>3, WholeFact DEF Publish
<1>5. QED
  BY <1>2, <1>3, <1>4

(* Starting a run writes nothing; what it is to write is newer than what   *)
(* the host serves.                                                        *)
LEMMA StartHost ==
  ASSUME TypesInv, HostInv, Start
  PROVE  HostInv'
<1>1. UNCHANGED <<host, local>>
  BY DEF Start, Pull, Publish, Resign
<1>2. InUse(Entry)' => Chained(host)'
  BY <1>1 DEF HostInv, InUse
<1>3. ASSUME NEW who \in {"workspace", "job"}, NEW files \in Seq(SignedFile),
             NEW pushes \in BOOLEAN, run' = RunOf(who, files, pushes),
             NEW timestamp \in TimestampFile, RunsFor(timestamp)'
      PROVE  HostInv'
  <2>1. run'.pc = "write" /\ run'.i = 1
    BY <1>3, RunOfFact
  <2>2. Placed' /\ PulledIsServed'
    BY <2>1 DEF Placed, PulledIsServed
  <2>3. QED
    BY <1>2, <1>3, <2>2 DEF HostInv
<1>4. ASSUME NEW who \in {"workspace", "job"}, Pull(who) PROVE HostInv'
  <2>1. host[Entry] \in TimestampFile
    BY <1>4 DEF Pull, Verifies, Chained, TypesInv, IsRepository
  <2>2. run' = RunOf(who, Chain(host[Entry]), FALSE) /\ Chain(host[Entry]) \in Seq(SignedFile)
    BY <1>4, <2>1, CarriedFact DEF Pull, Chain
  <2>3. RunsFor(host[Entry])'
    BY <1>1, <2>2, RunOfFact DEF RunsFor
  <2>4. \E timestamp \in TimestampFile : RunsFor(timestamp)'
    BY <1>1, <2>1, <2>3
  <2>5. QED
    BY <1>3, <2>2, <2>4
<1>5. ASSUME NEW who \in {"workspace", "job"}, Resign(who) PROVE HostInv'
  <2>1. PICK timestamp \in TimestampFile :
          /\ run' = RunOf(who, Chain(timestamp), TRUE)
          /\ timestamp.version = local[who][Entry].version + 1
    BY <1>5, ResignFact
  <2>2. local[who][Entry] \in TimestampFile
    BY <1>5, ResignFact
  <2>3. InUse(Entry) => host[Entry] \in TimestampFile
    BY DEF InUse, TypesInv, IsRepository
  <2>4. InUse(Entry) => ~(local[who][Entry].version < host[Entry].version)
    <3>1. CASE who = "job"
      <4>1. local.job[Entry] = host[Entry]
        BY <1>5, <3>1, PulledFact
      <4>2. QED
        BY <2>3, <3>1, <4>1, FileFact DEF Versions
    <3>2. CASE who = "workspace"
      BY <1>5, <3>2 DEF Resign, Behind
    <3>3. QED
      BY <3>1, <3>2
  <2>5. InUse(Entry) => host[Entry].version < timestamp.version
    BY <2>1, <2>2, <2>3, <2>4, FileFact DEF Versions
  <2>6. Chain(timestamp) \in Seq(SignedFile)
    BY CarriedFact
  <2>7. run'.files = Chain(timestamp) /\ run'.pushes
    BY <2>1, <2>6, RunOfFact
  <2>8. RunsFor(timestamp)'
    BY <1>1, <2>5, <2>7 DEF RunsFor, InUse
  <2>9. QED
    BY <1>3, <2>1, <2>6, <2>8
<1>6. ASSUME NEW release \in 1..MaxReleases, Publish(release) PROVE HostInv'
  <2>1. PICK timestamp \in TimestampFile :
          /\ run' = RunOf("workspace", Whole(timestamp), TRUE)
          /\ timestamp.version = local.workspace[Entry].version + 1
          /\ timestamp.pins.pins.release = release
    BY <1>6, PublishFact
  <2>2. release # 0 /\ Whole(timestamp) \in Seq(SignedFile)
    BY <2>1, CarriedFact, ChainAssumption
  <2>3. InUse(Entry) => host[Entry].version < timestamp.version
    <3>1. local.workspace[Entry] \in TimestampFile
      BY <1>6, PublishFact
    <3>2. InUse(Entry) => host[Entry] \in TimestampFile
      BY DEF InUse, TypesInv, IsRepository
    <3>3. InUse(Entry) => ~(local.workspace[Entry].version < host[Entry].version)
      BY <1>6 DEF Publish, Behind
    <3>4. QED
      BY <2>1, <3>1, <3>2, <3>3, FileFact DEF Versions
  <2>4. run'.files = Whole(timestamp) /\ run'.pushes
    BY <2>1, <2>2, RunOfFact
  <2>5. RunsFor(timestamp)'
    BY <1>1, <2>1, <2>2, <2>3, <2>4 DEF RunsFor, InUse
  <2>6. QED
    BY <1>3, <2>1, <2>2, <2>5
<1>7. QED
  BY <1>4, <1>5, <1>6 DEF Start

(* A local write leaves the host alone, and the job pulls file by file     *)
(* what the host goes on serving.                                          *)
LEMMA WriteHost ==
  ASSUME TypesInv, HostInv, Write
  PROVE  HostInv'
<1> DEFINE done == IF run.pushes THEN [run EXCEPT !.pc = "push", !.i = 1]
                   ELSE IF run.who = "job"
                        THEN [NoRun EXCEPT !.pc = "pulled", !.who = "job"] ELSE NoRun
<1>1. /\ run.pc = "write" /\ UnderWay /\ host' = host /\ Advance("write", done)
      /\ local' = [local EXCEPT ![run.who] = Holding(@, File)]
  BY DEF Write, UnderWay
<1>2. InUse(Entry)' => Chained(host)'
  BY <1>1 DEF HostInv, InUse
<1>3. PICK timestamp \in TimestampFile : RunsFor(timestamp)
  BY <1>1 DEF HostInv
<1>4. /\ run \in RunType /\ File \in SignedFile /\ run.i \in 1..Len(run.files)
      /\ run.who \in {"workspace", "job"}
  BY <1>1, FileAtFact DEF TypesInv, RunType
<1>5. ASSUME run'.files = run.files, run'.pushes = run.pushes,
             run'.pc = "write" \/ run.pushes
      PROVE  RunsFor(timestamp)'
  BY <1>1, <1>3, <1>5 DEF RunsFor, InUse
<1>6. \A j \in 1..run.i : local'[run.who][Name(run.files[j])] = run.files[j]
  <2>1. \/ run.files = Chain(timestamp)
        \/ run.files = Whole(timestamp) /\ timestamp.pins.pins.release # 0
    BY <1>3 DEF RunsFor
  <2>2. \A j \in 1..(run.i - 1) : local[run.who][Name(run.files[j])] = run.files[j]
    BY <1>1 DEF HostInv, Placed
  <2>3. local'[run.who] = Holding(local[run.who], File) /\ IsRepository(local[run.who])
    BY <1>1, <1>4 DEF TypesInv
  <2>4. /\ local'[run.who][Name(File)] = File
        /\ \A name \in Names : name # Name(File) =>
             local'[run.who][name] = local[run.who][name]
    BY <1>4, <2>3, HoldingFact
  <2>5. File = run.files[run.i] /\ run.i \in Nat /\ Len(run.files) \in Nat
    BY <1>4 DEF File, RunType
  <2>6. ASSUME NEW j \in 1..(run.i - 1) PROVE local'[run.who][Name(run.files[j])] = run.files[j]
    <3>1. j \in 1..Len(run.files) /\ j # run.i
      BY <1>4, <2>5
    <3>2. Name(run.files[j]) # Name(File)
      BY <1>4, <2>1, <2>5, <3>1, CarriedNames
    <3>3. Name(run.files[j]) \in Names
      <4>1. run.files[j] \in SignedFile
        BY <1>4, <3>1 DEF RunType
      <4>2. QED
        BY <4>1, PublishedFact
    <3>4. QED
      BY <2>2, <2>4, <3>2, <3>3
  <2>7. \A j \in 1..run.i : j = run.i \/ j \in 1..(run.i - 1)
    BY <2>5
  <2>8. QED
    BY <2>4, <2>5, <2>6, <2>7
<1>7. CASE run.i = Len(run.files) /\ run' = done
  <2>1. CASE run.pushes
    <3>1. run' = [run EXCEPT !.pc = "push", !.i = 1]
      BY <1>7, <2>1
    <3>2. /\ run'.pc = "push" /\ run'.i = 1 /\ run'.files = run.files
          /\ run'.pushes = run.pushes
      BY <1>4, <3>1, PushFact
    <3>3. RunsFor(timestamp)'
      BY <1>5, <2>1, <3>2
    <3>4. QED
      BY <1>2, <3>2, <3>3 DEF HostInv, Placed, PulledIsServed
  <2>2. CASE ~run.pushes /\ run.who = "job"
    <3>1. run'.pc = "pulled" /\ run'.who = "job"
      BY <1>7, <2>2, RunTypeFact
    <3>2. run.files = Chain(timestamp) /\ host[Entry] = timestamp /\ Len(run.files) = 3
      BY <1>3, <2>2, CarriedFact DEF RunsFor
    <3>3. \A j \in 1..3 : local'.job[Name(Chain(timestamp)[j])] = Chain(timestamp)[j]
      BY <1>6, <1>7, <2>2, <3>2
    <3>4. host[Entry] # NoFile
      BY <3>2, FileFact DEF SignedFile
    <3>5. PulledIsServed'
      BY <1>1, <3>1, <3>2, <3>3, <3>4 DEF PulledIsServed, InUse
    <3>6. QED
      BY <1>2, <3>1, <3>5 DEF HostInv, UnderWay, Placed
  <2>3. CASE ~run.pushes /\ run.who # "job"
    <3>1. run'.pc = "idle"
      BY <1>7, <2>3, RunTypeFact
    <3>2. QED
      BY <1>2, <3>1 DEF HostInv, UnderWay, Placed, PulledIsServed
  <2>4. QED
    BY <2>1, <2>2, <2>3
<1>8. CASE /\ run'.pc = "write" /\ run'.who = run.who /\ run'.files = run.files
           /\ run'.pushes = run.pushes /\ run'.i = run.i + 1
  <2>1. run'.i - 1 = run.i
    BY <1>4, <1>8 DEF RunType
  <2>2. Placed'
    BY <1>6, <1>8, <2>1 DEF Placed
  <2>3. RunsFor(timestamp)'
    BY <1>5, <1>8
  <2>4. QED
    BY <1>2, <1>8, <2>2, <2>3 DEF HostInv, PulledIsServed
<1>9. QED
  BY <1>1, <1>4, <1>7, <1>8, AdvanceFact

(* A run at the host, at a file other than the last: the roles the host    *)
(* serves, of an older version, are not what it replaces.                  *)
LEMMA NotServed ==
  ASSUME TypesInv, HostInv, run.pc \in {"push", "rename"}, InUse(Entry), Name(File) # Entry
  PROVE  /\ Name(File) # <<"snapshot", host[Entry].version>>
         /\ Name(File) # <<"targets", host[Entry].version>>
<1>1. PICK timestamp \in TimestampFile : RunsFor(timestamp)
  BY DEF HostInv, UnderWay
<1>2. /\ run.pushes /\ host[Entry].version < timestamp.version
      /\ \/ run.files = Chain(timestamp)
         \/ run.files = Whole(timestamp) /\ timestamp.pins.pins.release # 0
  BY <1>1 DEF RunsFor
<1>3. host[Entry] \in TimestampFile
  BY DEF TypesInv, IsRepository, InUse
<1>4. host[Entry].version # timestamp.version
  BY <1>2, <1>3, FileFact DEF Versions
<1>5. run.i \in 1..Len(run.files) /\ File = run.files[run.i]
  BY FileAtFact DEF UnderWay, File
<1>6. \/ Name(File) \in {<<"snapshot", timestamp.version>>, <<"targets", timestamp.version>>}
      \/ Name(File) = <<"manifest", timestamp.pins.pins.release>>
  BY <1>2, <1>5, CarriedNames
<1>7. QED
  BY <1>4, <1>6, NameFact

(* A step at the host that touches only the name of the run's file leaves  *)
(* the run's earlier files and, short of the entry point, the chain that   *)
(* is served where they are.                                               *)
LEMMA TouchHost ==
  ASSUME TypesInv, HostInv, run.pc \in {"push", "rename"},
         \A name \in Names : name # Name(File) => host'[name] = host[name]
  PROVE  /\ \A j \in 1..(run.i - 1) : host'[Name(run.files[j])] = run.files[j]
         /\ Name(File) # Entry =>
              /\ InUse(Entry)' => Chained(host)'
              /\ \E timestamp \in TimestampFile :
                   run'.files = run.files /\ run'.pushes = run.pushes => RunsFor(timestamp)'
<1>1. PICK timestamp \in TimestampFile : RunsFor(timestamp)
  BY DEF HostInv, UnderWay
<1> DEFINE release == timestamp.pins.pins.release
<1>2. /\ run.pushes
      /\ \/ run.files = Chain(timestamp)
         \/ run.files = Whole(timestamp) /\ release # 0
  BY <1>1 DEF RunsFor
<1>3. /\ run \in RunType /\ run.i \in 1..Len(run.files) /\ File = run.files[run.i]
      /\ File \in SignedFile
  BY FileAtFact DEF UnderWay, File, TypesInv
<1>4. ASSUME NEW j \in 1..(run.i - 1) PROVE host'[Name(run.files[j])] = run.files[j]
  <2>1. j \in 1..Len(run.files) /\ j # run.i
    BY <1>3 DEF RunType
  <2>2. Name(run.files[j]) # Name(File)
    BY <1>2, <1>3, <2>1, CarriedNames
  <2>3. Name(run.files[j]) \in Names
    <3>1. run.files[j] \in SignedFile
      BY <1>3, <2>1 DEF RunType
    <3>2. QED
      BY <3>1, PublishedFact
  <2>4. host[Name(run.files[j])] = run.files[j]
    BY DEF HostInv, Placed
  <2>5. QED
    BY <2>2, <2>3, <2>4
<1>5. ASSUME Name(File) # Entry
      PROVE  /\ InUse(Entry)' => Chained(host)'
             /\ run'.files = run.files /\ run'.pushes = run.pushes => RunsFor(timestamp)'
  <2>1. host'[Entry] = host[Entry]
    BY <1>5, NameFact
  <2>2. ASSUME InUse(Entry)' PROVE Chained(host)'
    <3>1. InUse(Entry) /\ host[Entry] \in TimestampFile
      BY <2>1, <2>2 DEF TypesInv, IsRepository, InUse
    <3>2. host[Entry].version \in Versions
      BY <3>1, FileFact
    <3>3. QED
      BY <1>5, <2>1, <3>1, <3>2, NotServed, NameFact, ServedKept DEF TypesInv, HostInv
  <2>3. ASSUME run'.files = run.files, run'.pushes = run.pushes PROVE RunsFor(timestamp)'
    BY <1>1, <1>2, <2>1, <2>3 DEF RunsFor, InUse
  <2>4. QED
    BY <2>2, <2>3
<1>6. QED
  BY <1>4, <1>5

(* The swap of a name in use: between the old asset and the new one the    *)
(* name is not served, and if it is the entry point's nothing is.          *)
LEMMA DropOldHost ==
  ASSUME TypesInv, HostInv, DropOld
  PROVE  HostInv'
<1>1. /\ run.pc = "push" /\ host' = [host EXCEPT ![Name(File)] = NoFile]
      /\ run' = [run EXCEPT !.pc = "rename"]
  BY DEF DropOld
<1>2. /\ run'.pc = "rename" /\ run'.files = run.files /\ run'.pushes = run.pushes
      /\ run'.i = run.i
  BY <1>1 DEF TypesInv, RunType
<1>3. Name(File) \in Names
  BY <1>1, FileAtFact, PublishedFact DEF UnderWay
<1>4. /\ host'[Name(File)] = NoFile
      /\ \A name \in Names : name # Name(File) => host'[name] = host[name]
  BY <1>1, <1>3 DEF TypesInv, IsRepository
<1>5. Placed' /\ PulledIsServed'
  BY <1>1, <1>2, <1>4, TouchHost DEF Placed, PulledIsServed
<1>6. CASE Name(File) # Entry
  BY <1>1, <1>2, <1>4, <1>5, <1>6, TouchHost DEF HostInv
<1>7. CASE Name(File) = Entry
  <2>1. ~InUse(Entry)'
    BY <1>4, <1>7 DEF InUse
  <2>2. PICK timestamp \in TimestampFile : RunsFor(timestamp)
    BY <1>1 DEF HostInv, UnderWay
  <2>3. RunsFor(timestamp)'
    BY <1>1, <1>2, <2>1, <2>2 DEF RunsFor
  <2>4. QED
    BY <1>5, <2>1, <2>3 DEF HostInv
<1>8. QED
  BY <1>6, <1>7

(* Serving a file: the entry point comes last, when the roles it pins are  *)
(* there.                                                                  *)
LEMMA ServesHost ==
  ASSUME TypesInv, HostInv, run.pc \in {"push", "rename"}, Serves(File)
  PROVE  HostInv'
<1>1. host' = Holding(host, File) /\ Advance("push", NoRun)
  BY DEF Serves
<1>2. /\ File \in SignedFile /\ run.i \in 1..Len(run.files) /\ File = run.files[run.i]
      /\ run \in RunType /\ UnderWay
  BY FileAtFact DEF UnderWay, File, TypesInv
<1>3. /\ Name(File) \in Names /\ host'[Name(File)] = File
      /\ \A name \in Names : name # Name(File) => host'[name] = host[name]
  BY <1>1, <1>2, HoldingFact DEF TypesInv
<1>4. PICK timestamp \in TimestampFile : RunsFor(timestamp)
  BY <1>2 DEF HostInv
<1> DEFINE release == timestamp.pins.pins.release
<1>5. \/ run.files = Chain(timestamp)
      \/ run.files = Whole(timestamp) /\ release # 0
  BY <1>4 DEF RunsFor
<1>6. \A j \in 1..(run.i - 1) : host'[Name(run.files[j])] = run.files[j]
  BY <1>3, TouchHost
<1>7. CASE run.i = Len(run.files) /\ run' = NoRun
  <2>1. File = timestamp /\ Name(File) = Entry
    BY <1>2, <1>5, <1>7, CarriedNames
  <2>2. host'[Entry] = timestamp
    BY <1>3, <2>1
  <2>3. /\ host'[Name(timestamp.pins)] = timestamp.pins
        /\ host'[Name(timestamp.pins.pins)] = timestamp.pins.pins
    <3>1. CASE run.files = Chain(timestamp)
      <4>1. /\ run.i = 3 /\ run.files[1] = timestamp.pins.pins /\ run.files[2] = timestamp.pins
        BY <1>7, <3>1, CarriedFact DEF Chain
      <4>2. 1 \in 1..(run.i - 1) /\ 2 \in 1..(run.i - 1)
        BY <4>1
      <4>3. QED
        BY <1>6, <4>1, <4>2
    <3>2. CASE run.files = Whole(timestamp) /\ release # 0
      <4>1. /\ run.i = 4 /\ run.files[2] = timestamp.pins.pins /\ run.files[3] = timestamp.pins
        BY <1>7, <3>2, CarriedFact DEF Whole
      <4>2. 2 \in 1..(run.i - 1) /\ 3 \in 1..(run.i - 1)
        BY <4>1
      <4>3. QED
        BY <1>6, <4>1, <4>2
    <3>3. QED
      BY <1>5, <3>1, <3>2
  <2>4. timestamp # NoFile
    BY FileFact DEF SignedFile
  <2>5. Chained(host)'
    BY <2>2, <2>3, <2>4 DEF Chained
  <2>6. run'.pc = "idle"
    BY <1>7, RunTypeFact
  <2>7. QED
    BY <2>5, <2>6 DEF HostInv, UnderWay, Placed, PulledIsServed
<1>8. CASE /\ run'.pc = "push" /\ run'.files = run.files /\ run'.pushes = run.pushes
           /\ run'.i = run.i + 1 /\ run'.i \in 1..Len(run.files)
  <2>1. run.i \in Nat /\ Len(run.files) \in Nat /\ run.i # Len(run.files)
    BY <1>2, <1>8 DEF RunType
  <2>2. Name(File) # Entry
    BY <1>2, <1>5, <2>1, CarriedNames, NameFact
  <2>3. \A j \in 1..(run'.i - 1) : j = run.i \/ j \in 1..(run.i - 1)
    BY <1>8, <2>1
  <2>4. Placed'
    BY <1>2, <1>3, <1>6, <1>8, <2>3 DEF Placed
  <2>5. QED
    BY <1>3, <1>8, <2>2, <2>4, TouchHost DEF HostInv, PulledIsServed
<1>9. QED
  BY <1>1, <1>2, <1>7, <1>8, AdvanceFact

LEMMA StepHost ==
  ASSUME TypesInv, HostInv, [Next]_vars
  PROVE  HostInv'
<1>1. ASSUME UNCHANGED <<host, run, local>> PROVE HostInv'
  BY <1>1 DEF HostInv, UnderWay, RunsFor, InUse, Placed, PulledIsServed
<1>2. CASE Check \/ CutOff \/ StoreLost \/ NextDay \/ UNCHANGED vars
  BY <1>1, <1>2 DEF Check, CutOff, StoreLost, NextDay, vars, Begin, FetchTimestamp,
     FetchStale, FetchEntry, FetchSnapshot, FetchTargets, RefreshFails, RaiseFloor, Resolve,
     Takes, publishing, held
<1>3. CASE Start
  BY <1>3, StartHost
<1>4. CASE Write
  BY <1>4, WriteHost
<1>5. CASE Upload \/ Rename
  BY <1>5, ServesHost DEF Upload, Rename
<1>6. CASE DropOld
  BY <1>6, DropOldHost
<1>7. CASE Die
  <2>1. host' = host /\ run'.pc = "idle"
    BY <1>7, RunTypeFact DEF Die
  <2>2. QED
    BY <2>1 DEF HostInv, UnderWay, Placed, PulledIsServed, InUse
<1>8. QED
  BY <1>2, <1>3, <1>4, <1>5, <1>6, <1>7 DEF Next, PublisherStep, Publishing, Proceed

(***************************************************************************)
(* What was ever served, and what a client names of it.                    *)
(***************************************************************************)

(* The last file of a run is its timestamp, and only that is published     *)
(* under the entry point's name.                                           *)
LEMMA LastFact ==
  ASSUME TypesInv, UnderWay
  PROVE  /\ run.files[Len(run.files)] \in TimestampFile
         /\ Name(File) = Entry <=> run.i = Len(run.files)
         /\ \A timestamp \in TimestampFile :
              Carries(timestamp) => run.files[Len(run.files)] = timestamp
<1>1. PICK timestamp \in TimestampFile : Carries(timestamp)
  BY DEF TypesInv
<1>2. run.i \in 1..Len(run.files) /\ File = run.files[run.i]
  BY FileAtFact DEF File
<1>3. ASSUME NEW other \in TimestampFile, Carries(other)
      PROVE  run.files[Len(run.files)] = other
  <2>1. CASE run.files = Chain(other)
    BY <2>1 DEF Chain
  <2>2. CASE run.files = Whole(other)
    BY <2>2 DEF Whole
  <2>3. QED
    BY <1>3, <2>1, <2>2 DEF Carries
<1>4. Name(File) = Entry <=> run.i = Len(run.files)
  <2>1. ASSUME NEW v PROVE /\ <<"snapshot", v>> # Entry /\ <<"targets", v>> # Entry
                           /\ <<"manifest", v>> # Entry
    BY NameFact
  <2>2. Len(run.files) \in Nat \ {0}
    BY <1>1, CarriedNames DEF Carries
  <2>3. \/ run.i = Len(run.files) /\ Name(File) = Entry
        \/ run.i < Len(run.files) /\ Name(File) # Entry
    BY <1>1, <1>2, <2>1, CarriedNames DEF Carries
  <2>4. QED
    BY <1>2, <2>2, <2>3
<1>5. QED
  BY <1>1, <1>3, <1>4

LEMMA InitPast == Init => PastInv
<1> SUFFICES ASSUME Init PROVE PastInv
  OBVIOUS
<1> DEFINE first == FirstChain[Entry]
<1>1. /\ first \in TimestampFile /\ ReleaseOf(first) = 0
      /\ past = {first} /\ host[Entry] = first /\ local.workspace[Entry] = first
      /\ released = 0
  BY FirstFact DEF Init, InitPublishing, ReleaseOf
<1>2. run.pc = "idle"
  BY RunTypeFact DEF Init, InitPublishing
<1> HIDE DEF first
<1>3. Gapless(first.version)
  BY <1>1, FileFact DEF Gapless, Versions
<1>4. QED
  BY <1>1, <1>2, <1>3 DEF PastInv, UnderWay, Doubled

(* Starting a run serves nothing; what it is to push follows what was.     *)
LEMMA StartPast ==
  ASSUME TypesInv, HostInv, PastInv, LatestInv, Start
  PROVE  PastInv'
<1>1. UNCHANGED <<host, local, past>>
  BY DEF Start, Pull, Publish, Resign
<1>2. past \subseteq TimestampFile
  BY DEF TypesInv
<1>3. ASSUME released \in Int, released' \in Int, released <= released',
             (run.pushes => Follows(run.files[Len(run.files)]))'
      PROVE  PastInv'
  <2>1. \A entry \in past' : ReleaseOf(entry) <= released'
    <3>1. \A entry \in past : ReleaseOf(entry) \in Int /\ ReleaseOf(entry) <= released
      BY <1>2, FileFact, ChainAssumption DEF PastInv, ReleaseOf, Releases
    <3>2. QED
      BY <1>1, <1>3, <3>1
  <2>2. QED
    BY <1>1, <1>3, <2>1 DEF PastInv, Gapless, Served, InUse, Doubled
<1>4. released \in Int
  BY ChainAssumption DEF TypesInv, Releases
<1>5. ASSUME NEW base \in Versions, Gapless(base), NEW timestamp \in TimestampFile,
             timestamp.version = base + 1, ReleaseOf(timestamp) <= released',
             \A v \in Versions : local.workspace[Entry].version < v /\ v <= base => v \in Served
      PROVE  Follows(timestamp)'
  <2>1. /\ base \in Int /\ timestamp.version \in Versions
        /\ \A v \in Versions : v \in Int
        /\ \A entry \in past : entry.version \in Versions
    <3>1. \A v \in Versions : v \in Int
      BY DEF Versions
    <3>2. QED
      BY <1>2, <1>5, <3>1, FileFact
  <2>2. Gapless(timestamp.version)
    <3>1. \A v \in Versions : timestamp.version < v => base < v
      BY <1>5, <2>1
    <3>2. QED
      BY <1>5, <3>1 DEF Gapless
  <2>3. \A v \in Versions :
          local.workspace[Entry].version < v /\ v < timestamp.version => v \in Served
    BY <1>5, <2>1
  <2>4. \/ timestamp.version \in Served
        \/ \A entry \in past : entry.version <= base
    <3>1. SUFFICES ASSUME NEW entry \in past, ~(entry.version <= base)
                   PROVE  timestamp.version \in Served
      OBVIOUS
    <3>2. base < timestamp.version /\ timestamp.version <= entry.version
      <4>1. entry.version \in Int /\ base \in Int
        BY <2>1, <3>1
      <4>2. base < base + 1 /\ base + 1 <= entry.version
        BY <3>1, <4>1
      <4>3. QED
        BY <1>5, <4>2
    <3>3. QED
      BY <1>5, <2>1, <3>1, <3>2 DEF Gapless
  <2>5. \/ timestamp.version \in Served
        \/ \A entry \in past : entry.version < timestamp.version
    <3>1. ASSUME \A entry \in past : entry.version <= base, NEW entry \in past
          PROVE  entry.version < timestamp.version
      <4>1. entry.version \in Int /\ base \in Int
        BY <2>1, <3>1
      <4>2. entry.version < base + 1
        BY <3>1, <4>1
      <4>3. QED
        BY <1>5, <4>2
    <3>2. QED
      BY <1>5, <2>4, <3>1
  <2>6. QED
    BY <1>1, <1>5, <2>2, <2>3, <2>5 DEF Follows, Gapless, Served
<1>6. ASSUME NEW who \in {"workspace", "job"}, Pull(who) PROVE PastInv'
  <2>1. host[Entry] \in TimestampFile
    BY <1>6 DEF Pull, Verifies, Chained, TypesInv, IsRepository
  <2>2. run' = RunOf(who, Chain(host[Entry]), FALSE) /\ released' = released
    BY <1>6 DEF Pull, Chain
  <2>3. ~run'.pushes
    BY <2>2 DEF RunOf
  <2>4. released <= released'
    BY <1>4, <2>2
  <2>5. QED
    BY <1>3, <1>4, <2>2, <2>3, <2>4
<1>7. ASSUME NEW who \in {"workspace", "job"}, Resign(who) PROVE PastInv'
  <2> DEFINE base == local[who][Entry].version
             set  == local[who][<<"targets", base>>].release
  <2>1. base \in Versions
    BY <1>7, ResignFact, FileFact
  <2>2. PICK timestamp \in TimestampFile :
          /\ run' = RunOf(who, Chain(timestamp), TRUE)
          /\ timestamp.version = base + 1 /\ ReleaseOf(timestamp) = set
    BY <1>7, ResignFact DEF ReleaseOf
  <2>3. released' = released
    BY <1>7 DEF Resign
  <2>4. /\ Gapless(base) /\ set <= released
        /\ \A v \in Versions : local.workspace[Entry].version < v /\ v <= base => v \in Served
    <3>1. CASE who = "job"
      <4>1. /\ InUse(Entry) /\ base = host[Entry].version /\ set = ReleaseOf(host[Entry])
        BY <1>7, <3>1, PulledFact DEF ReleaseOf
      <4>2. host[Entry] \in past
        BY <4>1 DEF PastInv
      <4>3. QED
        BY <4>1, <4>2 DEF PastInv, Gapless
    <3>2. CASE who = "workspace"
      <4>1. base = local.workspace[Entry].version /\ set = InForceSet
        BY <3>2 DEF InForceSet, InForceName
      <4>2. \A v \in Versions : v <= base => ~(base < v)
        BY <2>1 DEF Versions
      <4>3. QED
        BY <4>1, <4>2 DEF PastInv, LatestInv
    <3>3. QED
      BY <3>1, <3>2
  <2>5. run'.files[Len(run'.files)] = timestamp
    BY <2>2 DEF RunOf, Chain
  <2>6. ReleaseOf(timestamp) <= released'
    BY <2>2, <2>3, <2>4
  <2> HIDE DEF base, set
  <2>7. Follows(timestamp)'
    BY <1>5, <2>1, <2>2, <2>4, <2>6
  <2>8. released <= released'
    BY <1>4, <2>3
  <2>9. QED
    BY <1>3, <1>4, <2>3, <2>5, <2>7, <2>8
<1>8. ASSUME NEW release \in 1..MaxReleases, Publish(release) PROVE PastInv'
  <2>1. local.workspace[Entry] \in TimestampFile
    BY <1>8, PublishFact
  <2>2. PICK timestamp \in TimestampFile :
          /\ run' = RunOf("workspace", Whole(timestamp), TRUE)
          /\ timestamp.version = local.workspace[Entry].version + 1
          /\ ReleaseOf(timestamp) = release
    BY <1>8, PublishFact DEF ReleaseOf
  <2>3. released' = release /\ release \in Int /\ released <= release
    BY <1>4, <1>8, ChainAssumption DEF Publish
  <2>4. local.workspace[Entry].version \in Versions /\ Gapless(local.workspace[Entry].version)
    BY <2>1, FileFact DEF PastInv
  <2>5. \A v \in Versions : v <= local.workspace[Entry].version =>
          ~(local.workspace[Entry].version < v)
    BY <2>4 DEF Versions
  <2>6. run'.files[Len(run'.files)] = timestamp
    BY <2>2 DEF RunOf, Whole
  <2>7. ReleaseOf(timestamp) <= released'
    BY <2>2, <2>3
  <2>8. Follows(timestamp)'
    BY <1>5, <2>2, <2>4, <2>5, <2>7
  <2>9. QED
    BY <1>3, <1>4, <2>3, <2>6, <2>8
<1>9. QED
  BY <1>6, <1>7, <1>8 DEF Start

(* A local write serves nothing; the workspace's entry point comes to be   *)
(* what it pulls, which is served, or what it is to push.                  *)
LEMMA WritePast ==
  ASSUME TypesInv, HostInv, PastInv, Write
  PROVE  PastInv'
<1> DEFINE done == IF run.pushes THEN [run EXCEPT !.pc = "push", !.i = 1]
                   ELSE IF run.who = "job"
                        THEN [NoRun EXCEPT !.pc = "pulled", !.who = "job"] ELSE NoRun
<1>1. /\ run.pc = "write" /\ UnderWay /\ Advance("write", done)
      /\ UNCHANGED <<host, past, released>>
      /\ local' = [local EXCEPT ![run.who] = Holding(@, File)]
  BY DEF Write, UnderWay
<1>2. /\ run \in RunType /\ File \in SignedFile /\ run.who \in {"workspace", "job"}
      /\ File = run.files[run.i]
  BY <1>1, FileAtFact DEF TypesInv, RunType, File
<1>3. PICK timestamp \in TimestampFile : RunsFor(timestamp)
  BY <1>1 DEF HostInv
<1>4. run.files[Len(run.files)] = timestamp
  BY <1>1, <1>3, LastFact DEF RunsFor, Carries
<1>5. UnderWay' /\ run'.pushes => run.pushes /\ run'.files = run.files
  <2>1. run' = done => (UnderWay' /\ run'.pushes => run.pushes /\ run'.files = run.files)
    <3>1. CASE run.pushes
      <4>1. done = [run EXCEPT !.pc = "push", !.i = 1]
        BY <3>1
      <4>2. QED
        BY <1>2, <3>1, <4>1, PushFact
    <3>2. CASE ~run.pushes
      BY <3>2, RunTypeFact DEF UnderWay
    <3>3. QED
      BY <3>1, <3>2
  <2> HIDE DEF done
  <2>2. QED
    BY <1>1, <2>1, AdvanceFact
<1> HIDE DEF done
<1>6. CASE local'.workspace[Entry] = local.workspace[Entry]
  BY <1>1, <1>5, <1>6 DEF PastInv, Follows, Gapless, Served, InUse, Doubled
<1>7. CASE local'.workspace[Entry] # local.workspace[Entry]
  <2>1. local'.workspace = Holding(local.workspace, File)
    <3>1. run.who = "workspace"
      BY <1>1, <1>2, <1>7 DEF TypesInv
    <3>2. QED
      BY <1>1, <3>1 DEF TypesInv
  <2>2. Name(File) = Entry
    BY <1>2, <1>7, <2>1, HoldingFact, NameFact DEF TypesInv
  <2>3. File = timestamp
    BY <1>1, <1>2, <1>4, <2>2, LastFact
  <2>4. local'.workspace[Entry] = timestamp
    BY <1>2, <2>1, <2>2, <2>3, HoldingFact DEF TypesInv
  <2>5. Gapless(timestamp.version)
    <3>1. CASE run.pushes
      BY <1>1, <1>4, <3>1 DEF PastInv, Follows
    <3>2. CASE ~run.pushes
      <4>1. host[Entry] = timestamp
        BY <1>3, <3>2 DEF RunsFor
      <4>2. InUse(Entry)
        BY <4>1, FileFact DEF InUse, SignedFile
      <4>3. QED
        BY <4>1, <4>2 DEF PastInv
    <3>3. QED
      BY <3>1, <3>2
  <2>6. ASSUME run.pushes PROVE Follows(timestamp)'
    <3>1. Follows(timestamp)
      BY <1>1, <1>4, <2>6 DEF PastInv
    <3>2. \A v \in Versions : ~(timestamp.version < v /\ v < timestamp.version)
      BY FileFact DEF Versions
    <3>3. QED
      BY <1>1, <2>4, <3>1, <3>2 DEF Follows, Gapless, Served
  <2>7. (UnderWay /\ run.pushes => Follows(run.files[Len(run.files)]))'
    BY <1>4, <1>5, <2>6
  <2>8. QED
    BY <1>1, <2>4, <2>5, <2>7 DEF PastInv, Gapless, Served, InUse, Doubled
<1>8. QED
  BY <1>6, <1>7

(* Serving the entry point: what was served is as it was, and the new one. *)
LEMMA ServesPast ==
  ASSUME TypesInv, HostInv, PastInv, LatestInv, run.pc \in {"push", "rename"}, Serves(File)
  PROVE  PastInv'
<1>1. /\ host' = Holding(host, File) /\ Advance("push", NoRun)
      /\ past' = IF Name(File) = Entry THEN past \cup {File} ELSE past
      /\ released' = released /\ UnderWay
  BY DEF Serves, UnderWay
<1>2. local'.workspace = local.workspace
  BY DEF Serves, Kept, TypesInv
<1>3. /\ File \in SignedFile /\ run.i \in 1..Len(run.files) /\ run \in RunType
      /\ File = run.files[run.i]
  BY <1>1, FileAtFact DEF TypesInv, File
<1>4. run.pushes
  BY <1>1 DEF HostInv, RunsFor
<1>5. /\ Name(File) = Entry => host'[Entry] = File
      /\ Name(File) # Entry => host'[Entry] = host[Entry]
  BY <1>1, <1>3, HoldingFact, NameFact DEF TypesInv
<1>6. CASE Name(File) # Entry
  <2>1. past' = past /\ host'[Entry] = host[Entry]
    BY <1>1, <1>5, <1>6
  <2>2. run'.files = run.files
    BY <1>1, <1>3, <1>6, LastFact, AdvanceFact
  <2>3. QED
    BY <1>1, <1>2, <1>4, <2>1, <2>2
       DEF PastInv, Follows, Gapless, Served, InUse, Doubled
<1>7. CASE Name(File) = Entry
  <2>1. PICK timestamp \in TimestampFile :
          /\ File = timestamp /\ Follows(timestamp)
          /\ past' = past \cup {timestamp} /\ host'[Entry] = timestamp
          /\ Newest(ReleaseOf(timestamp))
    BY <1>1, <1>3, <1>4, <1>5, <1>7, LastFact DEF PastInv, LatestInv, Last
  <2>2. run'.pc = "idle"
    <3>1. run.i = Len(run.files) /\ Len(run.files) \in Nat
      BY <1>1, <1>3, <1>7, LastFact DEF RunType
    <3>2. run' = NoRun
      BY <1>1, <3>1 DEF Advance
    <3>3. QED
      BY <3>2, RunTypeFact
  <2>3. past \subseteq past' /\ Served' = Served \cup {timestamp.version}
    BY <2>1 DEF Served
  <2>4. /\ timestamp.version \in Versions /\ ReleaseOf(timestamp) \in Int
        /\ \A entry \in past : entry.version \in Versions /\ ReleaseOf(entry) \in Int
    <3>1. past \subseteq TimestampFile
      BY DEF TypesInv
    <3>2. QED
      BY <2>1, <3>1, FileFact, ChainAssumption DEF ReleaseOf, Releases
  <2>5. Gapless(timestamp.version)'
    <3>1. \A v \in Versions : ~(timestamp.version < v /\ v <= timestamp.version)
      BY <2>4 DEF Versions
    <3>2. QED
      BY <2>1, <2>3, <3>1 DEF Follows, Gapless
  <2>6. Gapless(local.workspace[Entry].version)'
    <3>1. \A v \in Versions : v <= timestamp.version =>
            v < timestamp.version \/ v = timestamp.version
      BY <2>4 DEF Versions
    <3>2. QED
      BY <1>2, <2>1, <2>3, <3>1 DEF PastInv, Follows, Gapless
  <2>7. Doubled'
    <3>1. SUFFICES ASSUME NEW one \in past', NEW other \in past', one.version <= other.version
                   PROVE  \/ ReleaseOf(one) <= ReleaseOf(other)
                          \/ \E twin \in past' : twin.version = one.version /\ twin # one
      BY DEF Doubled
    <3>2. CASE one \in past /\ other \in past
      BY <2>3, <3>1, <3>2 DEF PastInv, Doubled
    <3>3. CASE other = timestamp
      BY <2>1, <2>4, <3>1, <3>3 DEF Newest
    <3>4. CASE one = timestamp /\ other \in past /\ timestamp \notin past
      <4>1. ~(other.version < timestamp.version)
        BY <2>4, <3>1, <3>4 DEF Versions
      <4>2. timestamp.version \in Served
        BY <2>1, <3>4, <4>1 DEF Follows
      <4>3. PICK twin \in past : twin.version = timestamp.version
        BY <4>2 DEF Served
      <4>4. QED
        BY <2>3, <3>4, <4>3
    <3>5. QED
      BY <2>1, <3>1, <3>2, <3>3, <3>4
  <2>8. \A entry \in past' : ReleaseOf(entry) <= released'
    BY <1>1, <2>1 DEF PastInv, Follows
  <2>9. QED
    BY <2>1, <2>2, <2>5, <2>6, <2>7, <2>8 DEF PastInv, UnderWay
<1>8. QED
  BY <1>6, <1>7

LEMMA StepPast ==
  ASSUME TypesInv, HostInv, PastInv, LatestInv, [Next]_vars
  PROVE  PastInv'
<1>1. ASSUME UNCHANGED <<host, past, run, local, released>> PROVE PastInv'
  BY <1>1 DEF PastInv, UnderWay, Follows, Gapless, Served, InUse, Doubled
<1>2. CASE Check \/ CutOff \/ StoreLost \/ NextDay \/ UNCHANGED vars
  BY <1>1, <1>2 DEF Check, CutOff, StoreLost, NextDay, vars, Begin, FetchTimestamp,
     FetchStale, FetchEntry, FetchSnapshot, FetchTargets, RefreshFails, RaiseFloor, Resolve,
     Takes, publishing, held
<1>3. CASE Start
  BY <1>3, StartPast
<1>4. CASE Write
  BY <1>4, WritePast
<1>5. CASE Upload \/ Rename
  BY <1>5, ServesPast DEF Upload, Rename
<1>6. CASE DropOld
  <2>1. /\ run' = [run EXCEPT !.pc = "rename"] /\ UNCHANGED <<past, local, released>>
        /\ host' = [host EXCEPT ![Name(File)] = NoFile] /\ UnderWay
    BY <1>6 DEF DropOld, UnderWay
  <2>2. run'.files = run.files /\ run'.pushes = run.pushes
    BY <2>1 DEF TypesInv, RunType
  <2>3. InUse(Entry)' => InUse(Entry) /\ host'[Entry] = host[Entry]
    BY <2>1, NameFact DEF InUse, TypesInv, IsRepository
  <2>4. QED
    BY <2>1, <2>2, <2>3 DEF PastInv, Follows, Gapless, Served, Doubled
<1>7. CASE Die
  <2>1. UNCHANGED <<host, past, released>> /\ run'.pc = "idle"
    BY <1>7, RunTypeFact DEF Die
  <2>2. local'.workspace = local.workspace
    BY <1>7 DEF Die, Kept, TypesInv
  <2>3. QED
    BY <2>1, <2>2 DEF PastInv, UnderWay, Gapless, Served, InUse, Doubled
<1>8. QED
  BY <1>2, <1>3, <1>4, <1>5, <1>6, <1>7 DEF Next, PublisherStep, Publishing, Proceed

(***************************************************************************)
(* The newest release set.                                                 *)
(***************************************************************************)

(* The chain in force in the workspace is a release set, as all served is. *)
LEMMA InForceFact ==
  ASSUME TypesInv
  PROVE  /\ \A entry \in past : ReleaseOf(entry) \in Int
         /\ local.workspace[Entry] # NoFile => InForceName \in Names
         /\ local.workspace[Entry] # NoFile /\ local.workspace[InForceName] # NoFile =>
              /\ local.workspace[InForceName] \in TargetsFile /\ InForceSet \in Int
<1>1. past \subseteq TimestampFile /\ IsRepository(local.workspace)
  BY DEF TypesInv
<1>2. \A r \in Releases : r \in Int
  BY ChainAssumption DEF Releases
<1>3. \A entry \in past : ReleaseOf(entry) \in Int
  BY <1>1, <1>2, FileFact DEF ReleaseOf
<1>4. local.workspace[Entry] # NoFile => local.workspace[Entry].version \in Versions
  BY <1>1, FileFact DEF IsRepository
<1>5. QED
  BY <1>1, <1>2, <1>3, <1>4, FileFact, NameFact DEF IsRepository, InForceName, InForceSet

LEMMA InitLatest == Init => LatestInv
<1> SUFFICES ASSUME Init PROVE LatestInv
  OBVIOUS
<1>1. PICK timestamp \in TimestampFile :
        /\ FirstChain[Entry] = timestamp
        /\ FirstChain[Name(timestamp.pins.pins)] = timestamp.pins.pins
  BY FirstFact
<1>2. /\ past = {timestamp} /\ host[Entry] = timestamp /\ released = 0
      /\ local.workspace = FirstChain /\ ReleaseOf(timestamp) = 0
  BY <1>1, FirstFact DEF Init, InitPublishing, ReleaseOf
<1>3. run.pc = "idle"
  BY RunTypeFact DEF Init, InitPublishing
<1>4. /\ local.workspace[Entry] = timestamp
      /\ local.workspace[InForceName] = timestamp.pins.pins
  BY <1>1, <1>2, FileFact DEF InForceName
<1>5. timestamp # NoFile /\ timestamp.pins.pins # NoFile
  BY FileFact DEF SignedFile
<1>6. InForceSet = 0
  BY <1>2, <1>4 DEF InForceSet, ReleaseOf
<1>7. QED
  BY <1>2, <1>3, <1>4, <1>5, <1>6 DEF LatestInv, Newest, UnderWay

(* A run that starts is to push the newest release set: the next, the      *)
(* workspace's, or the host's.                                             *)
LEMMA StartLatest ==
  ASSUME TypesInv, HostInv, PastInv, LatestInv, Start
  PROVE  LatestInv'
<1>1. UNCHANGED <<host, local, past>>
  BY DEF Start, Pull, Publish, Resign
<1>2. released \in Int
  BY ChainAssumption DEF TypesInv, Releases
<1>3. InForceSet \in Int /\ \A entry \in past : ReleaseOf(entry) \in Int
  BY InForceFact DEF LatestInv
<1>4. ASSUME released' \in Int, released <= released', NEW who \in {"workspace", "job"},
             run'.pc = "write", run'.who = who,
             run'.pushes => /\ Newest(ReleaseOf(Last'))
                            /\ who = "job" => ReleaseOf(Last') <= InForceSet
      PROVE  LatestInv'
  <2>1. InForceSet' = InForceSet /\ InForceName' = InForceName
    BY <1>1 DEF InForceSet, InForceName
  <2>2. InForceSet <= released'
    BY <1>2, <1>3, <1>4 DEF LatestInv
  <2>3. QED
    BY <1>1, <1>4, <2>1, <2>2 DEF LatestInv, Newest, InUse
<1>5. ASSUME NEW who \in {"workspace", "job"}, Pull(who) PROVE LatestInv'
  <2>1. /\ run' = RunOf(who, <<host[Entry].pins.pins, host[Entry].pins, host[Entry]>>, FALSE)
        /\ released' = released
    BY <1>5 DEF Pull
  <2>2. run'.pc = "write" /\ run'.who = who /\ ~run'.pushes /\ released <= released'
    BY <1>2, <2>1 DEF RunOf
  <2>3. QED
    BY <1>2, <1>4, <2>1, <2>2
<1>6. ASSUME NEW who \in {"workspace", "job"}, Resign(who) PROVE LatestInv'
  <2> DEFINE set == local[who][<<"targets", local[who][Entry].version>>].release
  <2>1. PICK timestamp \in TimestampFile :
          run' = RunOf(who, Chain(timestamp), TRUE) /\ ReleaseOf(timestamp) = set
    BY <1>6, ResignFact DEF ReleaseOf
  <2>2. run'.pc = "write" /\ run'.who = who /\ Last' = timestamp
    BY <2>1 DEF RunOf, Chain, Last
  <2>3. released' = released /\ released <= released'
    BY <1>2, <1>6 DEF Resign
  <2>4. CASE who = "job"
    <3>1. InUse(Entry) /\ set = ReleaseOf(host[Entry])
      BY <1>6, <2>4, PulledFact DEF ReleaseOf
    <3>2. host[Entry] \in past
      BY <3>1 DEF PastInv
    <3>3. Newest(set) /\ set <= InForceSet
      BY <3>1, <3>2 DEF LatestInv, Newest
    <3>4. QED
      BY <1>2, <1>4, <2>1, <2>2, <2>3, <3>3
  <2>5. CASE who = "workspace"
    <3>1. set = InForceSet
      BY <2>5 DEF InForceSet, InForceName
    <3>2. QED
      BY <1>2, <1>4, <2>1, <2>2, <2>3, <2>5, <3>1 DEF LatestInv
  <2>6. QED
    BY <2>4, <2>5
<1>7. ASSUME NEW release \in 1..MaxReleases, Publish(release) PROVE LatestInv'
  <2>1. PICK timestamp \in TimestampFile :
          run' = RunOf("workspace", Whole(timestamp), TRUE) /\ ReleaseOf(timestamp) = release
    BY <1>7, PublishFact DEF ReleaseOf
  <2>2. run'.pc = "write" /\ run'.who = "workspace" /\ Last' = timestamp
    BY <2>1 DEF RunOf, Whole, Last
  <2>3. released' = release /\ release \in Int /\ released <= release
    BY <1>2, <1>7, ChainAssumption DEF Publish
  <2>4. Newest(release)
    BY <1>2, <1>3, <2>3 DEF PastInv, Newest
  <2>5. QED
    BY <1>4, <2>1, <2>2, <2>3, <2>4
<1>8. QED
  BY <1>5, <1>6, <1>7 DEF Start

(* The targets role is among the files of a run, before its timestamp, and *)
(* no other is published under its name.                                   *)
LEMMA CarriedTargets ==
  ASSUME NEW timestamp \in TimestampFile, NEW files,
         \/ files = Chain(timestamp)
         \/ files = Whole(timestamp) /\ timestamp.pins.pins.release # 0
  PROVE  /\ \E k \in 1..(Len(files) - 1) : files[k] = timestamp.pins.pins
         /\ \A i \in 1..Len(files) : \A v :
              Name(files[i]) = <<"targets", v>> => files[i] = timestamp.pins.pins
<1>1. \E k \in 1..(Len(files) - 1) : files[k] = timestamp.pins.pins
  <2>1. CASE files = Chain(timestamp)
    <3>1. Len(files) = 3 /\ files[1] = timestamp.pins.pins
      BY <2>1 DEF Chain
    <3>2. QED
      BY <3>1
  <2>2. CASE files = Whole(timestamp)
    <3>1. Len(files) = 4 /\ files[2] = timestamp.pins.pins
      BY <2>2 DEF Whole
    <3>2. QED
      BY <3>1
  <2>3. QED
    BY <2>1, <2>2
<1>2. ASSUME NEW i \in 1..Len(files), NEW v, Name(files[i]) = <<"targets", v>>
      PROVE  files[i] = timestamp.pins.pins
  <2>1. Name(files[i]) = <<"targets", timestamp.version>>
    BY <1>2, CarriedNames, NameFact
  <2>2. PICK k \in 1..(Len(files) - 1) : files[k] = timestamp.pins.pins
    BY <1>1
  <2>3. k \in 1..Len(files) /\ Name(files[k]) = <<"targets", timestamp.version>>
    <3>1. Len(files) \in Nat
      BY CarriedNames
    <3>2. QED
      BY <2>2, <3>1, FileFact
  <2>4. i = k
    <3>1. \A m, n \in 1..Len(files) : m # n => Name(files[m]) # Name(files[n])
      BY CarriedNames
    <3>2. QED
      BY <2>1, <2>3, <3>1
  <2>5. QED
    BY <2>2, <2>4
<1>3. QED
  BY <1>1, <1>2

(* A local write leaves the workspace the set it had, or gives it the one  *)
(* that the host serves or that is to be pushed.                           *)
LEMMA WriteLatest ==
  ASSUME TypesInv, HostInv, PastInv, LatestInv, Write
  PROVE  LatestInv'
<1> DEFINE done == IF run.pushes THEN [run EXCEPT !.pc = "push", !.i = 1]
                   ELSE IF run.who = "job"
                        THEN [NoRun EXCEPT !.pc = "pulled", !.who = "job"] ELSE NoRun
<1>1. /\ run.pc = "write" /\ UnderWay /\ Advance("write", done)
      /\ UNCHANGED <<host, past, released>>
      /\ local' = [local EXCEPT ![run.who] = Holding(@, File)]
  BY DEF Write, UnderWay
<1>2. /\ run \in RunType /\ File \in SignedFile /\ run.who \in {"workspace", "job"}
      /\ File = run.files[run.i] /\ run.i \in 1..Len(run.files) /\ Len(run.files) \in Nat
  BY <1>1, FileAtFact DEF TypesInv, RunType, File
<1>3. PICK timestamp \in TimestampFile : RunsFor(timestamp)
  BY <1>1 DEF HostInv
<1>4. /\ Last = timestamp
      /\ \/ run.files = Chain(timestamp)
         \/ run.files = Whole(timestamp) /\ timestamp.pins.pins.release # 0
  BY <1>1, <1>3, LastFact DEF RunsFor, Carries, Last
<1>5. Newest(ReleaseOf(timestamp)) /\ ReleaseOf(timestamp) <= released
  <2>1. CASE run.pushes
    BY <1>1, <1>4, <2>1 DEF LatestInv, PastInv, Follows, Last
  <2>2. CASE ~run.pushes
    <3>1. host[Entry] = timestamp
      BY <1>3, <2>2 DEF RunsFor
    <3>2. InUse(Entry)
      BY <3>1, FileFact DEF InUse, SignedFile
    <3>3. QED
      BY <3>1, <3>2 DEF LatestInv, PastInv
  <2>3. QED
    BY <2>1, <2>2
<1>6. UnderWay' /\ run'.pushes =>
        /\ run.pushes /\ run'.files = run.files /\ run'.who = run.who
        /\ run'.pc = "write" \/ run.i = Len(run.files)
  <2>1. run' = done =>
          (UnderWay' /\ run'.pushes => /\ run.pushes /\ run'.files = run.files
                                        /\ run'.who = run.who)
    <3>1. CASE run.pushes
      <4>1. done = [run EXCEPT !.pc = "push", !.i = 1]
        BY <3>1
      <4>2. QED
        BY <1>2, <3>1, <4>1, PushFact
    <3>2. CASE ~run.pushes
      BY <3>2, RunTypeFact DEF UnderWay
    <3>3. QED
      BY <3>1, <3>2
  <2> HIDE DEF done
  <2>2. QED
    BY <1>1, <2>1, AdvanceFact
<1> HIDE DEF done
<1>7. ASSUME local'.workspace[Entry] # NoFile, local'.workspace[InForceName'] # NoFile,
             InForceSet' \in {InForceSet, ReleaseOf(timestamp)},
             run.pushes /\ (run.who = "job" \/ run.i = Len(run.files)) =>
               ReleaseOf(timestamp) <= InForceSet'
      PROVE  LatestInv'
  <2>1. InForceSet' <= released' /\ Newest(InForceSet')
    BY <1>1, <1>5, <1>7 DEF LatestInv
  <2>2. (InUse(Entry) => Newest(ReleaseOf(host[Entry])))'
    BY <1>1 DEF LatestInv, InUse, Newest
  <2>3. UnderWay' /\ run'.pushes => Last' = timestamp
    BY <1>4, <1>6 DEF Last
  <2>4. (UnderWay /\ run.pushes =>
           /\ Newest(ReleaseOf(Last))
           /\ run.who = "job" \/ run.pc # "write" => ReleaseOf(Last) <= InForceSet)'
    <3>1. SUFFICES ASSUME UnderWay', run'.pushes
                   PROVE  /\ Newest(ReleaseOf(Last))'
                          /\ run'.who = "job" \/ run'.pc # "write" =>
                               ReleaseOf(Last') <= InForceSet'
      OBVIOUS
    <3>2. Newest(ReleaseOf(Last))'
      BY <1>1, <1>5, <2>3, <3>1 DEF Newest
    <3>3. QED
      BY <1>6, <1>7, <2>3, <3>1, <3>2
  <2>5. Newest(InForceSet)'
    BY <1>1, <2>1 DEF Newest
  <2>6. QED
    BY <1>7, <2>1, <2>2, <2>4, <2>5 DEF LatestInv
<1>8. CASE run.who = "job"
  <2>1. local'.workspace = local.workspace
    BY <1>1, <1>8 DEF TypesInv
  <2>2. InForceSet' = InForceSet /\ InForceName' = InForceName
    BY <2>1 DEF InForceSet, InForceName
  <2>3. run.pushes => ReleaseOf(timestamp) <= InForceSet
    BY <1>1, <1>4, <1>8 DEF LatestInv
  <2>4. QED
    BY <1>7, <2>1, <2>2, <2>3 DEF LatestInv
<1>9. CASE run.who = "workspace"
  <2>1. /\ local'.workspace = Holding(local.workspace, File) /\ IsRepository(local.workspace)
    BY <1>1, <1>9 DEF TypesInv
  <2>2. /\ local'.workspace[Name(File)] = File
        /\ \A name \in Names : name # Name(File) =>
             local'.workspace[name] = local.workspace[name]
    BY <1>2, <2>1, HoldingFact
  <2>3. timestamp # NoFile /\ timestamp.pins.pins # NoFile
    BY FileFact DEF SignedFile
  <2>4. CASE run.i = Len(run.files)
    <3>1. File = timestamp /\ Name(File) = Entry
      BY <1>2, <1>4, <2>4, CarriedNames
    <3>2. PICK k \in 1..(run.i - 1) : run.files[k] = timestamp.pins.pins
      BY <1>4, <2>4, CarriedTargets
    <3>3. local.workspace[Name(timestamp.pins.pins)] = timestamp.pins.pins
      BY <1>1, <1>9, <3>2 DEF HostInv, Placed
    <3>4. /\ Name(timestamp.pins.pins) = <<"targets", timestamp.version>>
          /\ timestamp.version \in Versions
      BY FileFact
    <3>5. local'.workspace[<<"targets", timestamp.version>>] = timestamp.pins.pins
      BY <2>2, <3>1, <3>3, <3>4, NameFact
    <3>6. local'.workspace[Entry] = timestamp
      BY <2>2, <3>1
    <3>7. /\ InForceName' = <<"targets", timestamp.version>>
          /\ InForceSet' = ReleaseOf(timestamp)
      BY <3>5, <3>6 DEF InForceName, InForceSet, ReleaseOf
    <3>8. ReleaseOf(timestamp) <= ReleaseOf(timestamp)
      <4>1. ReleaseOf(timestamp) \in Releases
        BY FileFact DEF ReleaseOf
      <4>2. QED
        BY <4>1, ChainAssumption DEF Releases
    <3>9. QED
      BY <1>7, <2>3, <3>5, <3>6, <3>7, <3>8
  <2>5. CASE run.i # Len(run.files)
    <3>1. Name(File) # Entry
      BY <1>1, <2>5, LastFact
    <3>2. local'.workspace[Entry] = local.workspace[Entry] /\ InForceName' = InForceName
      BY <2>2, <3>1, NameFact DEF InForceName
    <3>3. InForceName \in Names
      BY InForceFact DEF LatestInv
    <3>4. \/ local'.workspace[InForceName] = local.workspace[InForceName]
          \/ local'.workspace[InForceName] = timestamp.pins.pins
      <4>1. \A i \in 1..Len(run.files) : \A v :
              Name(run.files[i]) = <<"targets", v>> => run.files[i] = timestamp.pins.pins
        BY <1>4, CarriedTargets
      <4>2. Name(File) = InForceName => File = timestamp.pins.pins
        BY <1>2, <4>1 DEF InForceName
      <4>3. QED
        BY <2>2, <3>3, <4>2
    <3>5. InForceSet' \in {InForceSet, ReleaseOf(timestamp)}
      BY <3>2, <3>4 DEF InForceSet, ReleaseOf
    <3>6. QED
      BY <1>7, <1>9, <2>3, <2>5, <3>2, <3>4, <3>5 DEF LatestInv
  <2>6. QED
    BY <2>4, <2>5
<1>10. QED
  BY <1>2, <1>8, <1>9

(* What comes to be served is what was the newest, and the workspace has   *)
(* it, or something newer.                                                 *)
LEMMA ServesLatest ==
  ASSUME TypesInv, HostInv, LatestInv, run.pc \in {"push", "rename"}, Serves(File)
  PROVE  LatestInv'
<1>1. /\ host' = Holding(host, File) /\ Advance("push", NoRun)
      /\ past' = IF Name(File) = Entry THEN past \cup {File} ELSE past
      /\ released' = released /\ UnderWay
  BY DEF Serves, UnderWay
<1>2. local'.workspace = local.workspace
  BY DEF Serves, Kept, TypesInv
<1>3. InForceSet' = InForceSet /\ InForceName' = InForceName
  BY <1>2 DEF InForceSet, InForceName
<1>4. /\ File \in SignedFile /\ run.i \in 1..Len(run.files) /\ run \in RunType
      /\ File = run.files[run.i] /\ Len(run.files) \in Nat
  BY <1>1, FileAtFact DEF TypesInv, File, RunType
<1>5. run.pushes
  BY <1>1 DEF HostInv, RunsFor
<1>6. Newest(ReleaseOf(Last)) /\ ReleaseOf(Last) <= InForceSet
  BY <1>1, <1>5 DEF LatestInv
<1>7. /\ Name(File) = Entry => host'[Entry] = File
      /\ Name(File) # Entry => host'[Entry] = host[Entry]
  BY <1>1, <1>4, HoldingFact, NameFact DEF TypesInv
<1>8. CASE Name(File) # Entry
  <2>1. past' = past /\ host'[Entry] = host[Entry]
    BY <1>1, <1>7, <1>8
  <2>2. run'.files = run.files
    BY <1>1, <1>4, <1>8, LastFact, AdvanceFact
  <2>3. Last' = Last
    BY <2>2 DEF Last
  <2>4. QED
    BY <1>1, <1>2, <1>3, <1>6, <2>1, <2>3 DEF LatestInv, Newest, InUse
<1>9. CASE Name(File) = Entry
  <2>1. File = Last /\ run.i = Len(run.files)
    BY <1>1, <1>4, <1>9, LastFact DEF Last
  <2>2. run'.pc = "idle"
    <3>1. run' = NoRun
      BY <1>1, <1>4, <2>1 DEF Advance
    <3>2. QED
      BY <3>1, RunTypeFact
  <2>3. past' = past \cup {Last} /\ host'[Entry] = Last
    BY <1>1, <1>7, <1>9, <2>1
  <2>4. ReleaseOf(Last) <= ReleaseOf(Last)
    <3>1. ReleaseOf(Last) \in Releases
      BY <1>1, LastFact, FileFact DEF ReleaseOf, Last
    <3>2. QED
      BY <3>1, ChainAssumption DEF Releases
  <2>5. /\ \A entry \in past' : ReleaseOf(entry) <= InForceSet
        /\ \A entry \in past' : ReleaseOf(entry) <= ReleaseOf(host'[Entry])
    BY <1>6, <2>3, <2>4 DEF LatestInv, Newest
  <2>6. QED
    BY <1>1, <1>2, <1>3, <2>2, <2>5 DEF LatestInv, Newest, UnderWay
<1>10. QED
  BY <1>8, <1>9

LEMMA StepLatest ==
  ASSUME TypesInv, HostInv, PastInv, LatestInv, [Next]_vars
  PROVE  LatestInv'
<1>1. ASSUME UNCHANGED <<host, past, run, local, released>> PROVE LatestInv'
  BY <1>1 DEF LatestInv, UnderWay, Newest, InUse, InForceSet, InForceName, Last
<1>2. CASE Check \/ CutOff \/ StoreLost \/ NextDay \/ UNCHANGED vars
  BY <1>1, <1>2 DEF Check, CutOff, StoreLost, NextDay, vars, Begin, FetchTimestamp,
     FetchStale, FetchEntry, FetchSnapshot, FetchTargets, RefreshFails, RaiseFloor, Resolve,
     Takes, publishing, held
<1>3. CASE Start
  BY <1>3, StartLatest
<1>4. CASE Write
  BY <1>4, WriteLatest
<1>5. CASE Upload \/ Rename
  BY <1>5, ServesLatest DEF Upload, Rename
<1>6. CASE DropOld
  <2>1. /\ run' = [run EXCEPT !.pc = "rename"] /\ UNCHANGED <<past, local, released>>
        /\ host' = [host EXCEPT ![Name(File)] = NoFile] /\ UnderWay /\ run.pc = "push"
    BY <1>6 DEF DropOld, UnderWay
  <2>2. /\ run'.files = run.files /\ run'.pushes = run.pushes /\ run'.who = run.who
    BY <2>1 DEF TypesInv, RunType
  <2>3. InUse(Entry)' => InUse(Entry) /\ host'[Entry] = host[Entry]
    BY <2>1, NameFact DEF InUse, TypesInv, IsRepository
  <2>4. InForceSet' = InForceSet /\ InForceName' = InForceName /\ Last' = Last
    BY <2>1, <2>2 DEF InForceSet, InForceName, Last
  <2>5. QED
    BY <2>1, <2>2, <2>3, <2>4 DEF LatestInv, Newest
<1>7. CASE Die
  <2>1. UNCHANGED <<host, past, released>> /\ run'.pc = "idle"
    BY <1>7, RunTypeFact DEF Die
  <2>2. local'.workspace = local.workspace
    BY <1>7 DEF Die, Kept, TypesInv
  <2>3. InForceSet' = InForceSet /\ InForceName' = InForceName
    BY <2>2 DEF InForceSet, InForceName
  <2>4. QED
    BY <2>1, <2>2, <2>3 DEF LatestInv, UnderWay, Newest, InUse
<1>8. QED
  BY <1>2, <1>3, <1>4, <1>5, <1>6, <1>7 DEF Next, PublisherStep, Publishing, Proceed

(***************************************************************************)
(* What a client names.                                                    *)
(***************************************************************************)

LEMMA InitNamed == Init => NamedInv
  BY DEF Init, NamedInv, NoChain, Idle

(* What a check takes is of the chain whose timestamp it took, and that    *)
(* was served; what it names is what that chain names.                     *)
LEMMA StepNamed ==
  ASSUME TypesInv, TrustInv, PastInv, NamedInv, past \subseteq past', [Next]_vars
  PROVE  /\ NamedInv'
         /\ ServedOnce(accepted.floor.timestamp) => accepted.release <= accepted'.release
<1> DEFINE Named == \E entry \in past : /\ entry.version = accepted.floor.timestamp
                                        /\ ReleaseOf(entry) = accepted.release
<1>1. ASSUME UNCHANGED accepted
      PROVE  /\ accepted'.release # 0 => Named'
             /\ accepted.release <= accepted'.release
  <2>1. accepted.release # 0 => accepted.release \in Releases
    BY FileFact DEF NamedInv, TypesInv, ReleaseOf
  <2>2. accepted.release \in Int
    BY <2>1, ChainAssumption DEF Releases
  <2>3. QED
    BY <1>1, <2>2 DEF NamedInv
<1>2. ASSUME UNCHANGED <<client, accepted>>, store' = store \/ store' = NoChain
      PROVE  NamedInv'
  BY <1>1, <1>2 DEF NamedInv, NoChain
<1>3. ASSUME Ends, UNCHANGED store, accepted'.release # 0 => Named'
      PROVE  NamedInv'
  BY <1>3 DEF NamedInv, Ends, Idle
<1>4. CASE PublisherStep \/ UNCHANGED vars \/ StoreLost
  BY <1>1, <1>2, <1>4 DEF PublisherStep, vars, trust, StoreLost
<1>5. CASE Begin
  <2>1. client'.pc = "timestamp" /\ UNCHANGED <<store, accepted>>
    BY <1>5 DEF Begin, Idle
  <2>2. QED
    BY <1>1, <2>1 DEF NamedInv
<1>6. CASE FetchTimestamp \/ FetchStale
  <2>1. PICK entry \in past : FetchEntry(entry)
    <3>1. FetchTimestamp => InUse(Entry)
      BY DEF FetchTimestamp, FetchEntry, TakesEntry, InUse
    <3>2. QED
      BY <1>6, <3>1 DEF FetchTimestamp, FetchStale, PastInv
  <2>2. /\ Takes("timestamp", Offered(entry), "snapshot") /\ TakesEntry(entry)
        /\ client.pc = "timestamp"
    BY <2>1 DEF FetchEntry
  <2>3. Offered(entry) \in past
    <3>1. entry \in TimestampFile
      BY DEF TypesInv
    <3>2. entry.version # 0
      BY <3>1, FileFact DEF Versions
    <3>3. entry.version = Trusted("timestamp").version => store.timestamp # NoFile
      BY <3>2 DEF Trusted, NoFile
    <3>4. QED
      BY <3>3 DEF Offered, NamedInv
  <2>4. /\ client' = [client EXCEPT !.pc = "snapshot", !.chain.timestamp = Offered(entry)]
        /\ store' = [store EXCEPT !.timestamp = Offered(entry)] /\ UNCHANGED accepted
    BY <2>2 DEF Takes
  <2>5. /\ client'.pc = "snapshot" /\ client'.chain.timestamp = Offered(entry)
        /\ store'.timestamp = Offered(entry)
    BY <2>4 DEF TrustInv, ClientTypes, ChainType
  <2>6. QED
    BY <1>1, <2>3, <2>4, <2>5 DEF NamedInv
<1>7. CASE FetchSnapshot
  <2>1. /\ client.pc = "snapshot" /\ UNCHANGED accepted
        /\ client' = [client EXCEPT !.pc = "targets",
                                    !.chain.snapshot = client.chain.timestamp.pins]
        /\ store' = [store EXCEPT !.snapshot = client.chain.timestamp.pins]
    BY <1>7 DEF FetchSnapshot, Takes
  <2>2. /\ client'.pc = "targets" /\ client'.chain.timestamp = client.chain.timestamp
        /\ client'.chain.snapshot = client.chain.timestamp.pins
        /\ store'.timestamp = store.timestamp
    BY <2>1 DEF TrustInv, ClientTypes, ChainType
  <2>3. QED
    BY <1>1, <2>1, <2>2 DEF NamedInv
<1>8. CASE FetchTargets
  <2>1. /\ client.pc = "targets" /\ UNCHANGED accepted
        /\ client' = [client EXCEPT !.pc = "floor",
                                    !.chain.targets = client.chain.snapshot.pins]
        /\ store' = [store EXCEPT !.targets = client.chain.snapshot.pins]
    BY <1>8 DEF FetchTargets, Takes
  <2>2. /\ client'.pc = "floor" /\ client'.chain.timestamp = client.chain.timestamp
        /\ client'.chain.snapshot = client.chain.snapshot
        /\ client'.chain.targets = client.chain.snapshot.pins
        /\ store'.timestamp = store.timestamp
    BY <2>1 DEF TrustInv, ClientTypes, ChainType
  <2>3. QED
    BY <1>1, <2>1, <2>2 DEF NamedInv
<1>9. CASE RefreshFails \/ CutOff
  BY <1>1, <1>3, <1>9 DEF RefreshFails, CutOff
<1>10. CASE RaiseFloor
  <2>1. client.pc = "floor" /\ UNCHANGED <<store, accepted>>
    BY <1>10 DEF RaiseFloor
  <2>2. CASE Ends
    BY <1>1, <1>3, <2>1, <2>2
  <2>3. CASE client' = [client EXCEPT !.pc = "target"]
    <3>1. client'.pc = "target" /\ client'.chain = client.chain
      BY <2>3 DEF TrustInv, ClientTypes
    <3>2. QED
      BY <1>1, <2>1, <3>1 DEF NamedInv
  <2>4. QED
    BY <1>10, <2>2, <2>3 DEF RaiseFloor
<1>11. CASE Resolve
  <2>1. client.pc = "target" /\ Ends /\ UNCHANGED store
    BY <1>11 DEF Resolve
  <2>2. CASE UNCHANGED accepted
    BY <1>1, <1>3, <2>1, <2>2
  <2>3. CASE accepted' = [release |-> client.chain.targets.release,
                          floor |-> FloorOf(client.chain, client.at)]
    <3> DEFINE timestamp == client.chain.timestamp
    <3>1. /\ timestamp \in past /\ timestamp \in TimestampFile
          /\ client.chain.targets.release = ReleaseOf(timestamp)
      BY <2>1 DEF NamedInv, TrustInv, ClientTypes, ReleaseOf
    <3>2. /\ accepted'.release = ReleaseOf(timestamp)
          /\ accepted'.floor.timestamp = timestamp.version
      BY <2>3, <3>1 DEF FloorOf
    <3>3. accepted.floor.timestamp <= timestamp.version
      <4>1. accepted.floor.timestamp <= floor.timestamp
        BY DEF TrustInv, Fields
      <4>2. floor.timestamp = timestamp.version
        BY <2>1 DEF TrustInv, FloorOf
      <4>3. QED
        BY <4>1, <4>2
    <3>4. ServedOnce(accepted.floor.timestamp) => accepted.release <= accepted'.release
      <4>1. CASE accepted.release = 0
        <5>1. ReleaseOf(timestamp) \in Nat
          BY <3>1, FileFact, ChainAssumption DEF ReleaseOf, Releases
        <5>2. QED
          BY <3>2, <4>1, <5>1
      <4>2. CASE accepted.release # 0
        <5>1. PICK entry \in past : /\ entry.version = accepted.floor.timestamp
                                    /\ ReleaseOf(entry) = accepted.release
          BY <4>2 DEF NamedInv
        <5>2. entry.version <= timestamp.version
          BY <3>3, <5>1
        <5>3. \/ ReleaseOf(entry) <= ReleaseOf(timestamp)
              \/ \E twin \in past : twin.version = entry.version /\ twin # entry
          BY <3>1, <5>2 DEF PastInv, Doubled
        <5>4. QED
          BY <3>2, <5>1, <5>3 DEF ServedOnce
      <4>3. QED
        BY <4>1, <4>2
    <3>5. Named'
      BY <3>1, <3>2
    <3>6. QED
      BY <1>3, <2>1, <3>4, <3>5
  <2>4. QED
    BY <1>11, <2>2, <2>3 DEF Resolve
<1>12. QED
  BY <1>4, <1>5, <1>6, <1>7, <1>8, <1>9, <1>10, <1>11 DEF Next, Check

(* What was served stays what was served.                                  *)
LEMMA PastGrows == [Next]_vars => past \subseteq past'
<1> SUFFICES ASSUME [Next]_vars PROVE past \subseteq past'
  OBVIOUS
<1>1. CASE Check \/ CutOff \/ StoreLost \/ UNCHANGED vars
  BY <1>1 DEF Check, CutOff, StoreLost, vars, Begin, FetchTimestamp, FetchStale, FetchEntry,
     FetchSnapshot, FetchTargets, RefreshFails, RaiseFloor, Resolve, Takes, publishing, held
<1>2. CASE PublisherStep
  BY <1>2 DEF PublisherStep, Publishing, Start, Pull, Resign, Publish, Proceed, Write, Upload,
     DropOld, Rename, Serves, Die, NextDay
<1>3. QED
  BY <1>1, <1>2 DEF Next

(***************************************************************************)
(* The theorems.                                                           *)
(***************************************************************************)

(* What any directory, the host and a run hold is signed files under their *)
(* names and chains of one version, whoever wrote them and died.           *)
LEMMA TypesInvariance == Spec => []TypesInv
<1>1. Init => TypesInv
  BY InitTypes
<1>2. TypesInv /\ [Next]_vars => TypesInv'
  BY StepTypes
<1>3. QED
  BY <1>1, <1>2, PTL DEF Spec

(* A check names nothing older, in any role or in its time, than what one  *)
(* accepted before (Floor::admit, Floor::raised_to), whatever was cut off, *)
(* lost or answered stale in between, for every number of versions, days   *)
(* and faults, and whoever publishes.                                      *)
THEOREM NeverGoesBack == Spec => ClientNeverGoesBack
<1>1. Init => TrustInv
  BY InitTrust
<1>2. TypesInv /\ TrustInv /\ [Next]_vars => TrustInv'
  BY StepTrust
<1>3. TypesInv /\ TrustInv /\ [Next]_vars =>
        [accepted' # accepted =>
           \A field \in DOMAIN floor : accepted.floor[field] <= accepted'.floor[field]]_vars
  BY StepTrust
<1>4. QED
  BY <1>1, <1>2, <1>3, TypesInvariance, PTL DEF Spec, ClientNeverGoesBack

(* Whatever a run was doing when it died, and whichever side publishes and *)
(* re-signs, the roles the host's entry point pins are there (chain's      *)
(* commit, put_asset, pull), and they name the newest release set that was *)
(* ever served (release_set, resign), for every number of versions,        *)
(* release sets and faults.                                                *)
THEOREM KeepsItsChain == Spec => []HostKeepsItsChain
<1>1. Init => HostInv /\ PastInv /\ LatestInv
  BY InitHost, InitPast, InitLatest
<1>2. TypesInv /\ HostInv /\ [Next]_vars => HostInv'
  BY StepHost
<1>3. TypesInv /\ HostInv /\ PastInv /\ LatestInv /\ [Next]_vars => PastInv' /\ LatestInv'
  BY StepPast, StepLatest
<1>4. HostInv /\ LatestInv => HostKeepsItsChain
  BY DEF HostInv, LatestInv, Newest, ReleaseOf, HostKeepsItsChain
<1>5. QED
  BY <1>1, <1>2, <1>3, <1>4, TypesInvariance, PTL DEF Spec

(* The release set a client names is never replaced by an older one, while *)
(* the version it holds was served as one chain: what is pushed names the  *)
(* newest set (release_set, resign, pull), what a refresh takes is one     *)
(* chain, and the floor keeps a client from an older one (Floor::admit),   *)
(* however stale the answers and whatever dies, is cut off or lost.  The   *)
(* versions may go back under it, and other versions be served twice.      *)
THEOREM ReleasesAdvance == Spec => ReleasesOnlyAdvance
<1>1. Init => HostInv /\ TrustInv /\ PastInv /\ LatestInv /\ NamedInv
  BY InitHost, InitTrust, InitPast, InitLatest, InitNamed
<1>2. TypesInv /\ HostInv /\ [Next]_vars => HostInv'
  BY StepHost
<1>3. TypesInv /\ TrustInv /\ [Next]_vars => TrustInv'
  BY StepTrust
<1>4. TypesInv /\ HostInv /\ PastInv /\ LatestInv /\ [Next]_vars => PastInv' /\ LatestInv'
  BY StepPast, StepLatest
<1>5. TypesInv /\ TrustInv /\ PastInv /\ NamedInv /\ [Next]_vars => NamedInv'
  BY StepNamed, PastGrows
<1>6. TypesInv /\ TrustInv /\ PastInv /\ NamedInv /\ [Next]_vars =>
        [ServedOnce(accepted.floor.timestamp) => accepted.release <= accepted'.release]_vars
  BY StepNamed, PastGrows
<1>7. QED
  BY <1>1, <1>2, <1>3, <1>4, <1>5, <1>6, TypesInvariance, PTL DEF Spec, ReleasesOnlyAdvance
=============================================================================
