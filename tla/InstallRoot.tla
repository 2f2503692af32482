----------------------------- MODULE InstallRoot -----------------------------
(***************************************************************************)
(* The install root (apply/install.rs) and the applies that publish        *)
(* generations into it (apply/mod.rs): the claims, the transfers an apply  *)
(* holds in the queue, the files it places, the record it writes last, and *)
(* the janitor that collects generations.  The completions an apply offers *)
(* are Updater's.                                                          *)
(*                                                                         *)
(* An apply and the janitor run on threads of their own; between them they *)
(* have the claims, under a lock taken for one look or one count, and the  *)
(* file system, whose calls are steps of their own.  The queue is what     *)
(* TransferQueue promises: an entry is Pending, gets a worker, and settles *)
(* once.  Whether a landed file is the artifact is DownloadCache's         *)
(* business: here place succeeds or refuses.                               *)
(***************************************************************************)
EXTENDS Integers, FiniteSets

CONSTANTS
  Appliers,      \* applies that may run at once
  Generations,   \* generation ids
  NumArtifacts,  \* artifacts every plan names
  QueueMax,      \* slots of the transfer queue
  MayFail,       \* whether transfers and file-system calls may fail
  MayCrash       \* whether the process may crash and restart

ASSUME AppliersAssumption == IsFiniteSet(Appliers)
ASSUME PlanAssumption     == NumArtifacts \in Nat /\ QueueMax \in Nat \ {0}
ASSUME FaultsAssumption   == {MayFail, MayCrash} \subseteq BOOLEAN

Artifacts == 1..NumArtifacts

(* A temporary file never takes the name of an artifact. *)
ASSUME NamesAssumption == Appliers \cap Artifacts = {}

VARIABLES
  made,     \* generations whose directory exists
  files,    \* generation -> the artifacts and temporary files in its directory
  record,   \* generations whose record exists
  doubted,  \* history: recorded by an apply that claimed inside a collection
  claims,   \* generation -> publish claims on it
  app,      \* applier -> where its apply stands
  entry,    \* applier -> artifact -> the state of its queue entry
  janitor   \* where the collection stands

vars        == <<made, files, record, doubted, claims, app, entry, janitor>>
disk        == <<made, files, record, doubted>>

(* The temporary file of an applier goes by the applier's name. *)
Names == Artifacts \cup Appliers
NoGen == "none"

(* late is history: the claim was taken while the janitor, whose one look   *)
(* at the claims was over, was collecting the very generation.             *)
Idle ==
  [pc |-> "idle", plan |-> NoGen, late |-> FALSE, next |-> 1, active |-> {},
   placed |-> {}, item |-> 0]

Pc == {"idle", "resolve", "claim", "mkdir", "acquire", "persist", "placed", "cancel",
       "drain", "refused", "published"}

Apply ==
  [pc : Pc, plan : Generations \cup {NoGen}, late : BOOLEAN, next : 1..(NumArtifacts + 1),
   active : SUBSET Artifacts, placed : SUBSET Artifacts, item : 0..NumArtifacts]

EntryState ==
  {"free", "Pending", "Downloading", "stopping", "Complete", "Failed", "Cancelled"}

Resting == [pc |-> "idle", todo |-> {}, live |-> {}, id |-> NoGen, listed |-> {}]

Collection ==
  [pc : {"idle", "next", "unrecord", "open", "unlink"}, todo : SUBSET Generations,
   live : SUBSET Generations, id : Generations \cup {NoGen}, listed : SUBSET Names]

Init ==
  /\ made = {}
  /\ files = [g \in Generations |-> {}]
  /\ record = {} /\ doubted = {}
  /\ claims = [g \in Generations |-> 0]
  /\ app = [a \in Appliers |-> Idle]
  /\ entry = [a \in Appliers |-> [i \in Artifacts |-> "free"]]
  /\ janitor = Resting

(***************************************************************************)
(* Shorthands.                                                             *)
(***************************************************************************)

Plan(a)            == app[a].plan
Become(a, apply)   == app' = [app EXCEPT ![a] = apply]
Goto(a, from, to)  == app[a].pc = from /\ app' = [app EXCEPT ![a].pc = to]
SetEntry(a, i, s)  == entry' = [entry EXCEPT ![a][i] = s]

InUse == {e \in Appliers \X Artifacts : entry[e[1]][e[2]] # "free"}

(* The janitor has looked at the claims on g and is removing it. *)
Collecting(g) == janitor.pc \in {"unrecord", "open", "unlink"} /\ janitor.id = g

(* An apply holds its claim from claim() until publish returns. *)
Holding == {"mkdir", "acquire", "persist", "placed", "cancel", "drain", "refused", "published"}
Holders(g) == {a \in Appliers : app[a].pc \in Holding /\ app[a].plan = g}

(***************************************************************************)
(* An apply: resolve, claim, make the directory.                           *)
(***************************************************************************)

Begin(a, g) ==
  /\ app[a].pc = "idle" /\ Become(a, [Idle EXCEPT !.pc = "resolve", !.plan = g])
  /\ UNCHANGED <<disk, claims, entry, janitor>>

(* What is recorded already is taken for whole, and is the answer. *)
ResolveInstalled(a) ==
  /\ app[a].pc = "resolve" /\ Plan(a) \in record /\ Become(a, Idle)
  /\ UNCHANGED <<disk, claims, entry, janitor>>

ResolveMissing(a) ==
  /\ Goto(a, "resolve", "claim") /\ Plan(a) \notin record
  /\ UNCHANGED <<disk, claims, entry, janitor>>

(* A count under the lock, which waits for no collection.                  *)
Claim(a) ==
  /\ app[a].pc = "claim"
  /\ Become(a, [app[a] EXCEPT !.pc = "mkdir", !.late = Collecting(Plan(a))])
  /\ claims' = [claims EXCEPT ![Plan(a)] = @ + 1]
  /\ UNCHANGED <<disk, entry, janitor>>

MakeDir(a) ==
  /\ Goto(a, "mkdir", "acquire")
  /\ made' = made \cup {Plan(a)}
  /\ UNCHANGED <<files, record, doubted, claims, entry, janitor>>

(* A file-system call fails, or the plan's paths collide. *)
PublishFails(a) ==
  /\ MayFail /\ app[a].pc \in {"mkdir", "placed"}
  /\ app' = [app EXCEPT ![a].pc = "refused"]
  /\ UNCHANGED <<disk, claims, entry, janitor>>

(***************************************************************************)
(* acquire: queue what the queue has room for, place what has landed.      *)
(***************************************************************************)

QueueArtifact(a) ==
  LET i == app[a].next
  IN  /\ app[a].pc = "acquire" /\ i \in Artifacts
      /\ Cardinality(InUse) < QueueMax
      /\ SetEntry(a, i, "Pending")
      /\ Become(a, [app[a] EXCEPT !.next = i + 1, !.active = @ \cup {i}])
      /\ UNCHANGED <<disk, claims, janitor>>

(* place: the parent directory, then a copy under a temporary name. *)
CopyArtifact(a, i) ==
  /\ app[a].pc = "acquire" /\ i \in app[a].active /\ entry[a][i] = "Complete"
  /\ made' = made \cup {Plan(a)}
  /\ files' = [files EXCEPT ![Plan(a)] = @ \cup {a}]
  /\ Become(a, [app[a] EXCEPT !.pc = "persist", !.item = i])
  /\ UNCHANGED <<record, doubted, claims, entry, janitor>>

(* Seeded fault: the slot of a placed artifact is kept. *)
PersistKeepsSlot(a) ==
  LET i == app[a].item
  IN  /\ app[a].pc = "persist" /\ a \in files[Plan(a)]
      /\ files' = [files EXCEPT ![Plan(a)] = (@ \ {a}) \cup {i}]
      /\ Become(a, [app[a] EXCEPT !.pc = "acquire", !.active = @ \ {i},
                                  !.placed = @ \cup {i}])
      /\ UNCHANGED <<made, record, doubted, claims, entry, janitor>>

(* The verified copy is renamed into place and the slot is given back. *)
PersistArtifact(a) ==
  LET i == app[a].item
  IN  /\ app[a].pc = "persist" /\ a \in files[Plan(a)]
      /\ files' = [files EXCEPT ![Plan(a)] = (@ \ {a}) \cup {i}]
      /\ SetEntry(a, i, "free")
      /\ Become(a, [app[a] EXCEPT !.pc = "acquire", !.active = @ \ {i},
                                  !.placed = @ \cup {i}])
      /\ UNCHANGED <<made, record, doubted, claims, janitor>>

(* The copy does not verify, or it went from under the rename. *)
PersistFails(a) ==
  /\ Goto(a, "persist", "cancel")
  /\ MayFail \/ a \notin files[Plan(a)]
  /\ files' = [files EXCEPT ![Plan(a)] = @ \ {a}]
  /\ UNCHANGED <<made, record, doubted, claims, entry, janitor>>

(* settle refuses an entry that failed or was cancelled, or place fails    *)
(* before it has a copy.                                                   *)
RefuseArtifact(a, i) ==
  /\ Goto(a, "acquire", "cancel") /\ i \in app[a].active
  /\ entry[a][i] \in {"Failed", "Cancelled"} \cup (IF MayFail THEN {"Complete"} ELSE {})
  /\ UNCHANGED <<disk, claims, entry, janitor>>

(* request_for refuses the digest the plan gives the next artifact. *)
RefuseRequest(a) ==
  /\ MayFail /\ app[a].next \in Artifacts /\ Goto(a, "acquire", "cancel")
  /\ UNCHANGED <<disk, claims, entry, janitor>>

AcquiredAll(a) ==
  /\ Goto(a, "acquire", "placed")
  /\ app[a].next \notin Artifacts /\ app[a].active = {}
  /\ UNCHANGED <<disk, claims, entry, janitor>>

(***************************************************************************)
(* Acquisition::drop: cancel what is in flight, then wait for every slot.  *)
(***************************************************************************)

(* What cancel makes of an entry. *)
Cancelling(s) ==
  CASE s = "Pending"     -> "Cancelled"
    [] s = "Downloading" -> "stopping"
    [] OTHER             -> s

CancelActive(a) ==
  /\ Goto(a, "cancel", "drain")
  /\ entry' = [entry EXCEPT ![a] = [i \in Artifacts |-> Cancelling(@[i])]]
  /\ UNCHANGED <<disk, claims, janitor>>

(* Seeded fault: an entry the queue would not free yet is left behind. *)
RemoveOnce(a, i) ==
  /\ app[a].pc = "drain" /\ i \in app[a].active
  /\ IF entry[a][i] \in {"Downloading", "stopping"} THEN UNCHANGED entry
     ELSE SetEntry(a, i, "free")
  /\ Become(a, [app[a] EXCEPT !.active = @ \ {i}])
  /\ UNCHANGED <<disk, claims, janitor>>

RemoveActive(a, i) ==
  /\ app[a].pc = "drain" /\ i \in app[a].active
  /\ entry[a][i] \notin {"Downloading", "stopping"}
  /\ SetEntry(a, i, "free")
  /\ Become(a, [app[a] EXCEPT !.active = @ \ {i}])
  /\ UNCHANGED <<disk, claims, janitor>>

Drained(a) ==
  /\ Goto(a, "drain", "refused") /\ app[a].active = {}
  /\ UNCHANGED <<disk, claims, entry, janitor>>

(***************************************************************************)
(* The end of an apply.                                                    *)
(***************************************************************************)

(* The record is written last, atomically. *)
WriteRecord(a) ==
  /\ Goto(a, "placed", "published")
  /\ record' = record \cup {Plan(a)}
  /\ doubted' = IF app[a].late THEN doubted \cup {Plan(a)} ELSE doubted \ {Plan(a)}
  /\ UNCHANGED <<made, files, claims, entry, janitor>>

(* Seeded faults: a flat set of claims, which the first to finish empties; *)
(* a claim released by a publish that succeeds alone.                      *)
ReleasedFlat(a) == [claims EXCEPT ![Plan(a)] = 0]

ReleasedOnSuccess(a) ==
  IF app[a].pc = "published" THEN [claims EXCEPT ![Plan(a)] = @ - 1] ELSE claims

(* Publishing::drop, on the failing path as much as on the other. *)
Released(a) == [claims EXCEPT ![Plan(a)] = @ - 1]

ReleaseClaim(a) ==
  /\ app[a].pc \in {"published", "refused"} /\ Become(a, Idle)
  /\ claims' = Released(a)
  /\ UNCHANGED <<disk, entry, janitor>>

(***************************************************************************)
(* The queue, as an apply sees it.                                         *)
(***************************************************************************)

StartTransfer(a, i) ==
  /\ entry[a][i] = "Pending" /\ SetEntry(a, i, "Downloading")
  /\ UNCHANGED <<disk, claims, app, janitor>>

(* A transfer settles; one that was asked to stop settles Cancelled. *)
SettleTransfer(a, i) ==
  /\ \/ entry[a][i] = "Downloading"
        /\ \E s \in {"Complete"} \cup (IF MayFail THEN {"Failed"} ELSE {}) :
             SetEntry(a, i, s)
     \/ entry[a][i] = "stopping" /\ SetEntry(a, i, "Cancelled")
  /\ UNCHANGED <<disk, claims, app, janitor>>

(* Updater::cancel, which stops every transfer and so fails the apply. *)
CancelAll ==
  /\ MayFail
  /\ entry' = [a \in Appliers |-> [i \in Artifacts |-> Cancelling(entry[a][i])]]
  /\ entry' # entry
  /\ UNCHANGED <<disk, claims, app, janitor>>

(***************************************************************************)
(* retain.                                                                 *)
(***************************************************************************)

(* The ids the root holds, as directories or as records. *)
Retain(live) ==
  /\ janitor.pc = "idle"
  /\ janitor' = [Resting EXCEPT !.pc = "next", !.todo = made \cup record, !.live = live]
  /\ UNCHANGED <<disk, claims, app, entry>>

KeepGeneration(g) ==
  /\ janitor.pc = "next" /\ g \in janitor.todo
  /\ g \in janitor.live \/ claims[g] > 0
  /\ janitor' = [janitor EXCEPT !.todo = @ \ {g}]
  /\ UNCHANGED <<disk, claims, app, entry>>

(* One look at the claims; nothing is held once it is over. *)
CollectGeneration(g) ==
  /\ janitor.pc = "next" /\ g \in janitor.todo
  /\ g \notin janitor.live /\ claims[g] = 0
  /\ janitor' = [janitor EXCEPT !.pc = "unrecord", !.id = g, !.todo = @ \ {g}]
  /\ UNCHANGED <<disk, claims, app, entry>>

(* The record goes first. *)
RemoveRecord ==
  /\ janitor.pc = "unrecord"
  /\ record' = record \ {janitor.id}
  /\ doubted' = doubted \ {janitor.id}
  /\ janitor' = [janitor EXCEPT !.pc = "open"]
  /\ UNCHANGED <<made, files, claims, app, entry>>

(* remove_dir_all: what the directory holds when it is opened is unlinked, *)
(* what arrives later may be.                                              *)
OpenDir ==
  /\ janitor.pc = "open"
  /\ janitor' = IF janitor.id \in made
                THEN [janitor EXCEPT !.pc = "unlink", !.listed = files[janitor.id]]
                ELSE [janitor EXCEPT !.pc = "next", !.id = NoGen]
  /\ UNCHANGED <<disk, claims, app, entry>>

UnlinkFile(name) ==
  /\ janitor.pc = "unlink" /\ name \in files[janitor.id]
  /\ files' = [files EXCEPT ![janitor.id] = @ \ {name}]
  /\ janitor' = [janitor EXCEPT !.listed = @ \ {name}]
  /\ UNCHANGED <<made, record, doubted, claims, app, entry>>

(* The directory goes, or something landed in it and retain gives up. *)
RemoveDir ==
  LET id == janitor.id
  IN  /\ janitor.pc = "unlink" /\ janitor.listed \cap files[id] = {}
      /\ IF files[id] = {}
         THEN /\ made' = made \ {id}
              /\ janitor' = [janitor EXCEPT !.pc = "next", !.id = NoGen, !.listed = {}]
         ELSE UNCHANGED made /\ janitor' = Resting
      /\ UNCHANGED <<files, record, doubted, claims, app, entry>>

RetainFails ==
  /\ MayFail /\ janitor.pc \in {"unrecord", "open", "unlink"}
  /\ janitor' = Resting
  /\ UNCHANGED <<disk, claims, app, entry>>

RetainDone ==
  /\ janitor.pc = "next" /\ janitor.todo = {}
  /\ janitor' = Resting
  /\ UNCHANGED <<disk, claims, app, entry>>

(***************************************************************************)
(* The specification.                                                      *)
(***************************************************************************)

(* The directories and records outlive the process; nothing else does. *)
Crash ==
  /\ MayCrash
  /\ claims' = [g \in Generations |-> 0]
  /\ app' = [a \in Appliers |-> Idle]
  /\ entry' = [a \in Appliers |-> [i \in Artifacts |-> "free"]]
  /\ janitor' = Resting
  /\ UNCHANGED disk

(* What an apply does when it can: nothing here fails unless it must, so   *)
(* that no apply may count on a failure to end its wait.                   *)
Advancing(a) ==
  \/ ResolveInstalled(a) \/ ResolveMissing(a) \/ Claim(a) \/ MakeDir(a)
  \/ QueueArtifact(a) \/ PersistArtifact(a) \/ PersistFails(a)
  \/ AcquiredAll(a) \/ CancelActive(a) \/ Drained(a)
  \/ WriteRecord(a) \/ ReleaseClaim(a)
  \/ \E i \in Artifacts : CopyArtifact(a, i) \/ RefuseArtifact(a, i) \/ RemoveActive(a, i)

Publishing(a) == Advancing(a) \/ PublishFails(a) \/ RefuseRequest(a)

Transferring(a, i) == StartTransfer(a, i) \/ SettleTransfer(a, i)

Retaining ==
  \/ RemoveRecord \/ OpenDir \/ RemoveDir \/ RetainFails \/ RetainDone
  \/ \E g \in Generations : KeepGeneration(g) \/ CollectGeneration(g)
  \/ \E name \in Names : UnlinkFile(name)

Next ==
  \/ \E a \in Appliers :
       \/ \E g \in Generations : Begin(a, g)
       \/ Publishing(a)
       \/ \E i \in Artifacts : Transferring(a, i)
  \/ \E live \in SUBSET Generations : Retain(live)
  \/ Retaining
  \/ CancelAll
  \/ Crash

Spec == Init /\ [][Next]_vars

(* Threads run and peers end their bodies; nobody has to call anything.    *)
FairSpec ==
  /\ Spec
  /\ WF_vars(Retaining)
  /\ \A a \in Appliers :
       /\ WF_vars(Advancing(a))
       /\ \A i \in Artifacts : WF_vars(Transferring(a, i))

(***************************************************************************)
(* Properties.                                                             *)
(***************************************************************************)

(* Every variable keeps its type, and no claim outlives its apply: there   *)
(* are never more claims on a generation than applies.                     *)
TypeOK ==
  /\ made \subseteq Generations
  /\ files \in [Generations -> SUBSET Names]
  /\ record \subseteq Generations
  /\ doubted \subseteq record
  /\ claims \in [Generations -> 0..Cardinality(Appliers)]
  /\ app \in [Appliers -> Apply]
  /\ entry \in [Appliers -> [Artifacts -> EntryState]]
  /\ janitor \in Collection

(* Nothing ever advertises a half-applied generation (apply/mod.rs): a     *)
(* generation with a record has its directory and every artifact in it,    *)
(* whatever applies, failures, collections and crashes came before.  Left  *)
(* out are the records written by an apply whose claim came after the      *)
(* janitor's look at the claims and before the end of its collection.      *)
RecordedIsWhole ==
  \A g \in record \ doubted : g \in made /\ Artifacts \subseteq files[g]

(* What retain's comment claims with no such exception: a generation being *)
(* published is not collected, so a record never outlives its files.       *)
NothingHalfApplied ==
  \A g \in record : g \in made /\ Artifacts \subseteq files[g]

(* No slot is leaked (Acquisition): every slot in use is one its apply     *)
(* still tracks, whichever way the apply is going to end.                  *)
SlotsAreTracked ==
  \A a \in Appliers, i \in Artifacts : entry[a][i] # "free" => i \in app[a].active

(* Applies never wait for each other for ever, although their plans name   *)
(* more artifacts than there are slots, and one that has the queue to      *)
(* itself returns, whatever fails (acquire, Acquisition::drop).            *)
Returned(a) == app[a].pc = "idle"

ApplyReturns ==
  /\ (\A a \in Appliers : ~Returned(a)) ~> (\E a \in Appliers : Returned(a))
  /\ \A a \in Appliers :
       <>[](\A b \in Appliers \ {a} : Returned(b)) => (~Returned(a) ~> Returned(a))
=============================================================================
