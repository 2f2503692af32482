------------------------------- MODULE Catalog --------------------------------
(***************************************************************************)
(* The plugin catalog (crates/catalog) in the desktop player's worker loop *)
(* (crates/desktop), over the updater's thread.  Each turn of the loop     *)
(* takes a command, then ticks the catalog: the first tick lists what is   *)
(* on disk, every tick may start a check and take one finished generation, *)
(* and a pending generation is activated when nothing is mounted: its      *)
(* payload extracted, the set swapped, the record written, the rest of the *)
(* root collected; or, refused, the set before it put back.                *)
(*                                                                         *)
(* The process may end at any step, killed or having quit (a quit waits    *)
(* for the updater's thread, whose steps come before the end here).  The   *)
(* root, the payload trees and the record outlive it.                      *)
(***************************************************************************)
EXTENDS Updater, SequencesExt

CONSTANTS
  Broken,       \* generations whose archives hold no loadable tree
  Unloadable,   \* generations of which some plugin will not load
  MaxRestarts   \* how often the process starts again (bound)

ASSUME CatalogAssumption ==
  /\ Broken \subseteq Generations
  /\ Unloadable \subseteq Generations /\ MaxRestarts \in Nat

VARIABLES
  catalog,   \* booted, the boot queue, pending, loaded, and the record in memory
  payloads,  \* the committed payload trees
  record,    \* the record on disk
  backend,   \* the plugin set the player holds, and whether a song is mounted
  worker,    \* where the loop is, what it activates, whether for a mount
  restarts

vars == <<updater, catalog, payloads, record, backend, worker, restarts>>

NoSet    == [of |-> NoGen, whole |-> TRUE]
NoRecord == [active |-> NoGen, previous |-> NoGen]
NoWork   == [pc |-> "command", gen |-> NoGen, mounting |-> FALSE]

WorkerPc == {"command", "open", "tick", "take", "activate", "swap", "recover", "collect", "trees"}

NewCatalog(log) ==
  [booted |-> FALSE, bootQueue |-> <<>>, pending |-> NoGen, loaded |-> NoGen, log |-> log]

Init ==
  /\ Fresh
  /\ channel \in [newest : Generations, releases : {0}] /\ root = <<>> /\ faults = 0
  /\ catalog = NewCatalog(NoRecord)
  /\ payloads = {} /\ record = NoRecord
  /\ backend = [live |-> FALSE, set |-> NoSet]
  /\ worker = NoWork
  /\ restarts = 0

-----------------------------------------------------------------------------
(* The catalog's own state. *)

Popped(c) ==
  IF c.bootQueue = <<>> THEN [c EXCEPT !.pending = NoGen]
  ELSE [c EXCEPT !.bootQueue = Front(@), !.pending = Last(c.bootQueue)]

(* Seeded fault: only the recorded generation is a candidate. *)
BootRecorded(active) == SelectSeq(root, LAMBDA g : g = active)

(* Oldest first, the generation recorded as active after all the others.   *)
BootOrder(active) ==
  Kept(root, InRoot \ {active}) \o Kept(root, {active})

BootOnce(c) ==
  IF c.booted THEN c
  ELSE Popped([c EXCEPT !.booted = TRUE, !.bootQueue = BootOrder(c.log.active)])

(* The root cannot be listed: there are no candidates, and it is not asked *)
(* again.                                                                  *)
BootBlind(c) == Popped([c EXCEPT !.booted = TRUE, !.bootQueue = <<>>])

BootsBlind == ~catalog.booted /\ catalog' = BootBlind(catalog) /\ Fault

(* Seeded fault: re-activating the recorded generation displaces it.       *)
ActivatedTwice(log, g) == [active |-> g, previous |-> log.active]

Activated(log, g) ==
  IF log.active = g THEN log ELSE [active |-> g, previous |-> log.active]

(* Every event rewrites the whole record, best effort. *)
Persist(log) ==
  \/ record' = log /\ UNCHANGED faults
  \/ Fault /\ UNCHANGED record

Live == {worker.gen, catalog.log.previous} \ {NoGen}

(* A committed tree is trusted; else the generation's archives make one.   *)
Ensures(g) == g \notin Broken /\ (g \in payloads \/ g \in InRoot)

Holds(g, whole) == [live |-> FALSE, set |-> [of |-> g, whole |-> whole]]
HoldsNothing    == [live |-> FALSE, set |-> NoSet]

-----------------------------------------------------------------------------
(* The loop. *)

At(pc) == worker.pc = pc
Go(pc) == worker' = [worker EXCEPT !.pc = pc]

(* A mount goes on to open its song, a tick ends the turn. *)
Done == worker' = [NoWork EXCEPT !.pc = IF worker.mounting THEN "open" ELSE "command"]

(* No command, and perhaps a song that finished or would not render. *)
NoCommand ==
  /\ At("command") /\ Go("tick")
  /\ \E live \in {backend.live, FALSE} : backend' = [backend EXCEPT !.live = live]
  /\ UNCHANGED <<updater, catalog, payloads, record, restarts>>

Stop ==
  /\ At("command") /\ Go("tick") /\ backend.live
  /\ backend' = [backend EXCEPT !.live = FALSE]
  /\ UNCHANGED <<updater, catalog, payloads, record, restarts>>

CheckNow ==
  /\ At("command") /\ Go("tick")
  /\ BeginCheck
  /\ UNCHANGED <<channel, root, claims, seen, offered, catalog, payloads, record, backend,
                 restarts>>

(* A mount is a boundary: the session is closed for what is pending. *)
Play ==
  /\ At("command")
  /\ \/ catalog' = BootOnce(catalog) /\ UNCHANGED faults
     \/ BootsBlind
  /\ IF catalog'.pending = NoGen
       THEN Go("open") /\ UNCHANGED backend
       ELSE /\ worker' = [NoWork EXCEPT !.pc = "activate", !.mounting = TRUE]
            /\ backend' = [backend EXCEPT !.live = FALSE]
  /\ UNCHANGED <<channel, root, claims, seen, offered, status, job, schedule, payloads, record,
                 restarts>>

(* The song is read by a plugin of the set, if one takes it. *)
Open ==
  /\ At("open") /\ Go("tick")
  /\ \E live \in BOOLEAN : /\ live => backend.set.of # NoGen
                           /\ backend' = [backend EXCEPT !.live = live]
  /\ UNCHANGED <<updater, catalog, payloads, record, restarts>>

Tick ==
  /\ At("tick") /\ Go("take")
  /\ \/ catalog' = BootOnce(catalog) /\ TickUpdater
     \/ /\ BootsBlind
        /\ IF Due THEN StartCheck ELSE UNCHANGED <<status, job, schedule>>
  /\ UNCHANGED <<channel, root, claims, seen, offered, payloads, record, backend, restarts>>

(* Seeded fault: a pending generation does not wait for the song. *)
TakeAtOnce ==
  /\ At("take")
  /\ catalog' = IF offered = <<>> THEN catalog ELSE [catalog EXCEPT !.pending = Head(offered)]
  /\ offered' = IF offered = <<>> THEN offered ELSE Tail(offered)
  /\ Go(IF catalog'.pending = NoGen THEN "command" ELSE "activate")
  /\ UNCHANGED <<channel, root, claims, seen, status, job, schedule, faults, payloads, record,
                 backend, restarts>>

(* A finished generation supersedes the one that waits. *)
Take ==
  /\ At("take")
  /\ catalog' = IF offered = <<>> THEN catalog ELSE [catalog EXCEPT !.pending = Head(offered)]
  /\ offered' = IF offered = <<>> THEN offered ELSE Tail(offered)
  /\ Go(IF catalog'.pending = NoGen \/ backend.live THEN "command" ELSE "activate")
  /\ UNCHANGED <<channel, root, claims, seen, status, job, schedule, faults, payloads, record,
                 backend, restarts>>

-----------------------------------------------------------------------------
(* Activation. *)

AlreadyLoaded ==
  /\ At("activate") /\ catalog.pending = catalog.loaded
  /\ catalog' = [catalog EXCEPT !.pending = NoGen, !.bootQueue = <<>>]
  /\ Done
  /\ UNCHANGED <<updater, payloads, record, backend, restarts>>

Takes == /\ At("activate") /\ catalog.pending # catalog.loaded
         /\ catalog' = [catalog EXCEPT !.pending = NoGen]

Extract ==
  /\ Takes
  /\ Ensures(catalog.pending)
  /\ payloads' = payloads \cup {catalog.pending}
  /\ worker' = [worker EXCEPT !.pc = "swap", !.gen = catalog.pending]
  /\ UNCHANGED <<updater, record, backend, restarts>>

ExtractFails ==
  /\ Takes
  /\ \/ ~Ensures(catalog.pending) /\ Persist(catalog.log)
     \/ Fault /\ UNCHANGED record
  /\ worker' = [worker EXCEPT !.pc = "recover", !.gen = catalog.pending]
  /\ UNCHANGED <<channel, root, claims, seen, offered, status, job, schedule, payloads, backend,
                 restarts>>

(* The old set is gone before the new one loads. *)
Accept ==
  /\ At("swap") /\ worker.gen \notin Unloadable
  /\ backend' = Holds(worker.gen, TRUE)
  /\ catalog' = [catalog EXCEPT !.loaded = worker.gen, !.bootQueue = <<>>,
                                !.log = Activated(@, worker.gen)]
  /\ Persist(catalog'.log)
  /\ Go("collect")
  /\ UNCHANGED <<channel, root, claims, seen, offered, status, job, schedule, payloads, restarts>>

Refuse ==
  /\ At("swap")
  /\ \/ worker.gen \in Unloadable /\ Persist(catalog.log)
     \/ Fault /\ UNCHANGED record
  /\ backend' = Holds(worker.gen, FALSE)
  /\ Go("recover")
  /\ UNCHANGED <<channel, root, claims, seen, offered, status, job, schedule, catalog, payloads,
                 restarts>>

(* Seeded fault: the refused set is left in place. *)
NextCandidateOnly ==
  /\ At("recover") /\ catalog.loaded = NoGen
  /\ catalog' = Popped(catalog)
  /\ Done
  /\ UNCHANGED <<updater, payloads, record, backend, restarts>>

(* Nothing was resident: the refused set goes, the next candidate waits.   *)
NextCandidate ==
  /\ At("recover") /\ catalog.loaded = NoGen
  /\ backend' = HoldsNothing
  /\ catalog' = Popped(catalog)
  /\ Done
  /\ UNCHANGED <<updater, payloads, record, restarts>>

FallBack ==
  LET previous == catalog.loaded
  IN  /\ At("recover") /\ previous # NoGen
      /\ previous \in InRoot /\ Ensures(previous) /\ previous \notin Unloadable
      /\ payloads' = payloads \cup {previous}
      /\ backend' = Holds(previous, TRUE)
      /\ Persist(catalog.log)
      /\ Done
      /\ UNCHANGED <<channel, root, claims, seen, offered, status, job, schedule, catalog,
                     restarts>>

(* The generation before it is not there any more, or does not load. *)
GiveUp ==
  LET previous == catalog.loaded
  IN  /\ At("recover") /\ previous # NoGen
      /\ \/ /\ ~(previous \in InRoot /\ Ensures(previous) /\ previous \notin Unloadable)
            /\ Persist(catalog.log)
         \/ Fault /\ UNCHANGED record
      /\ backend' = HoldsNothing
      /\ catalog' = [catalog EXCEPT !.loaded = NoGen]
      /\ Done
      /\ UNCHANGED <<channel, root, claims, seen, offered, status, job, schedule, payloads,
                     restarts>>

(* What the activation retired: the generations, then their trees. *)
Collect ==
  /\ At("collect") /\ Go("trees")
  /\ \/ root' = Retained(Live) /\ UNCHANGED faults
     \/ Fault /\ UNCHANGED root
  /\ UNCHANGED <<channel, claims, seen, offered, status, job, schedule, catalog, payloads,
                 record, backend, restarts>>

CollectTrees ==
  /\ At("trees") /\ Done
  /\ payloads' = payloads \cap Live
  /\ UNCHANGED <<updater, catalog, record, backend, restarts>>

-----------------------------------------------------------------------------

Restart ==
  /\ restarts < MaxRestarts /\ restarts' = restarts + 1
  /\ Restarted
  /\ catalog' = NewCatalog(record)
  /\ backend' = HoldsNothing
  /\ worker' = NoWork
  /\ UNCHANGED <<payloads, record>>

host == <<catalog, payloads, record, backend, worker, restarts>>

Worker ==
  \/ NoCommand \/ Stop \/ CheckNow \/ Play \/ Open \/ Tick \/ Take
  \/ AlreadyLoaded \/ Extract \/ ExtractFails \/ Accept \/ Refuse
  \/ NextCandidate \/ FallBack \/ GiveUp \/ Collect \/ CollectTrees

UpdaterThread == Job /\ UNCHANGED host
Clock         == Elapse /\ UNCHANGED host
Publisher     == \E g \in Generations : ReleaseSet(g) /\ UNCHANGED host

Next == Worker \/ UpdaterThread \/ Clock \/ Publisher \/ Restart

Spec == Init /\ [][Next]_vars

(* Both threads run and time passes; nothing makes the user type.          *)
FairSpec == Spec /\ WF_vars(Worker) /\ WF_vars(UpdaterThread) /\ WF_vars(Clock)

-----------------------------------------------------------------------------

(* activate, recover: whenever a song can be mounted or a turn begins, the *)
(* set the player holds is the whole set of the generation the catalog     *)
(* says is loaded, or none: never one that was refused.                    *)
LoadedIsResident ==
  ~At("recover") => backend.set = IF catalog.loaded = NoGen THEN NoSet
                             ELSE [of |-> catalog.loaded, whole |-> TRUE]

(* tick, mount: a song plays to its end on the set it started with, and no *)
(* activation ends it.                                                     *)
SongKeepsItsSet ==
  [][backend.live /\ restarts' = restarts =>
       /\ backend'.set = backend.set
       /\ ~backend'.live => worker.pc \in {"command", "open"}]_vars

(* clean_up: what is loaded can be loaded again, its generation and its    *)
(* tree on disk; so can the generation before it, which is another one,    *)
(* while no write of the record was lost.                                  *)
FallbackIsKept ==
  LET previous == catalog.log.previous
  IN  /\ catalog.loaded # NoGen => /\ catalog.loaded \in InRoot
                                   /\ catalog.loaded \in payloads
      /\ previous # NoGen => previous # catalog.log.active
      /\ previous # NoGen /\ faults = 0 => previous \in InRoot

(* boot_once, recover: until this process has published anything, a        *)
(* catalog with nothing loaded and nothing waiting has tried all it found: *)
(* no generation that loads clean is left on disk.                         *)
BootTriesAll ==
  /\ catalog.booted /\ At("command") /\ catalog.loaded = NoGen /\ catalog.pending = NoGen
  /\ seen = {} /\ faults = 0
  => InRoot \ {job.plan} \subseteq Broken \cup Unloadable

(* The schedule: whatever fails, the channel is asked again, and again.    *)
ChannelIsAskedAgain == []<>(job.pc = "check")

(* lib.rs 113: pending is "A completed generation waiting for the          *)
(* mount/stop boundary."  So what waits is still on disk to be loaded.     *)
OfferedIsKept == catalog.pending # NoGen => catalog.pending \in InRoot
=============================================================================
