# Retrovert in TLA+

This directory specifies the concurrent and crash-exposed parts of Retrovert, a
module player whose decoders are plugins updated over a signed channel. The
modules are translations of the Rust (and, for the shim, C++) source under
`src/`; TLC checks them on small instances, and TLAPS proves the central
invariants for every instance. `PROJECT.json` lists the runs, the lines each
definition stands for, the hazards the properties are aimed at, the theorems,
and one seeded fault per property that shows the property can fail.

Contents: [the system](#1-the-system), [the modules](#2-the-modules),
[the transfer queue](#3-the-transfer-queue), [the download cache](#4-the-download-cache),
[the install root](#5-the-install-root), [the channel](#6-the-channel),
[the updater and the catalog](#7-the-updater-and-the-catalog),
[the playlist](#8-the-playlist), [the player and the bridge](#9-the-player-and-the-bridge),
[the surfaces](#10-the-surfaces), [runs](#11-what-each-run-shows),
[fairness](#12-fairness), [proofs](#13-proofs),
[disagreements found](#14-where-the-code-and-its-documentation-part),
[limits](#15-what-is-only-model-checked-and-what-is-not-modelled).

To repeat everything, in this directory:

    tlc -workers 2 -config QueueFaults.cfg MCTransferQueue.tla   # any .cfg of section 11
    tlapm TransferQueueProofs.tla                                # any module named *Proofs

## 1. The system

A player (`ui-quickshell`, or `crates/desktop` on a terminal) has one worker
thread that owns a `PlayerBackend` and a `PluginCatalog`. The catalog owns an
`Updater`, which checks a TUF channel, downloads a release set through a
transfer queue into a content-addressed cache, and publishes it as a
*generation*: a directory of verified artifacts and, written last, a record.
The catalog activates a new generation when no song is mounted. The release set
is produced by `crates/publish`.

    publish ==chain of four files==> channel ==manifest==> check ==plan==> apply
                                                                            |
                     cache  <==bytes==  transfer queue  <==requests=========+
                       |                                                    |
                       +=======verified copy=====> generation, record ======+
                                                        |
       backend  <==plugin set==  catalog  <==completions+      (audio thread)
          |
       playlist engine, bridge  ==snapshots==> UI

### Components

**Transfer queue** (`crates/updater/src/queue`). *State:* an array of slots
(`Entry`: state, priority, queued-at, the requests on it), per worker the slot
it has claimed, the published handles of the running downloads, `running`.
*Operations:* `queue`, `cancel`, `cancel_all`, `pause`, `resume`, `remove`,
`drop`, and on the workers claim, process, settle, retire. *Interaction:*
callers on any thread, one mutex, a condition variable, a start hook of the
host, worker threads spawned on demand. *Hard:* the mutex is let go between
claim and settle, so every call can land inside a transfer; the handle of a
transfer appears late; a hook may panic and a spawn may fail; drop has to stop
transfers it cannot see yet. *Right when:* no slot is freed under a worker, a
promised cancel or shutdown arrives whichever window it lands in, user work
preempts background work and background work always comes back.

**Download cache and transport** (`crates/updater/src/transport`, and
`process`/`transfer` of the queue). *State:* a file and a sidecar per digest,
the running digest of each attempt. *Operations:* check, resume, create,
stream, pause, discard, complete, validate, evict; the copy an apply takes.
*Hard:* several file-system calls per step with a crash or another transfer of
the same digest between them; servers that send too much, too little, or
another resource; several attempts on one file. *Right when:* nothing but the
verified artifact is ever placed, the in-flight digest has seen what is on
disk, and no state on disk wedges the entry.

**Apply and install root** (`crates/updater/src/apply`). *State:* generation
directories, records, claim counts, the queue entries an apply still tracks,
the completions. *Operations:* `Applier::apply` and `fetch`, `claim`,
`record`, `retain`, `resolve`, `Completions::offer`/`next`. *Hard:* applies
and a janitor meet on claims held under a lock for one look at a time, and on
a directory that nothing locks; plans larger than the queue; failures half-way
with transfers in flight; crashes between files and record. *Right when:* a
record stands only for a whole generation, no slot is leaked, an apply returns.

**Updater facade** (`crates/updater/src/updater`). *State:* the phase (Idle,
Checking, Applying), at most one job thread, the schedule (last check, interval,
backoff, capped), the current plan and status. *Operations:* `tick`,
`check_now`, `apply`, `fetch`, `pause`, `resume`, `cancel`, `evict_cached`,
`next_completed`, `poll`, `retain`, drop. *Hard:* a job that goes on to apply
after cancel or drop have looked; a clock that steps back under the schedule;
an up-to-date answer about a generation collected meanwhile. *Right when:* one
job at a time, drop returns, a failure backs off and a success is not retried.

**Check, plan and log** (`crates/updater/src/check`). *State:* a bounded log of
outcomes. *Operations:* one check; `Plan::select`, a pure selection of the
artifacts for a target. *Right when:* a check's outcome names what was decided.

**Channel and trust store** (`crates/updater/src/channel`). *State:* the floor
(versions once trusted), the verified metadata beside it, the last time
verified against. *Operations:* authenticate: network time, refresh, floor
check, manifest. *Hard:* separate writes with crashes between them, a clock
that goes back, a channel replaced while it is read. *Right when:* no older
chain is accepted after a newer one, whatever is lost.

**TUF data** (`crates/tuf`) and **publishing tool** (`crates/publish`).
*State:* a chain of versioned roles, committed by four writes: the manifest,
`N.targets.json`, `N.snapshot.json`, then `timestamp.json`, the commit point.
*Operations:* init, publish, resign, verify, pull, push. *Hard:* a publisher
that dies between writes and runs again, a client that reads in between,
expiry. *Right when:* a client sees the old chain or the new one.

**Plugin catalog** (`crates/catalog`). *State:* pending generation, boot
candidates, loaded generation, activation record, payload store. *Operations:*
`tick`, `mount`, boot, activate, recover, clean-up. *Hard:* it calls `retain`
with what it knows while the updater publishes what it does not know yet;
activation drops the old set before the new one has loaded; the record is
written after the swap and best-effort. *Right when:* `loaded` names the set in
the backend, nothing loads under a mounted song, and a generation the next boot
needs is not collected.

**Player backend** (`crates/player`). *State:* plugin set, session, status.
*Operations:* mount, close, swap plugins, render, seek. *Right when:* a session
never outlives the plugin set it was opened with. Decoding is behind the
plugin ABI of another repository.

**Playlist engine** (`crates/playlist`). *State:* playlists with revisions, the
cursor with a pending advance, a count of failures, whether the current item
was removed. *Operations:* edits, start/stop/next/previous, finished/failed,
poll, save/load. *Hard:* edits under a pending advance; lists of items that all
fail. *Right when:* the cursor names an item of its list, poll hands out every
item once, and a list of failures stops.

**Bridge engine** (`ui-quickshell/bridge`). *State:* the command channel, the
worker's queue, library rows, the walk in progress, the published front and
documents. *Operations:* the 14 commands, the decode loop, quit. *Hard:* a walk
that answers late; commands that reach a song already ended; a quit that gives
the worker half a second. *Right when:* rows are listed once, and what is
published belongs to the song that is mounted.

**Presentation buffers and shim** (`crates/present`,
`ui-quickshell/shim`). *State:* the trace, the pattern grid and the meter of
the song; in the UI, the revisions it has seen, the documents it has read and
what it has painted. *Operations:* capture, song replaced, front copied; poll,
read, paint. *Hard:* text and revision change under different locks, a read is
two calls, a paint uses a cursor polled earlier. *Right when:* nothing stale
stays on screen once the worker rests.

**Desktop player** (`crates/desktop`). A worker loop over a catalog and a
backend, commands from a terminal. **Library** (`crates/library`). A directory
walk and the description of one file, used by the bridge's scan.

**Launcher, QML, plugin harness, test support**: start-up and layout; C and
Python probes; fixtures. No shared state of their own, and not modelled.

## 2. The modules

| module | models | stands on | proofs |
|---|---|---|---|
| `EntryPolicy` | which entry runs, yields, comes back | | |
| `TransferQueue` | the queue and its workers | `EntryPolicy` | `TransferQueueProofs` |
| `EntryLifecycle` | what the queue promises about one entry; `TransferQueue` implements it | | `TransferQueueProofs` |
| `DownloadCache` | one cache entry, its transfers, the copy an apply takes | | `DownloadCacheProofs` |
| `InstallRoot` | applies, claims, records, janitor | the queue as its contract | `InstallRootProofs` |
| `ReleaseChain` | workspace, re-signing job, release host | | |
| `ChannelTrust` | a client's check, its store and floor | `ReleaseChain` | `ChannelTrustProofs` |
| `Updater` | the check-and-apply thread, schedule, completions, root | an apply and a collection, of which `InstallRoot` has the steps | |
| `Catalog` | boot, activation, recovery, clean-up; the desktop's loop | `Updater` | `CatalogProofs` |
| `PlaylistOps`, `PlaylistEngine` | the engine's calls as functions; the engine driven by a host that edits, saves and plays | | `PlaylistProofs` |
| `Player` | the backend's session as functions | | |
| `Bridge` | command channel, worker loop, scan, close | `PlaylistOps`, `Player` | `BridgeProofs` |
| `Surfaces` | buffers, front and documents, the polling UI | | `SurfacesProofs` |

Each `MC*` module gives one of these the small sets its configuration needs.
Two state machines that own a third (the bridge a playlist and a backend, the
catalog an updater) are composed in one of two ways. Where the owner calls the
other on its own thread, the other is written as functions of a record, and the
owner's action composes them as the code does; so one turn of the bridge's loop
that mounts a track and reports its failure is one step. Where the other has a
thread, its module has the actions and the owner's module interleaves them.

*What would come next.* An abstract install root (a generation goes from absent
to whole in one step) implemented by `InstallRoot`, so that `Catalog` could rest
on the implementation; `Updater::apply`, `fetch`, `pause` and `cancel`, once
something in the repository calls them.

**Seeded faults.** Beside some operators stands a second one of the same
parameters whose comment starts with "Seeded fault". It is the same code with a
plausible mistake (a guard dropped, a count reset instead of decremented, a
sidecar written too early). It is used by no specification; putting it in place
of its neighbour makes the property named in `PROJECT.json` fail in its run.

## 3. The transfer queue

`EntryPolicy.tla` is `queue/entry.rs`: the pure policy over slot records.
Which pending entry runs next (priority, then age, then index), which running
entry yields to user work, when preempted work comes back, and when each
request applies. `TransferQueue.tla` is `queue/mod.rs` over it, and
`EntryLifecycle.tla` is the abstract specification of one entry.

| state | in the code |
|---|---|
| `slots[s]` | `Entry` and the atomics of `Slot`; a slot never used reads `Pending`, as code 0 does |
| `active[w]` | the worker's claim under the lock |
| `pc[w]` | where the thread is: `hook` runs the start hook, `top` and `scan` are `run_drain`, `claimed` to `settle` are `process` and `finish` |
| `download[w]` | the stop flags of the transfer the worker runs |
| `phase` | `running`, and how far `drop` has come |
| `promise[s]` | history: requests that returned true since the entry was queued |

Every hold of the lock is one action (`Queue`, `Cancel`, `Pause`, `Resume`,
`Remove`, `Claim`, `Retire`, `Finish`). The reads a worker makes without it are
steps of their own: the start hook (`HookReturns`, `HookPanics`), `running`
(`CheckRunning`), the flags before the cache is touched (`StopBeforeStart`),
after the transport is set up (`StopOpened`, `KeepOpened`), the publishing of
the handle and the two reads after it (`PublishHandle`, `StartReading`), and
the poll before each read. So a request can land in each of the windows in
which the code has to catch it differently. `Queue` covers the whole call: the
free slot, the preemption of a running entry, and the arming of workers until a
spawn is refused. `drop` is three actions: it clears `running`, stops the
transfers it can see, and joins.

*Abstracted:* a transfer's bytes are a counter (`MaxBytes`) and an outcome;
paths and failures are booleans. Priorities are the code's. The clock is any
member of `Times` at each call, so it may repeat or go back.

## 4. The download cache

`DownloadCache.tla` has one entry of `transport/cache.rs` and `meta.rs` (file
and sidecar), the attempts of `download.rs` on it with the validation of
`queue/mod.rs` and `queue/validate.rs`, and the copy an apply places
(`place` in `apply/mod.rs`). Files are inodes: `path` is what the name refers
to, and an attempt writes through the handle it opened, whatever the name
refers to by then. Each call into the file system that another attempt or a
crash could tell from its neighbours is a step: `PurgeMeta`, `PurgeFile`,
`CreateFile`; `Unlink` and `Unmeta` (`discard` removes the file first);
`EvictMeta` and `EvictFile` (`evict` removes the sidecar first); `DropFile`,
`DropMeta`.

Content is a sequence of booleans, "this byte is the artifact's". That is all
the properties tell apart: a digest is the bytes it was fed, and it matches when
they are the artifact. A misbehaving server announces any length, sends any
byte, stops anywhere, refuses a range or fails; a crash loses every thread and
may tear a sidecar that is being written (a torn sidecar does not parse, so it
is `NoMeta`). `AnotherLands` is a second artifact with the same digest: its
transfer happens in one step, after the modelled one has missed the cache and
before it opens the file, which it may then find complete, or truncate. `disturbed`
says whether this is still going on; `Settle` ends it.

## 5. The install root

`InstallRoot.tla` is `apply/install.rs` and `apply/mod.rs`. An apply goes
through resolve, claim, directory, acquisition (queue the artifacts as slots
allow, copy each that has landed under a temporary name, rename it), record,
release, offer. Every way out goes through `Acquisition::drop`: cancel what is
in flight (`CancelActive`), wait for each entry and free it (`RemoveActive`),
then release the claim. The janitor (`retain`) looks at one generation's claims
at a time, removes the record, lists the directory, unlinks what it has listed,
removes the directory. The lock on the claims is held for one look or one count
only, so the janitor's steps and the applies' interleave freely: `Claim` never
waits, and may come after the janitor's look and before its last unlink.

`entry[a][i]` is the queue entry of one artifact, in the states `TransferQueue`
gives it: pending, downloading, asked to stop, settled. Its slots are counted
against `QueueMax`, shared by all applies. Whether landed bytes are the
artifact's is decided in `DownloadCache`; here a placing succeeds or is refused.
The `Completions` an apply offers to are `seen` and `offered` of `Updater`.

An apply that claims inside a collection may publish a generation that is being
removed (section 14). Two variables of history tell these cases from the others:
`app[a].late` says that the claim was taken inside a collection of its generation,
and `doubted` holds the generations whose record such an apply wrote.
`RecordedIsWhole` is about every other record: what a late claim can harm is the
generation it publishes, and nothing else. `NothingHalfApplied` is the same without
the exception, as the comment on `InstallRoot` has it, and does not hold.

## 6. The channel

`ReleaseChain.tla` is the publishing side: `crates/publish` with the write
order of `crates/tuf`. A role file is a record that holds what it pins, so a
digest comparison is equality of records. A chain is three of them, and
`Commit` makes the next one from the chain that the directory at hand holds.
There are two publishers: the *workspace*, which publishes release sets
(`Publish`: a new one, or the last one again, served or not) and re-signs them by
hand, and the *job*, which begins with an empty directory, pulls what the host
serves (`Pull`) and re-signs it (`Resign`). Each run writes its files in order into
its directory (`Write`) and then pushes the same files in the same order; an upload
to a name the host already has is a delete and a rename, between which the name serves nothing
(`Upload`, `DropOld`, `Rename`). `Die` ends a run at any of these steps.
`NextDay` lets roles expire.

`ChannelTrust.tla` is `crates/updater/src/channel` beside it: a check takes the
time (`Begin`: the later of the host's date and the local clock, refused below
the floor), fetches timestamp, snapshot and targets one by one through the store
of verified metadata, admits the chain against the floor and raises it
(`RaiseFloor`), and resolves the manifest (`Resolve`). `FetchStale` answers the
entry point from a cache, with anything it has ever served (`past`). What the
store holds bounds the versions until it expires (`Trusted`); the floor does so for
good. A check may be cut off at any step, and the store, but not the floor, may be
lost.

*Assumed, as the module comment of `remote.rs` asks:* runs do not overlap, and
the workspace pulls when it is behind. Release sets are numbered as they are first
published; going back to one before the last is not modelled.

## 7. The updater and the catalog

`Updater.tla` is `updater/mod.rs`, `schedule.rs` and the outcome of
`check/mod.rs`. `TickUpdater` starts a job when none runs and the interval, or
the back-off after failures, has passed; the job asks the channel
(`Authenticate`, `CheckFails`), concludes what that means (`Conclude`), and, if
it applies, goes through the steps of an apply that others can see: resolve,
claim, publish, release, offer. `Panic` is a job that unwinds under its guard.
`seen` is what `Completions` remembers: an id is offered once per process.
Time is counted since the last attempt, up to the longest wait there is.

`Catalog.tla` is `crates/catalog` in the loop of `crates/desktop`: a command
(`Play`, `Stop`, `CheckNow`, none), then `Tick`, which boots once
(`BootOnce` lists the root, the generation recorded as active first; `BootsBlind` is
a listing that fails, which is not repeated), polls the updater and may take one
finished generation; an activation is `Extract`, then `Accept`
or `Refuse`, then `Collect` and `CollectTrees`; a refusal goes to
`NextCandidate`, `FallBack` or `GiveUp`. `Restart` ends the process at any of
these steps and keeps root, payload trees and record. The record in memory and
the one on disk are apart, since its write is best-effort. `Fault` is the budget
of what the host lets down: a write, a load, a thread, a job.

## 8. The playlist

`PlaylistOps.tla` is `crates/playlist`: every call of `Engine` as a function of
a record with the playlists, the cursor (playlist, current item, its position,
the pending target, failures in a row, whether the current item was removed) and
the revisions. `PlaylistEngine.tla` drives it: a host edits, starts, skips,
polls, reports how songs ended, loads documents, and saves. A save is two steps,
`BeginSave` and `EndSave`, with anything in between, several at once and
acknowledged in any order. `stored` is what storage holds of each playlist: the
write that ended last (`last`), whatever its revision, and, as history, the one of
the newest revision (`newest`). Ids come from a counter with `MaxId` as `u64::MAX`.

## 9. The player and the bridge

`Player.tla` is the backend: idle, playing, paused or finished, and the song.
What a decoder or a file does is an argument. `Bridge.tla` is
`ui-quickshell/bridge/src/engine.rs`, with the session's `Drop` and the `quit`
of its worker. `worker` is everything its thread owns; a turn of the loop is
`TakeCommand` (or `NoCommand`, `TakeQuit`), `PollPlaylist`, `SeeToEnd`, `TopUp`,
`ScanStep`, and each command is an operator that composes what its handler
calls. `DrainRing` is the device, `FinishWalk` the helper thread that walks a
directory, `DecoderHangs` a decoder that does not come back. A published
document is what it says; how it crosses to the UI is the next module's.

## 10. The surfaces

`Surfaces.tla` is `crates/present`, the front and document locks of
`bridge/src/lib.rs`, and the shim's `session.cpp` and `pattern.cpp`. The
worker replaces the song, captures a frame (trace, grid, meter) and copies it to
the front under its lock; `WriteDocument` and `BumpRevision` are the two locks
of a publication. The UI polls (`Poll`), reads a document in up to two calls
(`ReadDocument`, `RereadDocument`), and paints (`Paint`). A pattern cell is the
song, pattern and row it belongs to; sample levels are small integers.

## 11. What each run shows

Each instance is the smallest in which the hazards of its properties happen.
TLC finishes each within five minutes on two cores.

| run | instance | shows |
|---|---|---|
| `queue_faults` | 2 workers, 3 slots, 3 submissions; cancel, remove, drop; hook panics, refused spawns | `TypeOK`; no slot is freed under its worker (`SlotKeptUnderWorker`), no entry reads Downloading with nobody behind it (`DownloadingIsHeld`) or is left preempted (`PreemptedIsSwept`), a promised cancel is kept (`CancelHonoured`), and a drop reaches the transfer whose handle it could not see (`DropReachesTransfers`) |
| `queue_live` | 1 worker, 2 slots, 3 submissions, 2 clock readings; every call; fair | the queue implements `EntryLifecycle` (`ImplementsLifecycle`): terminal states are final, entries rest in Paused only by a caller's pause; a preemption reaches the transfer it preempts (`PreemptionReachesTransfer`); `PendingIsServed`, `PreemptedResumes`, `DropReturns` |
| `cache_faults` | 1 transfer step by step, artifact of 2 bytes, bodies to 3, misbehaving server, cancel, pause, crashes, another artifact with the digest (transferred in one step, and applied) | `HashCoversFile`, `PausedIsResumable`, `EntryRecovers` |
| `install_faults` | 2 applies of one generation of 2 artifacts, 1 slot, janitor, failures, cancels, crashes; claims at any time | `TypeOK`; a record stands for a whole generation unless its apply claimed inside a collection (`RecordedIsWhole`); `SlotsAreTracked`, `ApplyReturns` |
| `channel` | versions to 3, 2 release sets, 2 days, one fault (a run killed, a check cut off, or the store lost), stale answers without limit; both sides re-sign, served sets are published again | the roles a served timestamp pins are served, and name the newest release set ever served (`HostKeepsItsChain`); no check accepts what is older than an accepted one (`ClientNeverGoesBack`); nor, if the version accepted was served as one chain, an older release set (`ReleasesOnlyAdvance`); `ClientCatchesUp` |
| `channel_unpushed` | the same | **violated:** `HostServesAChain`, which is the manifest too |
| `catalog` | an empty root and a channel that offers any of 3 generations, of which one does not load; 2 further releases, 1 restart, one length of back-off, 1 fault (a listing, a write, a load or a thread that fails, a job that unwinds); checks and applies may fail | `LoadedIsResident`, `FallbackIsKept`, `BootTriesAll`, `SongKeepsItsSet`, `ChannelIsAskedAgain` |
| `catalog_collected` | the same, without faults or failures | **violated:** `OfferedIsKept` |
| `playlist` | 2 songs of which one fails, 3 documents, ids to 5, every sequence of 4 calls and any polls between | `IdsAreUnique`, `CursorIsTrue`, `CleanIsStored`, `RevisionsTell`, `BrokenListEnds` |
| `playlist_panic` | the same | **violated:** `TargetIsAnItem` |
| `bridge` | 3 files (a song, one that does not open, one that is none), 15 commands of which any 3 are sent, ring of 2 units | `StatusIsTrue`, `SilentAtRest`, `DocsAreCurrent`, `DropReturns` |
| `surfaces` | 2 songs, 3 pattern windows, 4 captures, documents of 3 lengths, 4 worker steps, any UI steps | `TransientsShow`, `PaintedIsCurrent`, `UiCatchesUp` |

Six more instances are kept beside the runs, to reproduce what section 14 tells;
TLC refutes each in seconds or minutes. `QueueShared.cfg` (2
workers, 4 slots, 4 submissions): `PreemptionReachesTransfer`.
`QueueRestarted.cfg` (2 workers, 3 slots, 4 submissions): `ImplementsLifecycle`.
`ChannelRewound.cfg` (versions to 4, no time, one fault): `RecoveryIsForward`.
`ChannelRepublished.cfg` (versions to 3, no fault): `HostServesAChain`.
`InstallCollected.cfg` (2 applies, no failures or crashes): `NothingHalfApplied`.
`PlaylistStale.cfg` (the instance of `playlist`): `CleanIsHeld`.

**Why the bounds are enough.** *Queue.* Two workers are enough for one to
retire, settle or be preempted while the other acts; three slots let a
background entry yield, the user entry it yielded to run, and a third wait;
`MaxSubmissions` counts the calls that make an entry pending, and three let a
slot be reused after it has settled. One clock reading makes every age a tie;
two let the clock step back. The calls left out of `queue_faults` (pause,
resume) are in `queue_live`, whose one worker is the default configuration
(`updater/config.rs:42`); with more workers what it checks of safety needs a
condition (section 13). No byte needs to arrive for a stop to be missed, so
`MaxBytes` is 0: a read either observes a stop or ends. *Cache.* Two bytes
give a proper prefix, and a server that announces three one of two attempts; one
byte more than the artifact is enough for an oversize body, which is stopped at
the first poll past the length. *Install root.* Two artifacts with one slot make the plan larger than
the queue, so each apply must free a slot before it can go on, and the two
compete for it; one generation makes them share the claim, the directory and the
janitor's attention. *Channel.* Three versions are a first chain, one that dies
half pushed, and one over it; a day is enough to expire a timestamp and not the
roles it pins. For the entry point to go back it takes a fourth
(`ChannelRewound.cfg`): two by a job the workspace has not pulled, the one that
dies, and the workspace's. What `channel` checks of safety holds there too, and is
proved for every instance (section 13). *Catalog.* The channel offers
three sets in turn, or goes back to one; the one that does not load may come at
any place, with two that do to fall back from and to. The back-off is longer
than the interval and does not grow further. *Playlist.* Four
calls let an item be removed, another moved or edited, and playback move on, and
two saves meet; five ids run out half-way through a load of three. *Bridge.*
Three commands with every result of every decoder let a song be replaced, held
and skipped; a ring of two units can be low, half full and full. *Surfaces.* The
captures are shorter than, longer than and much longer than the trace; the
documents fit the buffer, outgrow it, and outgrow it between the two calls.

Deadlock is checked in `queue_*`, `cache_faults`, `install_faults` and
`catalog*`. The other systems may stop: the bridge's worker exits, a UI has
nothing to show, a host of playlists has made its calls, and a channel has used
its versions.

## 12. Fairness

* **Queue.** Weak fairness of `drop` once begun, of each worker's own steps
  (`ThreadStep`: threads are scheduled, the lock is not held for ever), and of
  the answers of cache, peer and hook (`AnswerStep`). The last is an assumption
  about peers and no promise of the code: connecting and small requests time
  out, a streamed body never does (`transport/mod.rs:27`), and the comment on
  `drop` says that a peer which stops sending without closing holds it open
  (`queue/mod.rs:884`). The run shows that nothing else does. There is no
  fairness on callers, on progress (`ReadChunk`) or on panics: nothing is
  assumed to be cancelled, resumed or removed for an entry to be served.
  `queue_live` has no hook panics and no refused spawns: with every spawn
  refused a pending entry waits for the next call, as the comment in
  `arm_workers` says.
* **Cache.** Weak fairness of the transfer and of the apply. Both contain
  `Begin`, so `EntryRecovers` reads: if the server behaves from some point on
  and the caller keeps asking for the artifact (the updater does, on its
  schedule), the verified artifact ends up cached.
* **Install root.** Weak fairness of each transfer, of a collection begun, and
  of what an apply does when it can (`Advancing`). The failures it merely may
  meet are left out, so that no wait ends only because something fails. Nobody
  has to cancel, call `retain` or start an apply.
* **Channel.** Weak fairness of a check: the schedule asks again and again
  (`ChannelIsAskedAgain`). Strong fairness of `FetchTimestamp`, so that not
  every answer is stale: each request carries a `cache_key` no cache has seen
  (`channel/source.rs`). Publishers owe nothing; `ClientCatchesUp` says that *if*
  the host comes to serve for good a chain this client may take, the client
  comes to name what it names.
* **Catalog.** The worker loop turns, the updater's thread runs, time passes.
  Nothing makes a user type or a check succeed.
* **Playlist.** The host's loop polls and every song ends. *Bridge.* The worker
  turns its loop unless a decoder has it; the half second of `Drop` runs out.
  *Surfaces.* The UI's timer fires, and a revision is bumped after its document.

## 13. Proofs

Eight modules are checked by TLAPS for every value of the constants under the
assumptions their modules name. Each strengthening was first checked by TLC on
the instances of section 11. The assumptions say what the program's types say
(the commands of a channel are those of `Command`, the songs of a document are
songs, a capture is samples, no generation is the absence of one) or bound a
configuration (a finite set of transfers, a queue of at least one slot).

*Induction over data.* The prover cannot instantiate the library's induction
theorems. Where a recursive function or a minimum has to be reasoned about, a
proof takes the least counterexample: a non-empty set of numbers has a least
element (`NatMin` in `CatalogProofs`, `LeastExists` in `PlaylistProofs`, from the
well-foundedness of `<` on the naturals), so a set that holds 0 and the
successor of each number it holds is all of them (`NatClosed`), and the set is
"the lengths for which the recursion has a solution" or "the prefixes that agree".
`SelectSeq` is opaque to the prover, which is why `Updater` filters the root with a
recursive function, `Kept`, and `Bridge` the rows of a request with another,
`Known`; and `PlaylistOps` names its instance of the sequence
library (`Ext!RemoveAt`), so that a proof module sees the library's operators
under one name.

**Queue** (`TransferQueueProofs`: at least one slot, between one and that many
workers, any set of clock readings, any bounds). The invariant is `Inv == TypeOK
/\ SettlesWithResult /\ SlotKeptUnderWorker /\ CancelKept`. `CancelHonoured`
alone is not inductive: a worker in `settle` already carries an outcome, so one
has to know that it carries one (`SettlesWithResult`) and that a promised cancel
has left its mark where the settle will look, in `cancelRequested` of the slot,
for as long as a worker holds it, and in the state once none does
(`CancelKept`). That in turn needs that a held slot is in use and its tenancy
cannot change (`SlotKeptUnderWorker`). It does *not* need that a slot has one
holder, which is false (section 14).

`DropIsSeen` holds for any number of workers: a worker that comes to read has
looked at `running` since it published its handle (`ReadingFact`), so either the
drop's sweep found the handle or the worker finds the drop (`SweepingFact`).
`PreemptionSeenByOneWorker` is the same argument for a preemption, and is of one
worker, the default. With two it is false: when both hold one entry, the settle of
the first clears the request the second would have seen. Two workers need a fourth
submission for it, which no run reached; the proof that failed found it, and
`QueueShared.cfg` shows it. The argument itself (`PreemptionIsSeen`) needs no more
than that no two workers hold one entry.

`LifecycleOfOneWorker` is that the queue implements `EntryLifecycle`, again with one
worker. The lemma it stands on, `LifecycleKept`, needs that the sweep resumes no
entry a worker still holds and no second worker claims one (`HeldApart`). Its
invariant is `RequestsTrue`: every request flag of a slot, stop flag of a
transfer and outcome of a worker has a caller, a preemption or a drop behind it
(`SlotAsked`, `WorkerAsked`). From it a transfer that settles Cancelled was cancelled
or dropped, and one that settles Paused was paused by its caller or preempted, which
is what `Ends` and `ComesToRest` of the lifecycle ask. Each action has a lemma that
it keeps `RequestsTrue` and moves each slot as `EntryLifecycle` allows (`Moves`);
`LegalMoves` lists the moves once, so that a lemma only names the one it takes.
`OneWorkerHeldApart` shows that one worker keeps its entries so by itself: it sweeps
and claims only when it holds nothing. So both theorems hold of the default
configuration for any slots, calls, clocks, hooks and hosts. With two workers the
lifecycle is not kept: `QueueRestarted.cfg` has a cancelled entry started again.

`NothingOrphaned` and `NothingStranded` stand on `Inv`. The first says that
whatever makes an entry Downloading is a claim and whatever ends the claim ends
the state. The second is about a preempted entry and the worker that has yet to
sweep: a worker retires only when nothing can be claimed, so one must show that
a sweep which resumed something leaves something to claim. The code picks the
best pending entry by priority, age and index; that a best one exists is
`NextPendingExists`: a non-empty set of slots has a minimum in that order,
which follows from a finite set having no endless descent
(`FS_StrictSubsetOrderingWellFounded` of the library, on the sets of slots that
run before a given one).

**Install root** (`InstallRootProofs`: a finite set of applies whose temporary
names are not artifact names, a queue of at least one slot, any number of
artifacts). `InstallTypes` proves `TypeOK` with `ApplyKnows` (an apply's
bookkeeping agrees with its place in the code), `ClaimsCounted` (the count of
claims on a generation is the number of applies that hold one, from which it
follows that a release never makes it negative) and `CollectionKnows`.
`NoSlotLeaked` adds that an apply tracks nothing when it has none to give back
(`NothingTracked`). `RecordedWhole` supposes nothing about when claims are taken. It
adds `PlacedIsKept` (what an apply has placed is in the directory while it holds its
claim, unless it claimed inside a collection) and `CollectedIsLate` (whoever holds a
generation that is being removed claimed late, and a record of it, once the removal
has begun, is a doubted one), and from both `RecordedIsWhole`.

**Channel** (`ChannelTrustProofs`: any number of versions, releases, days and
faults). `TypesInv` says that what the host, the workspace and the job hold under
a name is a file of that role and version, and that a run carries the files of
one chain. It rests on chains being *even*: `Commit` raises all three roles
together, so a timestamp of version *v* pins a snapshot and a targets of version
*v*, whoever wrote it and wherever a run died. On this stand two results.

`NeverGoesBack` (whether or not the workspace re-signs, and with the store lost
at any time) comes from `TrustInv`: the floor on disk is never below what was
accepted, a check under way never has a time before the floor's, and when a
check is about to name a release the floor *is* the chain it verified. The last
is the point of the code's order: the floor is recorded before the manifest is
resolved, so a check cut off between the two leaves a floor above what was
accepted, which is harmless, and never one below.

`KeepsItsChain` holds whichever side publishes and re-signs, and has two halves. That
the roles the entry point pins are there is `HostInv`: the roles a push carries are
of a version the host does not serve yet, so that the delete and rename of an asset
never touch one that the served timestamp pins (`NotServed`); what has been pushed
so far is in place (`Placed`), so that the timestamp, which goes last, goes live over
roles that are there; and what the job re-signs is what the host serves
(`PulledIsServed`). That they name the newest release set ever served is
`LatestInv`: the workspace has, in force, a set no older than any that was served,
so does the host while it has an entry point, and so does what a run is about to
push, while what has begun to be pushed is never newer than what the workspace has in
force (`InForceSet`). The manifest is not part of it: `channel_unpushed` and
`ChannelRepublished.cfg` have a served chain without the manifest it names.

`ReleasesAdvance` is about `ReleasesOnlyAdvance`: a check accepts no older release
set than an earlier one did, as long as the version that one accepted was served as
one chain. Versions only rise for a client (`NeverGoesBack`), so what has to be shown
is that release sets rise with versions among all the timestamps ever served, save
after a version that was served twice (`Doubled`). That is not inductive: `PastInv`
adds that the versions served have no gap up to the workspace's and the host's
(`Gapless`), so that a chain which goes live either is the next version, with a
release set no older (`Follows` and `LatestInv`), or is of a version that was served
before, which it then doubles; and `NamedInv` that whatever a check holds, and
whatever was accepted, is of a served timestamp. Without the exception the property
is false: in four versions the entry point can go back in versions
(`ChannelRewound.cfg`), and in five a client can then accept, of a stale answer, a
higher version with an older set, which no instance of three versions shows. It was
the attempt to prove the unconditional property that found it.

**Cache** (`DownloadCacheProofs`: any artifact, bounds on bodies and files,
servers and crashes). `CacheTypesHold` is for any number of transfers of the digest,
interleaved step by step, which `cache_faults` does not reach. That nothing but the
artifact is placed is not among the properties: `place` compares the copy it is about
to rename, and what transfers do does not matter to it. `HashCoversFileHolds` and
`PausedIsResumableHolds` are under `Transfers = {t}`: the digest covers the file,
and a pause leaves a resumable one, as long as one transfer at a time works on the
entry; that it fails for two is described in section 14. Their invariant is
`Alone`: what a streaming attempt has fed is the inode it writes (`StreamOK`), what
a sidecar admits of a file is what the file has (`SidecarOK`), and what a paused
attempt leaves is both (`PausedOK`). A crash, a torn sidecar, an eviction and the
other artifact (`AnotherLands`) are steps these survive.

**Catalog** (`CatalogProofs`: any generations, of which any may fail to load, any
schedule, restarts and faults). The four invariants of the run are proved from
one, `CatalogInv`. `LoopInv` ties the worker's place in its loop to the set in the
backend; from it come `LoadedIsResident` and `SongKeepsItsSet`. `LogInv` says that
the two generations of a record are different and, until a write is lost, on disk.
It is not inductive alone: a collection interrupted by a restart may leave a
payload tree whose generation is gone, and one must know that nothing on its way to
be activated (offered, about to be, waiting, or being swapped in) is such a one
(`StrayInv`). `QueueInv` and `CandidateInv` say that until something is loaded,
what the root holds that can be loaded is still to be tried; from them comes
`BootTriesAll`.

**Playlist** (`PlaylistProofs`: any songs, names and documents, lists of any
length, any last id, any number of calls). Each call of the engine has a lemma:
from an engine that is `EngineOK` it makes one that is, and `Advances` says what it
may have changed without telling. `EngineOK` is that lists and cursor have their
shape, ids are unique within a list and across lists and none is above the counter
(`Storage`), and the cursor is true (`CursorOK`). The lemmas rest on what an
append, an insertion, a removal and an edit of a sequence do to its ids. `CleanIsStored`
needs `SavesOK`: a save under way carries the contents the list had at the
revision it will acknowledge, so that it may end late, or after another, and only
the revision it serialized counts as saved; and `WritesOK`: if a list is clean, the
newest write of it that ended has its contents, and so has any save under way that
would become the newest. That storage holds it too is
only said while no older write has ended since. `RevisionsTell` is an action property
from the same lemmas.

**Bridge** (`BridgeProofs`: any files, ring and commands). `BridgeInv` is that the
published status, the track and the ring agree with the backend's session (`Sounds`)
and the documents with the worker (`Shows`), and that the channel carries commands
(`ChannelOK`). Each operator a handler is composed of has a lemma that it keeps
them; the handlers' proofs chain these in the order of the code.

`DocsAreCurrent` needs more, since most calls change the playlist and do not publish
it. `Ahead(e)` is what the queue document would say of the playlist, and `Queued` that
it does say so, but for an error. A call that only turns the cursor changes nothing
ahead (`TurnFact`). A poll that hands nothing out stops the playlist unpublished, so
nothing may have been ahead: this is `Places`, where the cursor may stand (an item
that was polled is in its playlist, with one before it when the cursor is to go back;
a start is behind the last item only when a cut of the queue left it there), which
`CutFact` keeps over a cleared queue and `PollFact` uses. A replaced queue publishes
itself if it gets an id; the hypothesis is that the last id is above the number of
commands sent (`MaxSent`), and `Counted` that no command mints more than one playlist,
through the channel and the walks that put commands of their own there.

**Surfaces** (`SurfacesProofs`: any songs, windows, captures and budgets).
`PaintedIsCurrent` comes from counting: the UI's count of cells is never ahead of
the front's, and with equal counts what was painted is what the grid shows. It
holds because every change of the grid raises the count under the same lock.
`TransientsShow` is arithmetic: the cuts `i * n \div p` are non-decreasing, the
first is 0 and the last is *n*, so the buckets between them cover every sample
whatever the capture's length and the number of points (a sample lies
in the bucket that ends at the first cut past it), and a maximum of maxima is the maximum.

## 14. Where the code and its documentation part

Three runs end in a violation; `PROJECT.json` quotes the lines.

1. **A pending target past the end** (`playlist_panic`, `playlist/src/lib.rs:607`).
   Play b of [a, b], remove b, remove a, call `previous`: the target was counted
   down from the place b had and is not checked against the items that are left;
   the next `poll` indexes an empty list.
2. **What is offered is collected** (`catalog_collected`, `catalog/src/lib.rs:327`).
   The clean-up after one activation retains the loaded generation and the one
   before it; a generation the updater has published or found meanwhile, and the
   catalog has not taken, is removed. It is not applied again by this process,
   since an id is offered once.
3. **A chain without its manifest** (`channel_unpushed`, `publish/src/remote.rs:68`).
   A publication that died before its manifest was pushed, then a re-signing from
   the same workspace: the chain goes live and the manifest it names is not there.

Seen while reading, modelling and proving, and not the subject of a run.

*Queue and cache.* The first two need more than the one worker that is the default.
* The sweep returns a preempted entry to Pending while its worker is still inside
  the transfer; a second worker may claim it (`queue/entry.rs:252`, against
  `queue/mod.rs:374`), also when its cancel was promised (`QueueRestarted.cfg`; the
  second settle still reads Cancelled), and an entry may end Paused without any
  caller having paused it (`queue/mod.rs:624`, against `queue/entry.rs:56`).
* Of two workers that hold one entry, the first to settle clears the pause request
  of a preemption (`queue/mod.rs:610`); the second, if it has not published its
  handle, transfers on while the entry reads Preempted, which the comment at
  `queue/mod.rs:469` says the re-read prevents (`QueueShared.cfg`).
* User work may preempt an entry whose pause was accepted and has not settled; it
  resumes by itself (`queue/mod.rs:741`, against `queue/entry.rs:56`).
* A cancelled entry whose transfer then failed keeps the failure
  (`queue/mod.rs:621`, against `queue/mod.rs:856`). `cancel_all` counts slots that
  were never used, since they read Pending (`queue/entry.rs:153`, against
  `queue/mod.rs:774`).
* A pause polled after the last announced byte writes a sidecar that reads
  complete, and the next attempt serves the bytes unchecked
  (`transport/download.rs:425`, against `queue/mod.rs:415`); a crash between
  `finalize_complete` (`download.rs:404`) and the validation does the same.
  `place` verifies its copy, so this costs a failed apply, never a bad artifact.
* An entry that another transfer of the same digest completes between two looks is
  fed to the digest twice and its good bytes are refused (`queue/mod.rs:494`).
* A broken connection leaves no sidecar (`download.rs:453`), so its partial file is
  started over, where `transport/mod.rs:4` speaks of resuming.

*Install root, updater, catalog.*
* An apply that claims a generation just after the janitor has looked at its claims
  may publish it while it is being removed (`apply/install.rs:169`, against
  `install.rs:102` and `159`): the record stands for a generation without its files,
  and `resolve` finds it from then on (`InstallCollected.cfg`). It takes a generation
  that is collected and applied again in one process.
* A boot candidate in `pending` is lost when a newer completion supersedes it
  (`catalog/src/lib.rs:165`, against the comment at 131).
* An id that is collected and published again in one process is never offered again
  (`apply/mod.rs:404`).
* A check whose log line cannot be appended fails as a whole
  (`check/mod.rs:96`); a clock set back stops the ticks until it catches up
  (`schedule.rs:32`); `Drop` cancels the transfers there are and then joins, and
  may wait for a download queued after that (`updater/mod.rs:315`); with automatic
  applies off, the desktop's catalog has no way to apply.

*Channel and publishing.*
* The job dies between deleting `timestamp.json` and renaming the new one over it
  (`publish/src/host.rs:289`). Nobody can pull a channel without an entry point, so
  the workspace publishes what follows its own chain, of lower versions than what the
  job had served, though never of an older release set (`ChannelRewound.cfg`).
  Clients that saw the newer one refuse it
  until its versions overtake theirs.
* The later of the host's date and the local clock is recorded: a clock that runs
  ahead refuses honest checks until time has caught up (`channel/trust.rs:36` and
  `channel/time.rs:117` discuss the other direction).
* Publishing a release set the host already serves, which `publish.rs:39` provides
  for, drops and renames the manifest its chain names (`host.rs:284`; `remote.rs:4`
  says a published file is never touched again, and `publish.rs:7` that an
  interrupted publish leaves the previous generation untouched). In between, and for
  good if the run dies there, the served chain has no manifest
  (`ChannelRepublished.cfg`).
* A workspace that was not pulled, or overlapping runs, overwrite versioned names,
  as `remote.rs:18` says.

*Playlist, bridge, shim.*
* After the current item was removed, the place it had does not follow later
  removals and moves before it (`playlist/src/lib.rs:349`, `429`), so the next item
  may be another than the one that came after it. A looping list is given up with
  a good item in it when an item that already failed is removed. A new playlist
  reads clean though it was never saved.
* `mark_revision_saved` keeps the highest revision acknowledged (`lib.rs:417`), storage
  the write that ended last: with two saves of one list under way, the older may end
  last, and the list reads clean over older contents (`PlaylistStale.cfg`). Nothing
  in the repository saves playlists yet; a host has to write one save at a time.
* Two scans of one root answer for each other and list its rows twice
  (`bridge/src/engine.rs:785`, against `engine.rs:104`); row indexes the UI sends
  may be older than the last scan (`engine.rs:770`); a scan makes no progress
  while a paused song keeps the ring empty.
* Replacing the queue resets the loop mode, which is still shown
  (`engine.rs:850`). The end of a song clears what the ring still holds of it, up
  to 200 ms. A stop does not publish the track document again, and a render error
  that ends a looping queue leaves its document (`engine.rs:615`).
* The plugin name is read again only when the status changes
  (`shim/session.cpp:164`).

## 15. What is only model-checked, and what is not modelled

*Model-checked only.* Every liveness property, since the prover does not reach
fairness and ENABLED. `DocsAreCurrent` is proved only while ids are left for the
queues the UI asks for; past the last id (of a u64) a replaced queue stops the
old one and publishes nothing (`engine.rs:827`).

*Not checked.* Two transfers of one digest step by step: `DownloadCache` has them,
and `cache_faults` lets the second land in one step (`AnotherLands`), before the
first has the file open. More than one fault in `catalog`.

*Not modelled in a modelled component.* Bounded metadata requests
(`get_bounded`), which keep nothing. `Applier::fetch`, and `Updater::apply`,
`fetch`, `pause`, `resume` and `cancel` called by hand, which nothing in the
repository calls. Symbolic links, permissions and free space, which the code
meets as a failing call, and that is modelled. Power loss that loses completed
renames: a crash here ends the process, and the file system keeps what it was
told. The trust root, which no run of the publisher replaces; keys, signatures
and canonical JSON, which are data. The selection of a plan's artifacts, and the
log of checks. Wording and layout of metadata and patterns.

*Not modelled.* The launcher, QML, terminal and window wiring, the C and Python
plugin harness and the test fixtures hold no state that two actors share;
decoding is another repository's.
