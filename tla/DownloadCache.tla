---------------------------- MODULE DownloadCache ----------------------------
(***************************************************************************)
(* One entry of the download cache (transport/cache.rs, meta.rs,           *)
(* download.rs), the transfers that fill it and validate what landed       *)
(* (queue/mod.rs process and transfer, queue/validate.rs), and the apply   *)
(* that copies it into a generation (apply/mod.rs place).                  *)
(*                                                                         *)
(* The entry is a file and its sidecar, both named by the artifact's       *)
(* digest, and nothing locks them: two artifacts of one plan may share a   *)
(* digest, and the queue runs one transfer for each.  A transfer writes    *)
(* through the file it opened, whatever the name refers to by then, so     *)
(* files are inodes.  Each call into the file system is a step of its own  *)
(* where another transfer or a crash could tell.                           *)
(*                                                                         *)
(* Content is a sequence of BOOLEAN: byte i is TRUE when it is the         *)
(* artifact's.  A digest is modelled by the bytes it was fed.              *)
(***************************************************************************)
EXTENDS Integers, Sequences, FiniteSets

CONSTANTS
  Transfers,  \* transfers that may run on this digest at once (workers)
  Size,       \* length of the artifact, named by every request
  MaxBody,    \* bound on what a server sends and on the files
  Disturbed,  \* whether the server misbehaves and callers stop transfers
  Stops,      \* the stops callers ask for while disturbed
  MayCrash,   \* whether, while disturbed, the process may crash
  Shared      \* whether several artifacts have this digest

ASSUME TransfersAssumption == IsFiniteSet(Transfers) /\ Transfers # {}
ASSUME SizesAssumption ==
  Size \in Nat \ {0} /\ MaxBody \in Nat /\ MaxBody > Size
ASSUME CacheFaultsAssumption ==
  /\ {Disturbed, MayCrash, Shared} \subseteq BOOLEAN
  /\ Stops \subseteq {"cancel", "pause"}

VARIABLES
  path,       \* the inode the entry's name refers to, or NoFile
  inode,      \* inode -> its bytes
  meta,       \* the sidecar, or NoMeta (missing, torn or garbage)
  att,        \* transfer -> its attempt
  ready,      \* an entry settled Complete and waits to be placed
  landing,    \* the copy the apply has taken, or NoCopy
  evicting,   \* the apply is part way through evicting the entry
  installed,  \* the file in the generation, or NoCopy
  disturbed   \* misbehaviour is still to be expected

vars == <<path, inode, meta, att, ready, landing, evicting, installed, disturbed>>
disk  == <<path, inode, meta>>
apply == <<ready, landing, evicting, installed>>

(* More inodes than can be open at once. *)
Inodes   == Transfers \X {0, 1}
NoFile   == <<>>
NoSize   == -1
NoMeta   == [size |-> NoSize, written |-> 0]
Artifact == [i \in 1..Size |-> TRUE]
Bytes(n) == UNION {[1..k -> BOOLEAN] : k \in 0..n}
NoCopy   == [i \in 1..(MaxBody + 1) |-> FALSE]  \* longer than any file

Idle ==
  [pc |-> "idle", handle |-> NoFile, kind |-> "fresh", offset |-> 0,
   written |-> 0, size |-> NoSize, hash |-> <<>>, started |-> FALSE,
   status |-> "Pending"]

Pc == {"idle", "check", "prepare", "purge", "probe", "opened", "poll", "reread",
       "validate", "unlink", "unmeta", "evict", "evicted", "drop", "dropping"}

Attempt ==
  [pc : Pc, handle : Inodes \cup {NoFile}, kind : {"fresh", "resumed", "cached"},
   offset : 0..MaxBody, written : 0..MaxBody, size : {NoSize} \cup 0..MaxBody,
   hash : Bytes(2 * MaxBody), started : BOOLEAN,
   status : {"Pending", "Paused", "Cancelled", "Failed", "Complete"}]

Init ==
  /\ path = NoFile
  /\ inode = [i \in Inodes |-> <<>>]
  /\ meta = NoMeta
  /\ att = [t \in Transfers |-> Idle]
  /\ ready = FALSE
  /\ landing = NoCopy
  /\ evicting = FALSE
  /\ installed = NoCopy
  /\ disturbed = Disturbed

(***************************************************************************)
(* What the entry on disk says.                                            *)
(***************************************************************************)

Content == IF path = NoFile THEN <<>> ELSE inode[path]

(* is_complete_at: the sidecar alone says whether every byte arrived. *)
Complete == Content # <<>> /\ meta # NoMeta /\ meta.written = meta.size

(* plan_resume: file and sidecar agree on a proper prefix. *)
Resumable ==
  /\ path # NoFile /\ meta # NoMeta
  /\ Len(Content) = meta.written
  /\ 0 < meta.written /\ meta.written < meta.size

(***************************************************************************)
(* Attempts.  Total and Oversize are what progress() and transfer() see.   *)
(***************************************************************************)

At(t, pc)        == att[t].pc = pc
Become(t, record) == att' = [att EXCEPT ![t] = record]
Goto(t, from, to) == At(t, from) /\ att' = [att EXCEPT ![t].pc = to]

Total(a)    == a.offset + a.written
Oversize(a) == a.written > 0 /\ Total(a) > Size

(* Inodes that nothing refers to any more: a new file takes one. *)
Unused == {i \in Inodes : i # path /\ \A u \in Transfers : att[u].handle # i}

(* One artifact asks for its digest again only once its apply is over. *)
Begin(t) ==
  /\ Shared \/ (~ready /\ landing = NoCopy /\ ~evicting)
  /\ At(t, "idle") /\ Become(t, [Idle EXCEPT !.pc = "check"])
  /\ UNCHANGED <<disk, apply, disturbed>>

(* A complete entry is served as it is, neither requested nor hashed. *)
ServeCached(t) ==
  /\ At(t, "check") /\ Complete /\ Become(t, Idle)
  /\ ready' = TRUE
  /\ UNCHANGED <<disk, landing, evicting, installed, disturbed>>

MissCache(t) ==
  /\ Goto(t, "check", "prepare") /\ ~Complete
  /\ UNCHANGED <<disk, apply, disturbed>>

Opened(t, kind, offset, size) ==
  [att[t] EXCEPT !.pc = "opened", !.kind = kind, !.handle = path,
                 !.offset = offset, !.size = size,
                 !.status = IF kind = "cached" THEN "Complete" ELSE "Pending"]

(* The entry became complete since the check. *)
OpenCached(t) ==
  /\ At(t, "prepare") /\ Complete
  /\ Become(t, Opened(t, "cached", Len(Content), Len(Content)))
  /\ UNCHANGED <<disk, apply, disturbed>>

OpenResume(t) ==
  /\ At(t, "prepare") /\ ~Complete /\ Resumable
  /\ Become(t, Opened(t, "resumed", meta.written, meta.size))
  /\ UNCHANGED <<disk, apply, disturbed>>

(* Nothing to build on: sidecar first, then the file, then a new file. *)
PurgeMeta(t) ==
  /\ Goto(t, "prepare", "purge") /\ ~Complete /\ ~Resumable
  /\ meta' = NoMeta
  /\ UNCHANGED <<path, inode, apply, disturbed>>

PurgeFile(t) ==
  /\ Goto(t, "purge", "probe")
  /\ path' = NoFile
  /\ UNCHANGED <<inode, meta, apply, disturbed>>

(* The length the server announces for the body, if it does. *)
Announced == {NoSize} \cup IF disturbed THEN 0..MaxBody ELSE {Size}

(* File::create truncates whatever has the name by now. *)
CreateFile(t) ==
  /\ At(t, "probe")
  /\ path' = IF path = NoFile THEN CHOOSE i \in Unused : TRUE ELSE path
  /\ inode' = [inode EXCEPT ![path'] = <<>>]
  /\ \E size \in Announced :
       Become(t, [att[t] EXCEPT !.pc = "opened", !.handle = path', !.size = size])
  /\ UNCHANGED <<meta, apply, disturbed>>

CreateFails(t) ==
  /\ disturbed /\ At(t, "probe") /\ Become(t, Idle)
  /\ UNCHANGED <<disk, apply, disturbed>>

(* A cancel seen once the transport is set up leaves the files alone. *)
Asked(stop) == disturbed /\ stop \in Stops

StopOpened(t) ==
  /\ Asked("cancel") /\ At(t, "opened") /\ Become(t, Idle)
  /\ UNCHANGED <<disk, apply, disturbed>>

(* Seeded fault: a resumed transfer hashes only the tail it streams. *)
HashTailOnly(t) ==
  /\ Goto(t, "opened", IF att[t].kind = "cached" THEN "reread" ELSE "poll")
  /\ UNCHANGED <<disk, apply, disturbed>>

(* hash_prefix reads by name what the transfer will not stream. *)
HashPrefix(t) ==
  LET n == att[t].offset
  IN  /\ At(t, "opened")
      /\ IF n > Len(Content)
         THEN Become(t, [att[t] EXCEPT !.pc = "evict"])
         ELSE Become(t, [att[t] EXCEPT
                !.pc = IF att[t].kind = "cached" THEN "reread" ELSE "poll",
                !.hash = SubSeq(Content, 1, n)])
      /\ UNCHANGED <<disk, apply, disturbed>>

(* A cached transfer streams its file from the start, flags unread. *)
Reread(t) ==
  /\ At(t, "reread")
  /\ Become(t, [att[t] EXCEPT !.pc = "validate", !.hash = @ \o inode[att[t].handle]])
  /\ UNCHANGED <<disk, apply, disturbed>>

(***************************************************************************)
(* read_chunk, one poll at a time.                                         *)
(***************************************************************************)

Fails(t, to) == Become(t, [att[t] EXCEPT !.pc = to, !.status = "Failed"])

(* The caller's cancel, or the one an oversize body draws. *)
ObserveCancel(t) ==
  /\ At(t, "poll") /\ (Asked("cancel") \/ Oversize(att[t]))
  /\ Become(t, [att[t] EXCEPT !.pc = "unlink", !.status = "Cancelled"])
  /\ UNCHANGED <<disk, apply, disturbed>>

(* Seeded fault: the sidecar counts this attempt's bytes alone. *)
SavedThisAttempt(a) ==
  IF a.size = NoSize \/ a.written = 0 THEN meta
  ELSE [size |-> a.size, written |-> a.written]

(* save_meta: only a body of known length that moved. *)
SavedMeta(a) ==
  IF a.size = NoSize \/ a.written = 0 THEN meta
  ELSE [size |-> a.size, written |-> Total(a)]

ObservePause(t) ==
  /\ Asked("pause") /\ At(t, "poll") /\ ~Oversize(att[t])
  /\ meta' = SavedMeta(att[t])
  /\ Become(t, [att[t] EXCEPT !.pc = "drop", !.status = "Paused"])
  /\ UNCHANGED <<path, inode, apply, disturbed>>

RequestAccepted(t) ==
  /\ At(t, "poll") /\ ~att[t].started
  /\ Become(t, [att[t] EXCEPT !.started = TRUE])
  /\ UNCHANGED <<disk, apply, disturbed>>

(* An error status, a page instead of the artifact, or anything but 206    *)
(* for a range (the resource changed): the partial file is discarded.      *)
RequestRefused(t) ==
  /\ At(t, "poll") /\ ~att[t].started
  /\ disturbed \/ att[t].offset > 0
  /\ Fails(t, "unlink")
  /\ UNCHANGED <<disk, apply, disturbed>>

RequestFails(t) ==
  /\ disturbed /\ At(t, "poll") /\ ~att[t].started
  /\ Fails(t, "drop")
  /\ UNCHANGED <<disk, apply, disturbed>>

(* A resumed file is opened to append, a new one written where it stands. *)
Written(a, byte) ==
  LET old == inode[a.handle]
      at  == IF a.kind = "resumed" THEN Len(old) ELSE a.written
  IN  [i \in 1..(IF at < Len(old) THEN Len(old) ELSE at + 1) |->
         IF i = at + 1 THEN byte ELSE i <= Len(old) /\ old[i]]

(* An undisturbed server sends the artifact and ends; byte i of a body is  *)
(* never the artifact's past its length.                                   *)
Sent(a) ==
  {byte \in BOOLEAN : IF Total(a) < Size THEN disturbed \/ byte ELSE disturbed /\ ~byte}

ReadBytes(t) ==
  /\ At(t, "poll") /\ att[t].started /\ ~Oversize(att[t])
  /\ Total(att[t]) < MaxBody /\ Len(inode[att[t].handle]) < MaxBody
  /\ \E byte \in Sent(att[t]) :
       /\ inode' = [inode EXCEPT ![att[t].handle] = Written(att[t], byte)]
       /\ Become(t, [att[t] EXCEPT !.written = @ + 1, !.hash = Append(@, byte)])
  /\ UNCHANGED <<path, meta, apply, disturbed>>

(* The connection breaks or the disk refuses the bytes. *)
ReadFails(t) ==
  /\ disturbed /\ At(t, "poll") /\ att[t].started /\ ~Oversize(att[t])
  /\ Fails(t, "drop")
  /\ UNCHANGED <<disk, apply, disturbed>>

(* finalize_complete: the sidecar says complete before anything is         *)
(* validated, with the length that arrived.                                *)
EndOfBody(t) ==
  /\ At(t, "poll") /\ att[t].started /\ ~Oversize(att[t])
  /\ disturbed \/ Total(att[t]) >= Size
  /\ meta' = [size |-> Total(att[t]), written |-> Total(att[t])]
  /\ Become(t, [att[t] EXCEPT !.pc = "validate", !.status = "Complete",
                              !.size = Total(att[t])])
  /\ UNCHANGED <<path, inode, apply, disturbed>>

(* discard: the file, then its sidecar.  An oversize body is evicted too.  *)
Unlink(t) ==
  /\ Goto(t, "unlink", "unmeta")
  /\ path' = NoFile
  /\ UNCHANGED <<inode, meta, apply, disturbed>>

Unmeta(t) ==
  /\ Goto(t, "unmeta", IF Oversize(att[t]) THEN "evict" ELSE "drop")
  /\ meta' = NoMeta
  /\ UNCHANGED <<path, inode, apply, disturbed>>

(***************************************************************************)
(* Validation, eviction and the end of the transfer.                       *)
(***************************************************************************)

(* The bytes that streamed past, the length, the file read back by name. *)
Validate(t) ==
  LET ok == /\ att[t].hash = Artifact
            /\ Total(att[t]) = Size
            /\ Content = Artifact
  IN  /\ Goto(t, "validate", IF ok THEN "drop" ELSE "evict")
      /\ ready' = (ready \/ ok)
      /\ UNCHANGED <<disk, landing, evicting, installed, disturbed>>

EvictMeta(t) ==
  /\ Goto(t, "evict", "evicted")
  /\ meta' = NoMeta
  /\ UNCHANGED <<path, inode, apply, disturbed>>

EvictFile(t) ==
  /\ Goto(t, "evicted", "drop")
  /\ path' = NoFile
  /\ UNCHANGED <<inode, meta, apply, disturbed>>

(* Download::drop: a failure that wrote nothing leaves nothing behind. *)
LeavesNothing(a) == a.kind # "cached" /\ a.status = "Failed" /\ a.written = 0

DropKeeps(t) ==
  /\ At(t, "drop") /\ ~LeavesNothing(att[t]) /\ Become(t, Idle)
  /\ UNCHANGED <<disk, apply, disturbed>>

DropFile(t) ==
  /\ Goto(t, "drop", "dropping") /\ LeavesNothing(att[t])
  /\ path' = NoFile
  /\ UNCHANGED <<inode, meta, apply, disturbed>>

DropMeta(t) ==
  /\ At(t, "dropping") /\ Become(t, Idle)
  /\ meta' = NoMeta
  /\ UNCHANGED <<path, inode, apply, disturbed>>

(***************************************************************************)
(* The apply: copy under a temporary name, verify the copy, rename it.     *)
(***************************************************************************)

Copy ==
  /\ ready /\ ready' = FALSE
  /\ landing = NoCopy /\ ~evicting
  /\ landing' = IF path = NoFile THEN NoCopy ELSE Content
  /\ UNCHANGED <<disk, att, evicting, installed, disturbed>>

CopyVerified == landing = Artifact

Place ==
  /\ landing # NoCopy /\ CopyVerified
  /\ installed' = landing /\ landing' = NoCopy
  /\ UNCHANGED <<disk, att, ready, evicting, disturbed>>

(* Seeded fault: a refused copy leaves the cache entry it came from. *)
RefuseOnly ==
  /\ landing # NoCopy /\ ~CopyVerified
  /\ landing' = NoCopy
  /\ UNCHANGED <<disk, att, ready, evicting, installed, disturbed>>

(* quarantine: a refused copy evicts the entry the next attempt would hit. *)
Quarantine ==
  /\ landing # NoCopy /\ ~CopyVerified
  /\ landing' = NoCopy /\ evicting' = TRUE
  /\ meta' = NoMeta
  /\ UNCHANGED <<path, inode, att, ready, installed, disturbed>>

QuarantineFile ==
  /\ evicting /\ evicting' = FALSE
  /\ path' = NoFile
  /\ UNCHANGED <<inode, meta, att, ready, landing, installed, disturbed>>

(***************************************************************************)
(* The environment.                                                        *)
(***************************************************************************)

(* A crash loses every thread; a sidecar being written may be torn. *)
Crash ==
  /\ disturbed /\ MayCrash
  /\ att' = [t \in Transfers |-> Idle]
  /\ meta' \in {meta} \cup {NoMeta : t \in {u \in Transfers : At(u, "poll")}}
  /\ ready' = FALSE /\ landing' = NoCopy /\ evicting' = FALSE
  /\ UNCHANGED <<path, inode, installed, disturbed>>

(* Another artifact with this digest is transferred by a worker not among  *)
(* these: fresh, in whole, and after they missed the entry but before they *)
(* open it.  What the name referred to is gone.                            *)
AnotherLands ==
  LET free == CHOOSE i \in Inodes : i # path
  IN  /\ disturbed /\ Shared /\ ~Complete /\ ~Resumable
      /\ \A t \in Transfers : att[t].pc \in {"prepare", "purge", "probe"}
      /\ path' = free /\ inode' = [i \in Inodes |-> IF i = free THEN Artifact ELSE <<>>]
      /\ meta' = [size |-> Size, written |-> Size]
      /\ ready' = TRUE
      /\ UNCHANGED <<att, landing, evicting, installed, disturbed>>

(* From here on the server sends the artifact and nobody stops a transfer. *)
Settle ==
  /\ disturbed /\ disturbed' = FALSE
  /\ UNCHANGED <<disk, att, apply>>

(***************************************************************************)
(* The specification.                                                      *)
(***************************************************************************)

Opening(t) ==
  \/ Begin(t) \/ ServeCached(t) \/ MissCache(t) \/ OpenCached(t) \/ OpenResume(t)
  \/ PurgeMeta(t) \/ PurgeFile(t) \/ CreateFile(t) \/ CreateFails(t)
  \/ StopOpened(t) \/ HashPrefix(t)

Reading(t) ==
  \/ Reread(t) \/ ObserveCancel(t) \/ ObservePause(t) \/ RequestAccepted(t)
  \/ RequestRefused(t) \/ RequestFails(t) \/ ReadBytes(t) \/ ReadFails(t)
  \/ EndOfBody(t) \/ Unlink(t) \/ Unmeta(t)

Ending(t) ==
  \/ Validate(t) \/ EvictMeta(t) \/ EvictFile(t)
  \/ DropKeeps(t) \/ DropFile(t) \/ DropMeta(t)

Transfer(t) == Opening(t) \/ Reading(t) \/ Ending(t)
Apply       == Copy \/ Place \/ Quarantine \/ QuarantineFile

Next == (\E t \in Transfers : Transfer(t)) \/ AnotherLands \/ Apply
        \/ Crash \/ Settle

Spec == Init /\ [][Next]_vars

(* Threads run, and a caller whose entry failed asks for it again. *)
FairSpec == Spec /\ WF_vars(Apply) /\ \A t \in Transfers : WF_vars(Transfer(t))

(***************************************************************************)
(* Properties.                                                             *)
(***************************************************************************)

(* Every variable keeps its type: a sidecar that can be read states both   *)
(* lengths.                                                                *)
TypeOK ==
  /\ path \in Inodes \cup {NoFile}
  /\ inode \in [Inodes -> Bytes(MaxBody)]
  /\ meta \in {NoMeta} \cup [size : 0..MaxBody, written : 0..MaxBody]
  /\ att \in [Transfers -> Attempt]
  /\ ready \in BOOLEAN /\ evicting \in BOOLEAN /\ disturbed \in BOOLEAN
  /\ landing \in {NoCopy} \cup Bytes(MaxBody)
  /\ installed \in {NoCopy} \cup Bytes(MaxBody)

(* The in-flight digest covers the whole file: while a transfer streams,   *)
(* it has been fed exactly the bytes on disk, those an earlier attempt     *)
(* left included (hash_prefix).                                            *)
HashCoversFile ==
  \A t \in Transfers : At(t, "poll") => att[t].hash = inode[att[t].handle]

(* A pause keeps the partial file resumable: once it settles, file and     *)
(* sidecar agree on all the bytes received, over any number of pauses and  *)
(* resumes (TransferQueue::pause, save_meta, plan_resume), unless an apply *)
(* that shares the digest has evicted the file under the transfer.         *)
PausedIsResumable ==
  \A t \in Transfers :
    LET a == att[t]
    IN  At(t, "drop") /\ a.status = "Paused" /\ 0 < Total(a) /\ Total(a) < a.size
          /\ path = a.handle /\ ~evicting
          => Resumable /\ meta.written = Total(a)

(* Nothing on disk wedges the entry: whatever crashes, refusals, splices   *)
(* and half-done evictions left behind, once the server behaves and the    *)
(* caller keeps asking, the complete artifact ends up cached.              *)
EntryRecovers == ~disturbed ~> Complete /\ Content = Artifact

=============================================================================
