---------------------------- MODULE ChannelTrust ------------------------------
(***************************************************************************)
(* A client of the channel (crates/updater/src/channel) beside those that  *)
(* publish it: one check takes the time from the network, refreshes the    *)
(* chain file by file through a store of verified metadata, admits it      *)
(* against the floor, raises the floor, and resolves the manifest.  The    *)
(* store and the floor are on disk; a check may be cut off anywhere, and   *)
(* the store, but not the floor, may be lost.                              *)
(*                                                                         *)
(* The refresh is the library's (sigstore-tuf): what is fetched must be    *)
(* what was pinned, unexpired, and no older than what the store holds; a   *)
(* timestamp of the version held is not taken over it.                     *)
(***************************************************************************)
EXTENDS ReleaseChain

VARIABLES
  client,    \* where the check is, its time, and the chain it has verified
  store,     \* the verified metadata on disk
  floor,     \* the floor on disk
  accepted   \* what the last successful check named

vars == <<publishing, client, store, floor, accepted>>
trust == <<client, store, floor, accepted>>
held == <<now, host, past, local, run, released>>

NoChain == [timestamp |-> NoFile, snapshot |-> NoFile, targets |-> NoFile]
Idle    == [pc |-> "idle", at |-> 0, chain |-> NoChain]

NoFloor == [timestamp |-> 0, snapshot |-> 0, targets |-> 0, verified_at |-> 0]

Init ==
  /\ InitPublishing
  /\ client = Idle /\ store = NoChain /\ floor = NoFloor
  /\ accepted = [release |-> 0, floor |-> NoFloor]

-----------------------------------------------------------------------------
(* The floor. *)

FloorOf(chain, at) ==
  [timestamp |-> chain.timestamp.version, snapshot |-> chain.snapshot.version,
   targets |-> chain.targets.version, verified_at |-> at]

Roles == {"timestamp", "snapshot", "targets"}

(* Seeded fault: the time is compared, the versions are not. *)
AdmitsTime(limit, offered) == limit.verified_at <= offered.verified_at

(* Seeded fault: a chain admitted once is not admitted again. *)
AdmitsNewer(limit, offered) == \A role \in Roles : limit[role] < offered[role]

Admits(limit, offered) == \A role \in Roles : limit[role] <= offered[role]

Highest(a, b) == IF a < b THEN b ELSE a

(* Seeded fault: the time is raised, the versions are not. *)
RaisedTime(limit, offered) ==
  [limit EXCEPT !.verified_at = Highest(limit.verified_at, offered.verified_at)]

RaisedTo(limit, offered) == [field \in DOMAIN limit |-> Highest(limit[field], offered[field])]

-----------------------------------------------------------------------------
(* A check. *)

(* The same instant is admitted: two checks can share a second. *)
AdmitsDate(limit, at) == limit.verified_at <= at

(* The later of the host's date and the machine's clock, neither of which  *)
(* runs fast here; a time before the floor's is refused.                   *)
Begin ==
  /\ client.pc = "idle"
  /\ \E at \in 0..now :
        /\ AdmitsDate(floor, at)
        /\ client' = [Idle EXCEPT !.pc = "timestamp", !.at = at]
  /\ UNCHANGED <<publishing, store, floor, accepted>>

Ends == client' = Idle

Takes(role, file, next) ==
  /\ client' = [client EXCEPT !.pc = next, !.chain[role] = file]
  /\ store' = [store EXCEPT ![role] = file]
  /\ UNCHANGED <<publishing, floor, accepted>>

(* Metadata in the store that has expired no longer counts (trust.rs). *)
Trusted(role) ==
  IF store[role] # NoFile /\ InForce(store[role], client.at) THEN store[role] ELSE NoFile

(* What a refresh takes for a timestamp; it is no older than the one held. *)
Offered(entry) ==
  IF entry.version = Trusted("timestamp").version THEN store.timestamp ELSE entry

TakesEntry(entry) ==
  /\ entry # NoFile /\ Offered(entry).version >= Trusted("timestamp").version
  /\ InForce(Offered(entry), client.at)

FetchEntry(entry) ==
  /\ client.pc = "timestamp" /\ TakesEntry(entry)
  /\ Takes("timestamp", Offered(entry), "snapshot")

FetchTimestamp == FetchEntry(host[Entry])

(* The answer of a cache, or of a host gone back. *)
FetchStale == \E entry \in past : FetchEntry(entry)

(* What is pinned is read from the store if it is there. *)
TakesPinned(role, file) ==
  /\ store[role] = file \/ host[Name(file)] = file
  /\ InForce(file, client.at)
  /\ Trusted(role).version <= file.version

FetchSnapshot ==
  LET snapshot == client.chain.timestamp.pins
  IN  /\ client.pc = "snapshot" /\ TakesPinned("snapshot", snapshot)
      /\ Takes("snapshot", snapshot, "targets")

FetchTargets ==
  LET targets == client.chain.snapshot.pins
  IN  /\ client.pc = "targets" /\ TakesPinned("targets", targets)
      /\ Takes("targets", targets, "floor")

RefreshFails ==
  /\ \/ client.pc = "timestamp" /\ ~TakesEntry(host[Entry])
     \/ client.pc = "snapshot" /\ ~TakesPinned("snapshot", client.chain.timestamp.pins)
     \/ client.pc = "targets" /\ ~TakesPinned("targets", client.chain.snapshot.pins)
  /\ Ends
  /\ UNCHANGED <<publishing, store, floor, accepted>>

(* The floor is raised before the manifest is resolved. *)
RaiseFloor ==
  LET offered == FloorOf(client.chain, client.at)
  IN  /\ client.pc = "floor"
      /\ IF Admits(floor, offered)
           THEN /\ floor' = RaisedTo(floor, offered)
                /\ client' = [client EXCEPT !.pc = "target"]
           ELSE Ends /\ UNCHANGED floor
      /\ UNCHANGED <<publishing, store, accepted>>

(* A chain may name no manifest yet. *)
Resolve ==
  LET release == client.chain.targets.release
  IN  /\ client.pc = "target" /\ Ends
      /\ accepted' = IF release # 0 /\ host[<<"manifest", release>>] = Manifest(release)
                     THEN [release |-> release, floor |-> FloorOf(client.chain, client.at)]
                     ELSE accepted
      /\ UNCHANGED <<publishing, store, floor>>

CutOff == /\ client.pc # "idle" /\ Fault /\ Ends
          /\ UNCHANGED <<held, store, floor, accepted>>

StoreLost == /\ client.pc = "idle" /\ store # NoChain /\ Fault /\ store' = NoChain
             /\ UNCHANGED <<held, client, floor, accepted>>

Check == Begin \/ FetchTimestamp \/ FetchStale \/ FetchSnapshot \/ FetchTargets \/ RefreshFails
         \/ RaiseFloor \/ Resolve

PublisherStep == Publishing /\ UNCHANGED trust

Next == Check \/ CutOff \/ StoreLost \/ PublisherStep

Spec == Init /\ [][Next]_vars

(* The schedule asks again and again, and is not given stale answers for   *)
(* ever (cache_key makes each request one no cache has seen).              *)
FairSpec == Spec /\ WF_vars(Check) /\ SF_vars(FetchTimestamp)

-----------------------------------------------------------------------------

(* Floor::admit: no check, whatever was lost or cut off before it, names   *)
(* anything from a chain older, in any role, or verified earlier, than one *)
(* a check accepted before.                                                *)
ClientNeverGoesBack ==
  [][accepted' # accepted =>
       \A field \in DOMAIN floor : accepted.floor[field] <= accepted'.floor[field]]_vars

(* The version was served as one chain only. *)
ServedOnce(version) ==
  \A one, other \in past : one.version = version /\ other.version = version => one = other

(* remote.rs: "nothing is ever un-published": whichever side served the    *)
(* chain last, whatever died before it, lost from the store or answered    *)
(* stale, the release set a client names is never replaced by an older     *)
(* one.  The exception is what a run that died replacing the entry point   *)
(* leaves: the version the client holds is then served a second time, and  *)
(* a stale answer may be newer than it and name less.                      *)
ReleasesOnlyAdvance ==
  [][ServedOnce(accepted.floor.timestamp) => accepted.release <= accepted'.release]_vars

(* A chain that verifies, that is the one held or newer, and that admits.  *)
Servable ==
  LET entry == host[Entry]
      chain == [timestamp |-> entry, snapshot |-> entry.pins, targets |-> entry.pins.pins]
  IN  /\ Verifies(host, now) /\ NamesWhatIsThere(host)
      /\ entry.version = store.timestamp.version => entry = store.timestamp
      /\ \A role \in Roles : /\ store[role].version <= chain[role].version
                             /\ floor[role] <= chain[role].version

CaughtUp == /\ InUse(Entry)
            /\ host[Entry].pins.pins.release \in {0, accepted.release}

(* check/mod.rs: a check that was cut off, or refused, is asked again: if  *)
(* the host comes to serve for good a chain the client could take, the     *)
(* client comes to name the release set it names.                          *)
ClientCatchesUp == <>[]Servable => <>[]CaughtUp
=============================================================================
