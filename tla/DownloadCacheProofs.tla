------------------------ MODULE DownloadCacheProofs -------------------------
(***************************************************************************)
(* Proofs about one entry of the download cache, for any length of the     *)
(* artifact, any bound on the bodies and files, any server and any crash.  *)
(* The types are for any number of transfers; what a transfer streams and  *)
(* leaves is for one at a time.                                            *)
(***************************************************************************)
EXTENDS DownloadCache, FiniteSetTheorems, TLAPS

(* What an attempt has, step by step. *)
AttemptOK(a) ==
  /\ a.pc \in {"check", "prepare", "purge", "probe"} => a = [Idle EXCEPT !.pc = a.pc]
  /\ a.pc \in {"opened", "reread", "poll"} => a.handle \in Inodes
  /\ a.pc = "opened" => a.hash = <<>> /\ a.written = 0
  /\ a.pc = "reread" => Len(a.hash) <= MaxBody
  /\ a.pc = "poll" => /\ a.kind # "cached" /\ Total(a) <= MaxBody
                      /\ Len(a.hash) = Total(a)
  /\ a.status = "Paused" => a.pc = "drop" /\ a.handle \in Inodes

AttemptInv == \A t \in Transfers : AttemptOK(att[t])

CacheInv == TypeOK /\ AttemptInv

-----------------------------------------------------------------------------
(* Data. *)

(* Bytes are the sequences of a bounded length. *)
LEMMA BytesFact ==
  ASSUME NEW n \in Nat
  PROVE  \A s : s \in Bytes(n) <=> s \in Seq(BOOLEAN) /\ Len(s) <= n
<1>1. ASSUME NEW s \in Bytes(n)
      PROVE  s \in Seq(BOOLEAN) /\ Len(s) <= n
  <2>1. PICK k \in 0..n : s \in [1..k -> BOOLEAN]
    BY DEF Bytes
  <2>2. QED
    BY <2>1
<1>2. ASSUME NEW s \in Seq(BOOLEAN), Len(s) <= n
      PROVE  s \in Bytes(n)
  <2>1. Len(s) \in 0..n /\ s \in [1..Len(s) -> BOOLEAN]
    BY <1>2
  <2>2. QED
    BY <2>1 DEF Bytes
<1>3. QED
  BY <1>1, <1>2

LEMMA HashFact ==
  /\ <<>> \in Bytes(2 * MaxBody)
  /\ \A s : s \in Bytes(2 * MaxBody) <=> s \in Seq(BOOLEAN) /\ Len(s) <= 2 * MaxBody
<1> DEFINE n == 2 * MaxBody
<1>1. n \in Nat
  BY SizesAssumption
<1>2. <<>> \in Seq(BOOLEAN) /\ Len(<<>>) <= n
  BY <1>1
<1> HIDE DEF n
<1>3. <<>> \in Bytes(n) /\ \A s : s \in Bytes(n) <=> s \in Seq(BOOLEAN) /\ Len(s) <= n
  BY <1>1, <1>2, BytesFact
<1>4. QED
  BY <1>3 DEF n

(* The artifact fits, and the file that is longer than any does not. *)
LEMMA ArtifactFact ==
  /\ Artifact \in Bytes(MaxBody) /\ <<>> \in Bytes(MaxBody)
  /\ NoCopy \notin Bytes(MaxBody) /\ NoFile \notin Inodes
<1>1. Artifact \in Seq(BOOLEAN) /\ Len(Artifact) = Size
  BY SizesAssumption DEF Artifact
<1>2. Len(NoCopy) = MaxBody + 1
  BY SizesAssumption DEF NoCopy
<1>3. NoFile \notin Inodes
  <2>1. \A i \in Inodes : Len(i) = 2
    BY DEF Inodes
  <2>2. QED
    BY <2>1 DEF NoFile
<1>4. MaxBody \in Nat /\ Size <= MaxBody
  BY SizesAssumption
<1>5. Artifact \in Bytes(MaxBody)
  BY <1>1, <1>4, BytesFact
<1>6. <<>> \in Bytes(MaxBody)
  <2>1. <<>> \in Seq(BOOLEAN) /\ Len(<<>>) <= MaxBody
    BY <1>4
  <2>2. QED
    BY <1>4, <2>1, BytesFact
<1>7. NoCopy \notin Bytes(MaxBody)
  BY <1>2, <1>4, BytesFact
<1>8. QED
  BY <1>3, <1>5, <1>6, <1>7

(* There are more inodes than transfers have open. *)
LEMMA UnusedFact ==
  ASSUME path = NoFile
  PROVE  Unused # {} /\ Unused \subseteq Inodes
<1> DEFINE handles == [t \in Transfers |-> att[t].handle]
           Open    == {att[t].handle : t \in Transfers}
<1>1. IsFiniteSet(Open) /\ Cardinality(Open) <= Cardinality(Transfers)
  <2>1. handles \in Surjection(Transfers, Open)
    BY DEF Surjection
  <2>2. QED
    BY <2>1, FS_Surjection, TransfersAssumption
<1>2. /\ IsFiniteSet(Inodes)
      /\ Cardinality(Inodes) = Cardinality(Transfers) * 2
  <2>1. IsFiniteSet({0, 1}) /\ Cardinality({0, 1}) = 2
    <3>1. IsFiniteSet({0}) /\ Cardinality({0}) = 1 /\ {0, 1} = {0} \cup {1}
      BY FS_Singleton
    <3>2. QED
      BY <3>1, FS_AddElement
  <2>2. QED
    BY <2>1, FS_Product, TransfersAssumption DEF Inodes
<1>3. Cardinality(Transfers) \in Nat /\ Cardinality(Transfers) # 0
      /\ Cardinality(Open) \in Nat
  BY <1>1, TransfersAssumption, FS_CardinalityType, FS_EmptySet
<1>4. ~(Inodes \subseteq Open)
  <2> SUFFICES ASSUME Inodes \subseteq Open
               PROVE  FALSE
    OBVIOUS
  <2>1. Cardinality(Inodes) <= Cardinality(Open)
    BY <1>1, FS_Subset
  <2>2. QED
    BY <1>1, <1>2, <1>3, <2>1
<1>5. PICK i \in Inodes : i \notin Open
  BY <1>4
<1>6. i # path
  BY <1>5, ArtifactFact
<1>7. QED
  BY <1>5, <1>6 DEF Unused

LEMMA TwoInodes ==
  \E i \in Inodes : i # path
<1>1. PICK t : t \in Transfers
  BY TransfersAssumption
<1>2. <<t, 0>> \in Inodes /\ <<t, 1>> \in Inodes /\ <<t, 0>> # <<t, 1>>
  BY <1>1 DEF Inodes
<1>3. QED
  BY <1>2

(* What one step has written of a file. *)
LEMMA WrittenFact ==
  ASSUME NEW a, NEW byte \in BOOLEAN, inode[a.handle] \in Bytes(MaxBody),
         Len(inode[a.handle]) < MaxBody, a.written \in Nat, a.written < MaxBody
  PROVE  /\ Written(a, byte) \in Bytes(MaxBody)
         /\ a.kind = "resumed" \/ a.written = Len(inode[a.handle])
              => Written(a, byte) = Append(inode[a.handle], byte)
<1> DEFINE old == inode[a.handle]
           at  == IF a.kind = "resumed" THEN Len(old) ELSE a.written
           n   == IF at < Len(old) THEN Len(old) ELSE at + 1
<1>1. old \in Seq(BOOLEAN) /\ Len(old) \in Nat /\ MaxBody \in Nat
  BY BytesFact, SizesAssumption
<1>2. n \in 0..MaxBody
  BY <1>1
<1>3. Written(a, byte) = [i \in 1..n |-> IF i = at + 1 THEN byte ELSE i <= Len(old) /\ old[i]]
  BY DEF Written
<1>4. \A i \in 1..Len(old) : old[i] \in BOOLEAN
  BY <1>1
<1>5. Written(a, byte) \in [1..n -> BOOLEAN]
  BY <1>1, <1>3, <1>4
<1>6. Written(a, byte) \in Bytes(MaxBody)
  BY <1>2, <1>5 DEF Bytes
<1>7. ASSUME a.kind = "resumed" \/ a.written = Len(old)
      PROVE  Written(a, byte) = Append(old, byte)
  <2>1. at = Len(old) /\ n = Len(old) + 1
    BY <1>1, <1>7
  <2>2. Written(a, byte) = [i \in 1..(Len(old) + 1) |-> IF i = Len(old) + 1 THEN byte ELSE old[i]]
    BY <1>1, <1>3, <1>4, <2>1
  <2>3. QED
    BY <1>1, <2>2
<1>8. QED
  BY <1>6, <1>7

-----------------------------------------------------------------------------
(* Types, for any number of transfers. *)

(* A step of t leaves a good attempt and the others as they are. *)
Moves(t) == \E a \in Attempt : AttemptOK(a) /\ att' = [att EXCEPT ![t] = a]

LEMMA MovesFact ==
  ASSUME CacheInv, NEW t \in Transfers, Moves(t)
  PROVE  att' \in [Transfers -> Attempt] /\ AttemptInv'
  BY DEF CacheInv, TypeOK, AttemptInv, Moves, AttemptOK, Total

LEMMA IdleFact ==
  /\ Idle \in Attempt /\ AttemptOK(Idle)
  /\ \A pc \in {"check", "prepare", "purge", "probe"} :
       [Idle EXCEPT !.pc = pc] \in Attempt /\ AttemptOK([Idle EXCEPT !.pc = pc])
<1>1. /\ 0 \in 0..MaxBody /\ <<>> \in Bytes(2 * MaxBody)
  BY HashFact, SizesAssumption
<1>2. ASSUME NEW pc \in {"check", "prepare", "purge", "probe"}
      PROVE  [Idle EXCEPT !.pc = pc] \in Attempt /\ AttemptOK([Idle EXCEPT !.pc = pc])
  <2>1. [Idle EXCEPT !.pc = pc] \in Attempt
    BY <1>1 DEF Idle, Attempt, Pc
  <2>2. AttemptOK([Idle EXCEPT !.pc = pc])
    BY DEF AttemptOK, Idle
  <2>3. QED
    BY <2>1, <2>2
<1>3. Idle \in Attempt /\ AttemptOK(Idle)
  BY <1>1 DEF Idle, Attempt, Pc, AttemptOK
<1>4. QED
  BY <1>2, <1>3

(* The types of what is on disk. *)
DiskOK ==
  /\ path \in Inodes \cup {NoFile}
  /\ inode \in [Inodes -> Bytes(MaxBody)]
  /\ meta \in {NoMeta} \cup [size : 0..MaxBody, written : 0..MaxBody]

(* The entry's bytes, and what they say. *)
LEMMA ContentFact ==
  ASSUME CacheInv
  PROVE  /\ Content \in Bytes(MaxBody) /\ Content \in Seq(BOOLEAN) /\ Len(Content) \in 0..MaxBody
         /\ Content # <<>> => path \in Inodes
         /\ Resumable => /\ path \in Inodes /\ meta.written \in 0..MaxBody
                         /\ meta.size \in 0..MaxBody
<1>1. Content \in Bytes(MaxBody)
  BY ArtifactFact DEF CacheInv, TypeOK, Content
<1>2. Content \in Seq(BOOLEAN) /\ Len(Content) \in 0..MaxBody
  BY <1>1, BytesFact, SizesAssumption
<1>3. QED
  BY <1>1, <1>2 DEF CacheInv, TypeOK, Content, Resumable

LEMMA OpeningTyped ==
  ASSUME CacheInv, NEW t \in Transfers, Opening(t)
  PROVE  Moves(t) /\ DiskOK'
<1> DEFINE a == att[t]
<1>1. /\ a \in Attempt /\ AttemptOK(a) /\ MaxBody \in Nat
      /\ DiskOK
  BY SizesAssumption DEF CacheInv, TypeOK, AttemptInv, DiskOK
<1>2. a.pc \in {"check", "prepare", "purge", "probe"} => a = [Idle EXCEPT !.pc = a.pc]
  BY <1>1 DEF AttemptOK
<1>3. CASE Begin(t) \/ ServeCached(t) \/ CreateFails(t) \/ StopOpened(t)
  BY <1>1, <1>3, IdleFact DEF Begin, ServeCached, CreateFails, StopOpened, Become, Moves,
                              disk, DiskOK
<1>4. CASE MissCache(t) \/ PurgeMeta(t) \/ PurgeFile(t)
  <2>1. /\ a.pc \in {"check", "prepare", "purge"}
        /\ \E pc \in {"prepare", "purge", "probe"} :
             att' = [att EXCEPT ![t] = [a EXCEPT !.pc = pc]]
    BY <1>4 DEF MissCache, PurgeMeta, PurgeFile, Goto, At
  <2>1a. \A pc : [a EXCEPT !.pc = pc] = [Idle EXCEPT !.pc = pc]
    BY <1>2, <2>1 DEF Idle
  <2>2. DiskOK'
    BY <1>1, <1>4 DEF MissCache, PurgeMeta, PurgeFile, disk, DiskOK
  <2>3. QED
    BY <2>1, <2>1a, <2>2, IdleFact DEF Moves
<1>5. CASE OpenCached(t)
  <2> DEFINE r == Opened(t, "cached", Len(Content), Len(Content))
  <2>1. path \in Inodes /\ Len(Content) \in 0..MaxBody
    BY <1>5, ContentFact DEF OpenCached, Complete
  <2>2. a = [Idle EXCEPT !.pc = "prepare"]
    BY <1>2, <1>5 DEF OpenCached, At
  <2>3. r \in Attempt /\ AttemptOK(r)
    BY <1>1, <2>1, <2>2 DEF Opened, Attempt, AttemptOK, Pc, Idle
  <2>4. QED
    BY <1>1, <1>5, <2>3 DEF OpenCached, Become, Moves, DiskOK, disk
<1>6. CASE OpenResume(t)
  <2> DEFINE r == Opened(t, "resumed", meta.written, meta.size)
  <2>1. path \in Inodes /\ meta.written \in 0..MaxBody /\ meta.size \in 0..MaxBody
    BY <1>6, ContentFact DEF OpenResume
  <2>2. a = [Idle EXCEPT !.pc = "prepare"]
    BY <1>2, <1>6 DEF OpenResume, At
  <2>3. r \in Attempt /\ AttemptOK(r)
    <3>1. r \in Attempt
      BY <1>1, <2>1 DEF Opened, Attempt, Pc
    <3>2. AttemptOK(r)
      BY <2>1, <2>2 DEF Opened, AttemptOK, Idle
    <3>3. QED
      BY <3>1, <3>2
  <2>4. QED
    BY <1>1, <1>6, <2>3 DEF OpenResume, Become, Moves, DiskOK, disk
<1>7. CASE CreateFile(t)
  <2>1. path' \in Inodes
    BY <1>1, <1>7, UnusedFact DEF CreateFile, DiskOK
  <2>2. PICK size \in Announced :
          att' = [att EXCEPT ![t] = [a EXCEPT !.pc = "opened", !.handle = path', !.size = size]]
    BY <1>7 DEF CreateFile, Become
  <2> DEFINE r == [a EXCEPT !.pc = "opened", !.handle = path', !.size = size]
  <2>3. a = [Idle EXCEPT !.pc = "probe"] /\ size \in {NoSize} \cup 0..MaxBody
    BY <1>2, <1>7, <2>2, SizesAssumption DEF CreateFile, At, Announced
  <2>4. r \in Attempt /\ AttemptOK(r)
    BY <1>1, <2>1, <2>3 DEF Attempt, AttemptOK, Pc, Idle
  <2>5. DiskOK'
    BY <1>1, <1>7, <2>1, ArtifactFact DEF CreateFile, DiskOK
  <2>6. QED
    BY <2>2, <2>4, <2>5 DEF Moves
<1>8. CASE HashPrefix(t)
  <2>1. a.handle \in Inodes /\ a.hash = <<>> /\ a.written = 0 /\ a.offset \in 0..MaxBody
        /\ a.status # "Paused"
    BY <1>1, <1>8 DEF HashPrefix, At, AttemptOK, Attempt
  <2>2. CASE a.offset > Len(Content)
    <3>1. [a EXCEPT !.pc = "evict"] \in Attempt /\ AttemptOK([a EXCEPT !.pc = "evict"])
      BY <1>1, <2>1 DEF Attempt, AttemptOK, Pc
    <3>2. QED
      BY <1>1, <1>8, <2>2, <3>1 DEF HashPrefix, Become, Moves, DiskOK, disk
  <2>3. CASE ~(a.offset > Len(Content))
    <3> DEFINE prefix == SubSeq(Content, 1, a.offset)
               r == [a EXCEPT !.pc = IF a.kind = "cached" THEN "reread" ELSE "poll",
                              !.hash = prefix]
    <3>1. prefix \in Seq(BOOLEAN) /\ Len(prefix) = a.offset
      BY <2>1, <2>3, ContentFact
    <3>2. prefix \in Bytes(2 * MaxBody)
      <4>1. Len(prefix) <= 2 * MaxBody
        BY <1>1, <2>1, <3>1
      <4>2. QED
        BY <3>1, <4>1, HashFact
    <3> HIDE DEF prefix
    <3>3. r \in Attempt
      BY <1>1, <3>2 DEF Attempt, Pc
    <3>4. AttemptOK(r)
      BY <1>1, <2>1, <3>1 DEF Attempt, AttemptOK, Total
    <3>5. QED
      BY <1>1, <1>8, <2>3, <3>3, <3>4 DEF HashPrefix, Become, Moves, DiskOK, disk, prefix
  <2>4. QED
    BY <2>2, <2>3
<1>9. QED
  BY <1>3, <1>4, <1>5, <1>6, <1>7, <1>8 DEF Opening

LEMMA ReadingTyped ==
  ASSUME CacheInv, NEW t \in Transfers, Reading(t)
  PROVE  Moves(t) /\ DiskOK'
<1> DEFINE a == att[t]
<1>1. /\ a \in Attempt /\ AttemptOK(a) /\ MaxBody \in Nat /\ DiskOK
  BY SizesAssumption DEF CacheInv, TypeOK, AttemptInv, DiskOK
<1>2. a.pc \in {"reread", "poll"} =>
        /\ a.handle \in Inodes /\ inode[a.handle] \in Bytes(MaxBody)
        /\ inode[a.handle] \in Seq(BOOLEAN) /\ Len(inode[a.handle]) \in 0..MaxBody
        /\ a.hash \in Seq(BOOLEAN) /\ a.status # "Paused"
  BY <1>1, BytesFact, HashFact DEF AttemptOK, DiskOK, Attempt
<1>3. a.pc = "poll" => /\ a.kind # "cached" /\ Total(a) \in 0..MaxBody /\ Len(a.hash) = Total(a)
                       /\ a.offset \in Nat /\ a.written \in Nat
  BY <1>1 DEF AttemptOK, Attempt, Total
<1>4. CASE Reread(t)
  <2> DEFINE hash == a.hash \o inode[a.handle]
             r    == [a EXCEPT !.pc = "validate", !.hash = hash]
  <2>1. /\ a.pc = "reread" /\ Len(a.hash) \in 0..MaxBody
    BY <1>1, <1>2, <1>4 DEF Reread, At, AttemptOK
  <2>2. hash \in Bytes(2 * MaxBody)
    <3>1. /\ a.hash \in Seq(BOOLEAN) /\ Len(a.hash) \in 0..MaxBody
          /\ inode[a.handle] \in Seq(BOOLEAN) /\ Len(inode[a.handle]) \in 0..MaxBody
      BY <1>2, <2>1
    <3>2. hash \in Seq(BOOLEAN) /\ Len(hash) = Len(a.hash) + Len(inode[a.handle])
      BY <3>1
    <3>3. \A m, n \in 0..MaxBody : m + n <= 2 * MaxBody
      BY <1>1
    <3>4. Len(hash) <= 2 * MaxBody
      BY <3>1, <3>2, <3>3
    <3>5. QED
      BY <3>2, <3>4, HashFact
  <2> HIDE DEF hash
  <2>3. r \in Attempt /\ AttemptOK(r)
    BY <1>1, <1>2, <2>1, <2>2 DEF Attempt, AttemptOK, Pc
  <2>4. QED
    BY <1>1, <1>4, <2>3 DEF Reread, Become, Moves, DiskOK, disk, hash
<1>5. CASE ObserveCancel(t) \/ RequestRefused(t) \/ RequestFails(t) \/ ReadFails(t)
  <2>1. \E pc \in {"unlink", "drop"} : \E status \in {"Cancelled", "Failed"} :
          att' = [att EXCEPT ![t] = [a EXCEPT !.pc = pc, !.status = status]]
    BY <1>5 DEF ObserveCancel, RequestRefused, RequestFails, ReadFails, Fails, Become
  <2>2. \A pc \in {"unlink", "drop"} : \A status \in {"Cancelled", "Failed"} :
          LET r == [a EXCEPT !.pc = pc, !.status = status] IN r \in Attempt /\ AttemptOK(r)
    <3> TAKE pc \in {"unlink", "drop"}, status \in {"Cancelled", "Failed"}
    <3> DEFINE r == [a EXCEPT !.pc = pc, !.status = status]
    <3>1. r \in Attempt
      BY <1>1 DEF Attempt, Pc
    <3>2. AttemptOK(r)
      BY <1>1 DEF Attempt, AttemptOK
    <3>3. QED
      BY <3>1, <3>2
  <2>3. DiskOK'
    BY <1>1, <1>5 DEF ObserveCancel, RequestRefused, RequestFails, ReadFails, disk, DiskOK
  <2>4. QED
    BY <2>1, <2>2, <2>3 DEF Moves
<1>6. CASE ObservePause(t)
  <2> DEFINE r == [a EXCEPT !.pc = "drop", !.status = "Paused"]
  <2>1. r \in Attempt /\ AttemptOK(r)
    BY <1>1, <1>2, <1>6 DEF ObservePause, At, Attempt, AttemptOK, Pc
  <2>2. meta' \in {NoMeta} \cup [size : 0..MaxBody, written : 0..MaxBody]
    BY <1>1, <1>3, <1>6 DEF ObservePause, At, SavedMeta, DiskOK, Attempt
  <2>3. QED
    BY <1>1, <1>6, <2>1, <2>2 DEF ObservePause, Become, Moves, DiskOK
<1>7. CASE RequestAccepted(t)
  <2>1. LET r == [a EXCEPT !.started = TRUE] IN r \in Attempt /\ AttemptOK(r)
    BY <1>1, <1>7 DEF RequestAccepted, At, Attempt, AttemptOK, Total
  <2>2. QED
    BY <1>1, <1>7, <2>1 DEF RequestAccepted, Become, Moves, DiskOK, disk
<1>8. CASE ReadBytes(t)
  <2>1. PICK byte \in Sent(a) :
          /\ inode' = [inode EXCEPT ![a.handle] = Written(a, byte)]
          /\ Become(t, [a EXCEPT !.written = @ + 1, !.hash = Append(@, byte)])
    BY <1>8 DEF ReadBytes
  <2>2. byte \in BOOLEAN /\ a.pc = "poll" /\ Total(a) < MaxBody /\ Len(inode[a.handle]) < MaxBody
    BY <1>8, <2>1 DEF ReadBytes, At, Sent
  <2>3. a.written < MaxBody
    BY <1>1, <1>3, <2>2 DEF Total
  <2>4. Written(a, byte) \in Bytes(MaxBody)
    BY <1>2, <1>3, <2>2, <2>3, WrittenFact
  <2>5. DiskOK'
    BY <1>1, <1>8, <2>1, <2>4 DEF ReadBytes, DiskOK
  <2> DEFINE hash == Append(a.hash, byte)
             r    == [a EXCEPT !.written = @ + 1, !.hash = hash]
  <2>6. hash \in Seq(BOOLEAN) /\ Len(hash) = Total(a) + 1
    BY <1>2, <1>3, <2>2
  <2>7. hash \in Bytes(2 * MaxBody)
    <3>1. Len(hash) <= 2 * MaxBody
      BY <1>1, <1>3, <2>2, <2>6
    <3>2. QED
      BY <2>6, <3>1, HashFact
  <2> HIDE DEF hash
  <2>8. r \in Attempt
    <3>1. a.written + 1 \in 0..MaxBody
      BY <1>1, <1>3, <2>2, <2>3
    <3>2. QED
      BY <1>1, <2>7, <3>1 DEF Attempt
  <2>9. AttemptOK(r)
    <3>1. Total(r) = Total(a) + 1
      BY <1>1, <1>3, <2>2 DEF Total, Attempt
    <3>2. QED
      BY <1>1, <1>2, <1>3, <2>2, <2>6, <3>1 DEF AttemptOK, Attempt
  <2>10. QED
    BY <2>1, <2>5, <2>8, <2>9 DEF Become, Moves, hash
<1>9. CASE EndOfBody(t)
  <2> DEFINE r == [a EXCEPT !.pc = "validate", !.status = "Complete", !.size = Total(a)]
  <2>1. Total(a) \in 0..MaxBody
    BY <1>3, <1>9 DEF EndOfBody, At
  <2>2. r \in Attempt /\ AttemptOK(r)
    BY <1>1, <2>1 DEF Attempt, AttemptOK, Pc
  <2>3. QED
    BY <1>1, <1>9, <2>1, <2>2 DEF EndOfBody, Become, Moves, DiskOK
<1>10. CASE Unlink(t) \/ Unmeta(t)
  <2>1. /\ a.pc \in {"unlink", "unmeta"}
        /\ \E pc \in {"unmeta", "evict", "drop"} :
             att' = [att EXCEPT ![t] = [a EXCEPT !.pc = pc]]
    BY <1>10 DEF Unlink, Unmeta, Goto, At
  <2>2. \A pc \in {"unmeta", "evict", "drop"} :
          LET r == [a EXCEPT !.pc = pc] IN r \in Attempt /\ AttemptOK(r)
    BY <1>1, <2>1 DEF Attempt, AttemptOK, Pc
  <2>3. DiskOK'
    BY <1>1, <1>10 DEF Unlink, Unmeta, DiskOK
  <2>4. QED
    BY <2>1, <2>2, <2>3 DEF Moves
<1>11. QED
  BY <1>4, <1>5, <1>6, <1>7, <1>8, <1>9, <1>10 DEF Reading

LEMMA EndingTyped ==
  ASSUME CacheInv, NEW t \in Transfers, Ending(t)
  PROVE  Moves(t) /\ DiskOK'
<1> DEFINE a == att[t]
<1>1. /\ a \in Attempt /\ AttemptOK(a) /\ DiskOK
  BY DEF CacheInv, TypeOK, AttemptInv, DiskOK
<1>2. CASE DropKeeps(t) \/ DropMeta(t)
  BY <1>1, <1>2, IdleFact DEF DropKeeps, DropMeta, Become, Moves, disk, DiskOK
<1>3. CASE Validate(t) \/ EvictMeta(t) \/ EvictFile(t)
  <2>1. /\ a.pc \in {"validate", "evict", "evicted"}
        /\ \E pc \in {"evict", "evicted", "drop"} :
             att' = [att EXCEPT ![t] = [a EXCEPT !.pc = pc]]
    BY <1>3 DEF Validate, EvictMeta, EvictFile, Goto, At
  <2>2. \A pc \in {"evict", "evicted", "drop"} :
          LET r == [a EXCEPT !.pc = pc] IN r \in Attempt /\ AttemptOK(r)
    BY <1>1, <2>1 DEF Attempt, AttemptOK, Pc
  <2>3. DiskOK'
    BY <1>1, <1>3 DEF Validate, EvictMeta, EvictFile, DiskOK, disk
  <2>4. QED
    BY <2>1, <2>2, <2>3 DEF Moves
<1>4. CASE DropFile(t)
  <2> DEFINE r == [a EXCEPT !.pc = "dropping"]
  <2>1. a.pc = "drop" /\ a.status = "Failed" /\ att' = [att EXCEPT ![t] = r]
    BY <1>4 DEF DropFile, Goto, At, LeavesNothing
  <2>2. r \in Attempt /\ AttemptOK(r)
    BY <1>1, <2>1 DEF Attempt, AttemptOK, Pc
  <2>3. QED
    BY <1>1, <1>4, <2>1, <2>2 DEF DropFile, Moves, DiskOK
<1>5. QED
  BY <1>2, <1>3, <1>4 DEF Ending

(* The types hold of every step. *)
LEMMA CacheStep ==
  ASSUME CacheInv, [Next]_vars
  PROVE  CacheInv'
<1>1. DiskOK /\ Content \in Bytes(MaxBody)
  BY ContentFact DEF CacheInv, TypeOK, DiskOK
<1>2. ASSUME NEW t \in Transfers, Transfer(t)
      PROVE  CacheInv'
  <2>1. Moves(t) /\ DiskOK'
    BY <1>2, OpeningTyped, ReadingTyped, EndingTyped DEF Transfer
  <2>2. /\ ready' \in BOOLEAN /\ landing' = landing /\ evicting' = evicting
        /\ installed' = installed /\ disturbed' = disturbed
    <3>1. CASE Opening(t)
      BY <3>1 DEF Opening, Begin, ServeCached, MissCache, OpenCached, OpenResume, PurgeMeta,
                  PurgeFile, CreateFile, CreateFails, StopOpened, HashPrefix, apply,
                  CacheInv, TypeOK
    <3>2. CASE Reading(t)
      BY <3>2 DEF Reading, Reread, ObserveCancel, ObservePause, RequestAccepted,
                  RequestRefused, RequestFails, ReadBytes, ReadFails, EndOfBody, Unlink,
                  Unmeta, apply, CacheInv, TypeOK
    <3>3. CASE Ending(t)
      BY <3>3 DEF Ending, Validate, EvictMeta, EvictFile, DropKeeps, DropFile, DropMeta,
                  apply, CacheInv, TypeOK
    <3>4. QED
      BY <1>2, <3>1, <3>2, <3>3 DEF Transfer
  <2>3. att' \in [Transfers -> Attempt] /\ AttemptInv'
    BY <2>1, MovesFact
  <2>4. QED
    BY <2>1, <2>2, <2>3 DEF CacheInv, TypeOK, DiskOK
<1>3. CASE AnotherLands
  <2> DEFINE free == CHOOSE i \in Inodes : i # path
  <2>1. free \in Inodes
    BY TwoInodes
  <2>2. /\ path' = free /\ inode' = [i \in Inodes |-> IF i = free THEN Artifact ELSE <<>>]
        /\ meta' = [size |-> Size, written |-> Size] /\ ready' = TRUE
        /\ UNCHANGED <<att, landing, evicting, installed, disturbed>>
    BY <1>3 DEF AnotherLands
  <2>3. Size \in 0..MaxBody
    BY SizesAssumption
  <2> HIDE DEF free
  <2>4. DiskOK'
    BY <2>1, <2>2, <2>3, ArtifactFact DEF DiskOK
  <2>5. QED
    BY <2>2, <2>4 DEF CacheInv, TypeOK, DiskOK, AttemptInv
<1>4. CASE Apply
  BY <1>1, <1>4 DEF Apply, Copy, Place, Quarantine, QuarantineFile, disk, CacheInv, TypeOK,
                    AttemptInv
<1>5. CASE Crash
  <2>1. att' = [t \in Transfers |-> Idle] /\ meta' \in {meta, NoMeta}
    BY <1>5 DEF Crash
  <2>2. att' \in [Transfers -> Attempt] /\ AttemptInv'
    BY <2>1, IdleFact DEF AttemptInv
  <2>3. QED
    BY <1>5, <2>1, <2>2 DEF Crash, CacheInv, TypeOK
<1>6. CASE Settle \/ UNCHANGED vars
  BY <1>6 DEF Settle, vars, disk, apply, CacheInv, TypeOK, AttemptInv
<1>7. QED
  BY <1>2, <1>3, <1>4, <1>5, <1>6 DEF Next

LEMMA CacheInit ==
  ASSUME Init
  PROVE  CacheInv
<1>1. TypeOK
  BY IdleFact, ArtifactFact, CacheFaultsAssumption DEF Init, TypeOK
<1>2. AttemptInv
  BY IdleFact DEF Init, AttemptInv
<1>3. QED
  BY <1>1, <1>2 DEF CacheInv

(* Every variable keeps its type, for any number of transfers of one       *)
(* digest: a sidecar that can be read states both lengths.                 *)
THEOREM CacheTypesHold == Spec => []TypeOK
<1>1. Init => CacheInv
  BY CacheInit
<1>2. CacheInv /\ [Next]_vars => CacheInv'
  BY CacheStep
<1>3. CacheInv => TypeOK
  BY DEF CacheInv
<1>4. QED
  BY <1>1, <1>2, <1>3, PTL DEF Spec

-----------------------------------------------------------------------------
(* One transfer at a time: what it streams, and what it leaves. *)

(* The invariants of a lone transfer t, of its attempt. *)
StreamOK(a) ==
  /\ a.pc = "opened" /\ a.kind # "cached" =>
       Len(inode[a.handle]) = a.offset /\ path \in {a.handle, NoFile}
  /\ a.pc \in {"opened", "poll"} /\ a.kind = "fresh" => a.offset = 0
  /\ a.pc = "poll" => a.hash = inode[a.handle]

SidecarOK(a) ==
  a.pc \in {"opened", "poll"} /\ a.kind = "resumed" /\ a.written = 0
    /\ path = a.handle /\ ~evicting
    => meta = [size |-> a.size, written |-> a.offset]

PausedOK(a) ==
  a.pc = "drop" /\ a.status = "Paused" /\ 0 < Total(a) /\ Total(a) < a.size
    /\ path = a.handle /\ ~evicting
    => Resumable /\ meta.written = Total(a)

Alone(a) == StreamOK(a) /\ SidecarOK(a) /\ PausedOK(a)

(* A step that opens, and one of the transfer that has it open. *)
LEMMA OpeningAlone ==
  ASSUME CacheInv, CacheInv', NEW t \in Transfers, Alone(att[t]), Opening(t)
  PROVE  Alone(att[t])'
<1> DEFINE a == att[t]
<1>1. /\ a \in Attempt /\ AttemptOK(a) /\ DiskOK /\ att \in [Transfers -> Attempt]
  BY DEF CacheInv, TypeOK, AttemptInv, DiskOK
<1>2. a.pc \in {"check", "prepare", "purge", "probe"} => a = [Idle EXCEPT !.pc = a.pc]
  BY <1>1 DEF AttemptOK
<1>3. CASE ~(OpenCached(t) \/ OpenResume(t) \/ CreateFile(t) \/ HashPrefix(t))
  <2>1. att'[t].pc \in {"idle", "check", "prepare", "purge", "probe"}
    <3>1. CASE Begin(t) \/ ServeCached(t) \/ CreateFails(t) \/ StopOpened(t)
      BY <1>1, <3>1 DEF Begin, ServeCached, CreateFails, StopOpened, Become, Idle
    <3>2. CASE MissCache(t) \/ PurgeMeta(t) \/ PurgeFile(t)
      BY <1>1, <3>2 DEF MissCache, PurgeMeta, PurgeFile, Goto, Attempt
    <3>3. QED
      BY <1>3, <3>1, <3>2 DEF Opening
  <2>2. QED
    BY <2>1 DEF Alone, StreamOK, SidecarOK, PausedOK
<1>4. CASE OpenCached(t)
  <2>1. att'[t].pc = "opened" /\ att'[t].kind = "cached"
    BY <1>1, <1>4 DEF OpenCached, Become, Opened, Attempt
  <2>2. QED
    BY <2>1 DEF Alone, StreamOK, SidecarOK, PausedOK
<1>5. CASE OpenResume(t)
  <2> DEFINE r == Opened(t, "resumed", meta.written, meta.size)
  <2>1. /\ att'[t] = r /\ r.pc = "opened" /\ r.kind = "resumed" /\ r.handle = path
        /\ r.offset = meta.written /\ r.size = meta.size
    BY <1>1, <1>5 DEF OpenResume, Become, Opened, Attempt
  <2>2. /\ Resumable /\ path' = path /\ inode' = inode /\ meta' = meta /\ path # NoFile
    BY <1>5 DEF OpenResume, disk, Resumable
  <2>3. Len(inode[path]) = meta.written
    BY <2>2 DEF Resumable, Content
  <2>4. meta = [size |-> meta.size, written |-> meta.written]
    BY <1>1 DEF DiskOK, NoMeta
  <2> HIDE DEF r
  <2>5. QED
    BY <2>1, <2>2, <2>3, <2>4 DEF Alone, StreamOK, SidecarOK, PausedOK
<1>6. CASE CreateFile(t)
  <2>1. PICK size \in Announced :
          att' = [att EXCEPT ![t] = [a EXCEPT !.pc = "opened", !.handle = path', !.size = size]]
    BY <1>6 DEF CreateFile, Become
  <2>2. /\ att'[t].pc = "opened" /\ att'[t].kind = "fresh" /\ att'[t].handle = path'
        /\ att'[t].offset = 0
    BY <1>1, <1>2, <1>6, <2>1 DEF CreateFile, At, Idle, Attempt
  <2>3. inode' = [inode EXCEPT ![path'] = <<>>] /\ path' \in Inodes
    <3>1. path' \in Inodes
      BY <1>1, <1>6, UnusedFact DEF CreateFile, DiskOK
    <3>2. QED
      BY <1>6, <3>1 DEF CreateFile
  <2>4. Len(inode'[path']) = 0
    BY <1>1, <2>3 DEF DiskOK
  <2>5. QED
    BY <2>2, <2>4 DEF Alone, StreamOK, SidecarOK, PausedOK
<1>7. CASE HashPrefix(t)
  <2>1. a.pc = "opened" /\ UNCHANGED <<path, inode, meta, evicting>>
    BY <1>7 DEF HashPrefix, At, disk, apply
  <2>2. CASE a.offset > Len(Content)
    <3>1. att'[t].pc = "evict"
      BY <1>1, <1>7, <2>2 DEF HashPrefix, Become, Attempt
    <3>2. QED
      BY <3>1 DEF Alone, StreamOK, SidecarOK, PausedOK
  <2>3. CASE ~(a.offset > Len(Content)) /\ a.kind = "cached"
    <3>1. att' = [att EXCEPT ![t] = [a EXCEPT !.pc = "reread",
                                             !.hash = SubSeq(Content, 1, a.offset)]]
      BY <1>7, <2>3 DEF HashPrefix, Become
    <3>2. att'[t] = [a EXCEPT !.pc = "reread", !.hash = SubSeq(Content, 1, a.offset)]
      BY <1>1, <3>1
    <3>3. att'[t].pc = "reread"
      BY <1>1, <3>2 DEF Attempt
    <3>4. QED
      BY <3>3 DEF Alone, StreamOK, SidecarOK, PausedOK
  <2>4. CASE ~(a.offset > Len(Content)) /\ a.kind # "cached"
    <3> DEFINE prefix == SubSeq(Content, 1, a.offset)
               r == [a EXCEPT !.pc = "poll", !.hash = prefix]
    <3>1. /\ att'[t] = r /\ r.pc = "poll" /\ r.hash = prefix /\ r.handle = a.handle
          /\ r.offset = a.offset /\ r.size = a.size /\ r.written = a.written /\ r.kind = a.kind
      BY <1>1, <1>7, <2>4 DEF HashPrefix, Become, Attempt
    <3>2. prefix = inode[a.handle]
      <4>1. /\ Len(inode[a.handle]) = a.offset /\ path \in {a.handle, NoFile}
            /\ a.handle \in Inodes /\ a.offset \in Nat
        BY <1>1, <2>1, <2>4 DEF Alone, StreamOK, AttemptOK, Attempt
      <4>2. inode[a.handle] \in Seq(BOOLEAN)
        BY <1>1, <4>1, BytesFact, SizesAssumption DEF DiskOK
      <4>3. CASE path = a.handle /\ path # NoFile
        BY <4>1, <4>2, <4>3 DEF Content
      <4>4. CASE path = NoFile
        <5>1. Content = <<>> /\ a.offset = 0
          BY <2>4, <4>1, <4>4 DEF Content
        <5>2. prefix = <<>> /\ inode[a.handle] = <<>>
          BY <4>1, <4>2, <5>1
        <5>3. QED
          BY <5>2
      <4>5. QED
        BY <4>1, <4>3, <4>4
    <3> HIDE DEF r, prefix
    <3>3. QED
      BY <2>1, <2>4, <3>1, <3>2 DEF Alone, StreamOK, SidecarOK, PausedOK
  <2>5. QED
    BY <2>2, <2>3, <2>4
<1>8. QED
  BY <1>3, <1>4, <1>5, <1>6, <1>7

LEMMA ReadingAlone ==
  ASSUME CacheInv, CacheInv', NEW t \in Transfers, Alone(att[t]), Reading(t)
  PROVE  Alone(att[t])'
<1> DEFINE a == att[t]
<1>1. /\ a \in Attempt /\ AttemptOK(a) /\ DiskOK /\ att \in [Transfers -> Attempt]
  BY DEF CacheInv, TypeOK, AttemptInv, DiskOK
<1>2. a.pc = "poll" =>
        /\ a.handle \in Inodes /\ a.hash = inode[a.handle] /\ Len(a.hash) = Total(a)
        /\ inode[a.handle] \in Bytes(MaxBody) /\ inode[a.handle] \in Seq(BOOLEAN)
        /\ a.kind \in {"fresh", "resumed"} /\ a.offset \in Nat /\ a.written \in Nat
        /\ a.kind = "fresh" => a.offset = 0
  <2>1. a.pc = "poll" =>
          /\ a.handle \in Inodes /\ a.hash = inode[a.handle] /\ Len(a.hash) = Total(a)
          /\ a.kind \in {"fresh", "resumed"} /\ a.offset \in Nat /\ a.written \in Nat
          /\ a.kind = "fresh" => a.offset = 0
    BY <1>1, SizesAssumption DEF Alone, StreamOK, AttemptOK, Attempt
  <2>2. QED
    BY <1>1, <2>1, BytesFact, SizesAssumption DEF DiskOK
<1>3. CASE ~(ObservePause(t) \/ RequestAccepted(t) \/ ReadBytes(t))
  <2>1. /\ att'[t].pc \in {"validate", "unlink", "unmeta", "evict", "drop"}
        /\ att'[t].status # "Paused"
    <3>1. CASE Reread(t)
      <4>1. att'[t] = [a EXCEPT !.pc = "validate", !.hash = @ \o inode[a.handle]]
        BY <1>1, <3>1 DEF Reread, Become
      <4>2. QED
        BY <1>1, <3>1, <4>1 DEF Reread, At, Attempt, AttemptOK
    <3>2. CASE ObserveCancel(t) \/ RequestRefused(t) \/ RequestFails(t) \/ ReadFails(t)
      <4>1. PICK pc \in {"unlink", "drop"}, status \in {"Cancelled", "Failed"} :
              att' = [att EXCEPT ![t] = [a EXCEPT !.pc = pc, !.status = status]]
        BY <3>2 DEF ObserveCancel, RequestRefused, RequestFails, ReadFails, Fails, Become
      <4>2. att'[t] = [a EXCEPT !.pc = pc, !.status = status]
        BY <1>1, <4>1
      <4>3. att'[t].pc = pc /\ att'[t].status = status
        BY <1>1, <4>2 DEF Attempt
      <4>4. QED
        BY <4>3
    <3>3. CASE EndOfBody(t)
      BY <1>1, <3>3 DEF EndOfBody, Become, Attempt
    <3>4. CASE Unlink(t) \/ Unmeta(t)
      BY <1>1, <3>4 DEF Unlink, Unmeta, Goto, At, Attempt, AttemptOK
    <3>5. QED
      BY <1>3, <3>1, <3>2, <3>3, <3>4 DEF Reading
  <2>2. QED
    BY <2>1 DEF Alone, StreamOK, SidecarOK, PausedOK
<1>4. CASE RequestAccepted(t)
  <2>1. /\ a.pc = "poll" /\ att'[t] = [a EXCEPT !.started = TRUE]
        /\ UNCHANGED <<path, inode, meta, evicting>>
    BY <1>1, <1>4 DEF RequestAccepted, At, Become, disk, apply
  <2>2. QED
    BY <1>1, <2>1 DEF Alone, StreamOK, SidecarOK, PausedOK, Attempt
<1>5. CASE ReadBytes(t)
  <2>1. PICK byte \in Sent(a) :
          /\ inode' = [inode EXCEPT ![a.handle] = Written(a, byte)]
          /\ Become(t, [a EXCEPT !.written = @ + 1, !.hash = Append(@, byte)])
    BY <1>5 DEF ReadBytes
  <2>2. /\ byte \in BOOLEAN /\ a.pc = "poll" /\ Total(a) < MaxBody
        /\ Len(inode[a.handle]) < MaxBody
    BY <1>5, <2>1 DEF ReadBytes, At, Sent
  <2>3. Written(a, byte) = Append(inode[a.handle], byte)
    <3>1. /\ a.written < MaxBody
          /\ a.kind = "resumed" \/ a.written = Len(inode[a.handle])
      BY <1>2, <2>2, SizesAssumption DEF Total
    <3>2. QED
      BY <1>2, <2>2, <3>1, WrittenFact
  <2> DEFINE r == [a EXCEPT !.written = @ + 1, !.hash = Append(@, byte)]
  <2>4. att'[t] = r
    BY <1>1, <2>1 DEF Become
  <2>5. /\ r.hash = Append(a.hash, byte) /\ r.pc = "poll" /\ r.handle = a.handle
        /\ r.written = a.written + 1 /\ r.kind = a.kind /\ r.offset = a.offset
    BY <1>1, <2>2 DEF Attempt
  <2>6. inode'[a.handle] = Append(inode[a.handle], byte)
    BY <1>1, <1>2, <2>1, <2>2, <2>3 DEF DiskOK
  <2>7. a.written + 1 # 0
    BY <1>2, <2>2
  <2> HIDE DEF r
  <2>8. QED
    BY <1>2, <2>2, <2>4, <2>5, <2>6, <2>7 DEF Alone, StreamOK, SidecarOK, PausedOK
<1>6. CASE ObservePause(t)
  <2> DEFINE r == [a EXCEPT !.pc = "drop", !.status = "Paused"]
  <2>1. /\ a.pc = "poll" /\ att'[t] = r /\ meta' = SavedMeta(a)
        /\ UNCHANGED <<path, inode, evicting>>
    BY <1>1, <1>6 DEF ObservePause, At, Become, apply
  <2>2. /\ r.pc = "drop" /\ r.handle = a.handle /\ r.size = a.size /\ Total(r) = Total(a)
    BY <1>1 DEF Attempt, Total
  <2>3. ASSUME 0 < Total(a), Total(a) < a.size, path = a.handle, ~evicting
        PROVE  Resumable' /\ meta'.written = Total(a)
    <3>1. /\ path # NoFile /\ Len(inode[path]) = Total(a) /\ a.size # NoSize
          /\ Total(a) \in Nat
      BY <1>2, <2>1, <2>3, ArtifactFact DEF NoSize, Total
    <3>2. meta' = [size |-> a.size, written |-> Total(a)]
      <4>1. CASE a.written = 0
        <5>1. a.kind = "resumed" /\ Total(a) = a.offset
          BY <1>2, <2>1, <2>3, <4>1 DEF Total
        <5>2. QED
          BY <2>1, <2>3, <4>1, <5>1 DEF Alone, SidecarOK, SavedMeta
      <4>2. CASE a.written # 0
        BY <2>1, <3>1, <4>2 DEF SavedMeta
      <4>3. QED
        BY <4>1, <4>2
    <3>3. meta' # NoMeta
      BY <3>1, <3>2 DEF NoMeta
    <3>4. QED
      BY <2>1, <2>3, <3>1, <3>2, <3>3 DEF Resumable, Content
  <2> HIDE DEF r
  <2>4. QED
    BY <2>1, <2>2, <2>3 DEF Alone, StreamOK, SidecarOK, PausedOK
<1>7. QED
  BY <1>3, <1>4, <1>5, <1>6

LEMMA EndingAlone ==
  ASSUME CacheInv, CacheInv', NEW t \in Transfers, Alone(att[t]), Ending(t)
  PROVE  Alone(att[t])'
<1> DEFINE a == att[t]
<1>1. /\ a \in Attempt /\ AttemptOK(a) /\ att \in [Transfers -> Attempt]
  BY DEF CacheInv, TypeOK, AttemptInv
<1>2. /\ att'[t].pc \in {"idle", "evict", "evicted", "drop", "dropping"}
      /\ att'[t].pc = "drop" => att'[t].status # "Paused"
  <2>1. CASE DropKeeps(t) \/ DropMeta(t)
    BY <1>1, <2>1 DEF DropKeeps, DropMeta, Become, Idle
  <2>2. CASE Validate(t) \/ EvictMeta(t) \/ EvictFile(t) \/ DropFile(t)
    BY <1>1, <2>2 DEF Validate, EvictMeta, EvictFile, DropFile, Goto, At, Attempt, AttemptOK
  <2>3. QED
    BY <2>1, <2>2 DEF Ending
<1>3. QED
  BY <1>2 DEF Alone, StreamOK, SidecarOK, PausedOK

(* What else may happen while a lone transfer has the entry open. *)
LEMMA AroundAlone ==
  ASSUME CacheInv, NEW t \in Transfers, Alone(att[t]),
         AnotherLands \/ Apply \/ Crash \/ Settle \/ UNCHANGED vars
  PROVE  Alone(att[t])'
<1>1. AttemptOK(att[t])
  BY DEF CacheInv, AttemptInv
<1>2. CASE AnotherLands
  <2>1. att' = att /\ att[t].pc \in {"prepare", "purge", "probe"}
    BY <1>2 DEF AnotherLands
  <2>2. QED
    BY <2>1 DEF Alone, StreamOK, SidecarOK, PausedOK
<1>3. CASE Crash
  <2>1. att'[t].pc = "idle"
    BY <1>3 DEF Crash, Idle
  <2>2. QED
    BY <2>1 DEF Alone, StreamOK, SidecarOK, PausedOK
<1>4. CASE Copy \/ Place \/ Settle \/ UNCHANGED vars
  <2>1. UNCHANGED <<path, inode, meta, att, evicting>>
    BY <1>4 DEF Copy, Place, Settle, vars, disk, apply
  <2>2. QED
    BY <2>1 DEF Alone, StreamOK, SidecarOK, PausedOK, Resumable, Content
<1>5. CASE Quarantine
  <2>1. UNCHANGED <<path, inode, att>> /\ evicting'
    BY <1>5 DEF Quarantine
  <2>2. QED
    BY <2>1 DEF Alone, StreamOK, SidecarOK, PausedOK
<1>6. CASE QuarantineFile
  <2>1. UNCHANGED <<inode, meta, att>> /\ path' = NoFile
    BY <1>6 DEF QuarantineFile
  <2>2. att[t].pc \in {"opened", "poll"} \/ att[t].status = "Paused" => att[t].handle # NoFile
    BY <1>1, ArtifactFact DEF AttemptOK
  <2>3. QED
    BY <2>1, <2>2 DEF Alone, StreamOK, SidecarOK, PausedOK
<1>7. QED
  BY <1>2, <1>3, <1>4, <1>5, <1>6 DEF Apply

LEMMA AloneHolds ==
  ASSUME NEW t, Transfers = {t}
  PROVE  Spec => [](CacheInv /\ Alone(att[t]))
<1>1. Init => CacheInv /\ Alone(att[t])
  <2> SUFFICES ASSUME Init
               PROVE  CacheInv /\ Alone(att[t])
    OBVIOUS
  <2>1. att[t].pc = "idle"
    BY DEF Init, Idle
  <2>2. QED
    BY <2>1, CacheInit DEF Alone, StreamOK, SidecarOK, PausedOK
<1>2. ASSUME CacheInv /\ Alone(att[t]), [Next]_vars
      PROVE  (CacheInv /\ Alone(att[t]))'
  <2>1. CacheInv'
    BY <1>2, CacheStep
  <2>2. CASE Transfer(t)
    BY <1>2, <2>1, <2>2, OpeningAlone, ReadingAlone, EndingAlone DEF Transfer
  <2>3. CASE AnotherLands \/ Apply \/ Crash \/ Settle \/ UNCHANGED vars
    <3>1. t \in Transfers /\ CacheInv /\ Alone(att[t])
      BY <1>2
    <3>2. Alone(att[t])'
      BY <2>3, <3>1, AroundAlone
    <3>3. QED
      BY <2>1, <3>2
  <2>4. QED
    BY <1>2, <2>1, <2>2, <2>3 DEF Next
<1>3. QED
  BY <1>1, <1>2, PTL DEF Spec

(* The in-flight digest covers the whole file, over any number of pauses,  *)
(* crashes and resumes, as long as one transfer at a time fills the entry. *)
THEOREM HashCoversFileHolds ==
  ASSUME NEW t, Transfers = {t}
  PROVE  Spec => []HashCoversFile
<1>1. CacheInv /\ Alone(att[t]) => HashCoversFile
  BY DEF Alone, StreamOK, HashCoversFile, At
<1>2. QED
  BY <1>1, AloneHolds, PTL

(* A pause leaves the partial file resumable, with all that was received,  *)
(* as long as one transfer at a time fills the entry.                      *)
THEOREM PausedIsResumableHolds ==
  ASSUME NEW t, Transfers = {t}
  PROVE  Spec => []PausedIsResumable
<1>1. CacheInv /\ Alone(att[t]) => PausedIsResumable
  BY DEF Alone, PausedOK, PausedIsResumable, At
<1>2. QED
  BY <1>1, AloneHolds, PTL

=============================================================================
