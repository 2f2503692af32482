----------------------------- MODULE CatalogProofs ------------------------------
(***************************************************************************)
(* Theorems about Catalog, for every set of generations, every schedule    *)
(* and every bound: what the player holds is what the catalog says is      *)
(* loaded, a song plays on the set it started with, what is loaded and     *)
(* what it falls back to can be loaded again, and a boot tries every       *)
(* generation it found.                                                    *)
(*                                                                         *)
(* The invariant has a part for each: LoopInv ties the worker's program    *)
(* counter to the player's set, LogInv the record to the install root, and *)
(* QueueInv the boot queue to what is left to try.  StrayInv is what       *)
(* carries LogInv through a collection: of a payload tree whose generation *)
(* is gone, nothing is on its way to be activated.                         *)
(***************************************************************************)
EXTENDS Catalog, SequenceTheorems, WellFoundedInduction, TLAPS

GenOrNone == Generations \cup {NoGen}
Log       == [active : GenOrNone, previous : GenOrNone]
CatalogType ==
  [booted : BOOLEAN, bootQueue : Seq(Generations), pending : GenOrNone, loaded : GenOrNone,
   log : Log]
WorkerType  == [pc : WorkerPc, gen : GenOrNone, mounting : BOOLEAN]
BackendType == [live : BOOLEAN, set : [of : GenOrNone, whole : BOOLEAN]]
JobType     == [pc : JobPc, plan : GenOrNone, installed : GenOrNone]
StatusType  ==
  [phase : {"Idle", "Checking", "Applying"}, available : GenOrNone, installed : GenOrNone,
   applying : GenOrNone]

(* The updater's variables, and the catalog's. *)
UpdaterTypes ==
  /\ channel \in [newest : Generations, releases : Nat]
  /\ root \in Seq(Generations) /\ offered \in Seq(Generations)
  /\ status \in StatusType /\ job \in JobType
  /\ faults \in Nat

CatalogTypes ==
  /\ catalog \in CatalogType /\ record \in Log
  /\ payloads \subseteq Generations
  /\ worker \in WorkerType /\ backend \in BackendType
  /\ restarts \in Nat

(* The updater's thread has a plan from the end of a check to the offer,   *)
(* what waits to be taken was offered by this process, and the phase is    *)
(* settled with the thread.                                                *)
JobInv ==
  /\ job.pc \in {"conclude", "resolve", "claim", "publish", "release", "offer"}
       => job.plan \in Generations
  /\ Range(offered) \subseteq seen
  /\ status.phase = "Idle" <=> job.pc = "idle"

(* A song is mounted only between a mount and the next activation, and the *)
(* worker's place says what of the catalog is in flight.                   *)
LoopInv ==
  /\ backend.live => worker.pc \in {"command", "open", "tick", "take"}
  /\ LoadedIsResident
  /\ worker.pc \notin {"command", "tick"} => catalog.booted
  /\ worker.pc = "activate" => catalog.pending # NoGen
  /\ worker.pc \in {"swap", "recover"} => catalog.pending = NoGen
  /\ worker.pc = "swap" => worker.gen # NoGen /\ worker.gen \in payloads \ Broken
  /\ worker.pc \in {"collect", "trees"} =>
       catalog.loaded = worker.gen /\ catalog.log.active = worker.gen /\ worker.gen # NoGen

(* What is loaded loads, and needs no candidates; while some wait in the   *)
(* queue, one of them is pending.                                          *)
CandidateInv ==
  /\ catalog.loaded \notin Broken \cup Unloadable
  /\ catalog.loaded # NoGen => catalog.booted /\ catalog.bootQueue = <<>>
  /\ catalog.booted /\ catalog.pending = NoGen /\ worker.pc \notin {"swap", "recover"}
       => catalog.bootQueue = <<>>

(* What the updater is about to offer, and what the worker has taken up.   *)
Offering == IF job.pc \in {"release", "offer"} THEN {job.plan} ELSE {}
Swapping == IF worker.pc = "swap" THEN {worker.gen} ELSE {}

(* What is on its way to be activated. *)
Coming ==
  Range(offered) \cup Offering \cup Range(catalog.bootQueue) \cup {catalog.pending}
    \cup Swapping

(* A payload tree may outlive its generation, when the process ends in the *)
(* middle of a collection; it is then not that of a generation on its way. *)
StrayInv ==
  \A g \in payloads \ InRoot :
    worker.pc # "trees" \/ g \in Live => g \notin Coming

(* The two generations of a record are different ones, and on disk, the    *)
(* one before it as long as no write was lost; so is what is loaded.       *)
LogInv ==
  /\ catalog.loaded # NoGen => catalog.loaded \in InRoot \cap payloads
  /\ \A log \in {catalog.log, record} : log.previous # NoGen => log.previous # log.active
  /\ faults = 0 => /\ record = catalog.log
                   /\ {record.active, record.previous} \subseteq InRoot \cup {NoGen}

(* Until something is published and offered, what the root holds that      *)
(* loads is loaded, waiting, or being activated.                           *)
QueueInv ==
  catalog.booted /\ catalog.loaded = NoGen /\ seen = {} /\ faults = 0
  => InRoot \ Offering \subseteq
       Broken \cup Unloadable \cup Range(catalog.bootQueue) \cup {catalog.pending} \cup Swapping

CatalogInv ==
  UpdaterTypes /\ CatalogTypes /\ JobInv /\ LoopInv /\ CandidateInv /\ StrayInv /\ LogInv
  /\ QueueInv

-----------------------------------------------------------------------------
(* Lemmas about sequences. *)

(* Every set of natural numbers that is not empty has a least element: the  *)
(* induction that the lemmas about Kept rest on.                           *)
LEMMA NatMin ==
  ASSUME NEW T \in SUBSET Nat, T # {}
  PROVE  \E n \in T : \A m \in T : n <= m
<1> DEFINE R == OpToRel(<, Nat)
<1>1. IsWellFoundedOn(R, Nat)
  BY NatLessThanWellFounded
<1>2. \A x, y \in Nat : x < y => <<x, y>> \in R
  BY Zenon DEF OpToRel
<1> HIDE DEF R
<1>3. PICK x \in T : \A y \in T : ~ (<<y, x>> \in R)
  BY <1>1, WFMin, Zenon
<1>4. \A y \in T : ~ (y < x)
  BY <1>2, <1>3
<1>5. QED
  BY <1>4

(* A set that holds 0, and the successor of each number it holds, holds    *)
(* every number.                                                           *)
LEMMA NatClosed ==
  ASSUME NEW S, 0 \in S, \A n \in Nat : n \in S => n + 1 \in S
  PROVE  Nat \subseteq S
<1> SUFFICES ASSUME Nat \ S # {} PROVE FALSE
  OBVIOUS
<1>1. PICK n \in Nat \ S : \A m \in Nat \ S : n <= m
  BY NatMin
<1>2. n - 1 \in Nat /\ n - 1 \in S
  BY <1>1
<1>3. QED
  BY <1>1, <1>2

(* The recursion that Kept is defined by has a solution. *)
LEMMA KeptRecursion ==
  ASSUME NEW T, NEW seq \in Seq(T), NEW set
  PROVE  \E kept :
           /\ Kept(seq, set) = kept[Len(seq)] /\ kept[0] = <<>>
           /\ \A i \in 1..Len(seq) :
                kept[i] = IF seq[i] \in set THEN Append(kept[i - 1], seq[i]) ELSE kept[i - 1]
<1> DEFINE Step(f, i) == IF i = 0 THEN <<>>
                         ELSE IF seq[i] \in set THEN Append(f[i - 1], seq[i]) ELSE f[i - 1]
           Good(n, f) == f = [i \in 0..n |-> Step(f, i)]
           S == {n \in Nat : \E f : Good(n, f)}
<1>1. 0 \in S
  <2>1. Good(0, [i \in 0..0 |-> <<>>])
    OBVIOUS
  <2>2. QED
    BY <2>1
<1>2. ASSUME NEW n \in Nat, n \in S
      PROVE  n + 1 \in S
  <2>1. PICK f : Good(n, f)
    BY <1>2
  <2> DEFINE g == [i \in 0..(n + 1) |-> IF i = n + 1 THEN Step(f, i) ELSE f[i]]
  <2>2. ASSUME NEW i \in 0..(n + 1)
        PROVE  g[i] = Step(f, i)
    <3> HIDE DEF Step
    <3>1. CASE i = n + 1
      BY <3>1
    <3>2. CASE i # n + 1
      <4>1. i \in 0..n
        BY <3>2
      <4>2. g[i] = f[i] /\ f[i] = Step(f, i)
        BY <2>1, <3>2, <4>1
      <4>3. QED
        BY <4>2
    <3>3. QED
      BY <3>1, <3>2
  <2>3. ASSUME NEW i \in 0..(n + 1), i # 0
        PROVE  g[i - 1] = f[i - 1]
    BY <2>3
  <2>4. \A i \in 0..(n + 1) : g[i] = Step(g, i)
    <3> HIDE DEF g
    <3>1. QED
      BY <2>2, <2>3
  <2> HIDE DEF Step
  <2>5. Good(n + 1, g)
    BY <2>4
  <2> HIDE DEF Good, g
  <2>6. QED
    BY <2>5
<1>3. Len(seq) \in Nat
  OBVIOUS
<1>4. Len(seq) \in S
  <2> HIDE DEF S
  <2>1. QED
    BY <1>1, <1>2, <1>3, NatClosed
<1> DEFINE kept == CHOOSE f : Good(Len(seq), f)
<1>5. Good(Len(seq), kept)
  <2> HIDE DEF Good
  <2>1. QED
    BY <1>4
<1>6. Kept(seq, set) = kept[Len(seq)]
  BY DEF Kept
<1> HIDE DEF kept
<1>7. \A i \in 0..Len(seq) : kept[i] = Step(kept, i)
  BY <1>5
<1>8. kept[0] = <<>>
  BY <1>3, <1>7
<1>9. \A i \in 1..Len(seq) :
        kept[i] = IF seq[i] \in set THEN Append(kept[i - 1], seq[i]) ELSE kept[i - 1]
  BY <1>3, <1>7
<1>10. QED
  BY <1>6, <1>8, <1>9

(* What an appended sequence holds. *)
LEMMA AppendHolds ==
  ASSUME NEW T, NEW seq \in Seq(T), NEW e \in T
  PROVE  /\ Append(seq, e) \in Seq(T)
         /\ \A x : (\E k \in 1..Len(Append(seq, e)) : Append(seq, e)[k] = x)
                     <=> (x = e \/ \E k \in 1..Len(seq) : seq[k] = x)
<1> DEFINE longer == Append(seq, e)
<1>1. /\ longer \in Seq(T) /\ Len(longer) = Len(seq) + 1 /\ longer[Len(seq) + 1] = e
      /\ \A k \in 1..Len(seq) : longer[k] = seq[k]
  BY AppendProperties
<1>2. Len(seq) \in Nat
  OBVIOUS
<1> HIDE DEF longer
<1>3. ASSUME NEW x, NEW k \in 1..Len(longer), longer[k] = x
      PROVE  x = e \/ \E j \in 1..Len(seq) : seq[j] = x
  BY <1>1, <1>2, <1>3
<1>4. ASSUME NEW x, x = e \/ \E j \in 1..Len(seq) : seq[j] = x
      PROVE  \E k \in 1..Len(longer) : longer[k] = x
  BY <1>1, <1>2, <1>4
<1>5. QED
  BY <1>1, <1>3, <1>4 DEF longer

(* Kept keeps the elements that are in the set. *)
LEMMA KeptFact ==
  ASSUME NEW T, NEW seq \in Seq(T), NEW set
  PROVE  /\ Kept(seq, set) \in Seq(T)
         /\ Range(Kept(seq, set)) = Range(seq) \cap set
<1>1. PICK kept :
        /\ Kept(seq, set) = kept[Len(seq)] /\ kept[0] = <<>>
        /\ \A i \in 1..Len(seq) :
             kept[i] = IF seq[i] \in set THEN Append(kept[i - 1], seq[i]) ELSE kept[i - 1]
  BY KeptRecursion
<1>2. Len(seq) \in Nat /\ \A i \in 1..Len(seq) : seq[i] \in T
  OBVIOUS
<1> DEFINE KeptTo(i) ==
      /\ kept[i] \in Seq(T)
      /\ \A x : (\E k \in 1..Len(kept[i]) : kept[i][k] = x)
                  <=> (x \in set /\ \E k \in 1..i : seq[k] = x)
      H == {i \in Nat : i <= Len(seq) => KeptTo(i)}
<1>3. 0 \in H
  <2>1. /\ kept[0] \in Seq(T) /\ Len(kept[0]) = 0
    BY <1>1
  <2>2. KeptTo(0)
    BY <2>1
  <2>3. QED
    BY <2>2
<1>4. ASSUME NEW n \in Nat, n \in H
      PROVE  n + 1 \in H
  <2> SUFFICES ASSUME n + 1 <= Len(seq)
               PROVE  KeptTo(n + 1)
    OBVIOUS
  <2>1. n + 1 \in 1..Len(seq) /\ n <= Len(seq) /\ (n + 1) - 1 = n
    BY <1>2
  <2>2. KeptTo(n)
    <3> HIDE DEF KeptTo
    <3>1. QED
      BY <1>4, <2>1
  <2>3. seq[n + 1] \in T
    BY <1>2, <2>1
  <2>4. \A x : (\E k \in 1..(n + 1) : seq[k] = x)
                 <=> (x = seq[n + 1] \/ \E k \in 1..n : seq[k] = x)
    OBVIOUS
  <2>5. CASE seq[n + 1] \in set
    <3>1. kept[n + 1] = Append(kept[n], seq[n + 1])
      BY <1>1, <2>1, <2>5
    <3>2. /\ kept[n + 1] \in Seq(T)
          /\ \A x : (\E k \in 1..Len(kept[n + 1]) : kept[n + 1][k] = x)
                      <=> (x = seq[n + 1] \/ \E k \in 1..Len(kept[n]) : kept[n][k] = x)
      BY <2>2, <2>3, <3>1, AppendHolds
    <3>3. QED
      BY <2>2, <2>4, <2>5, <3>2
  <2>6. CASE seq[n + 1] \notin set
    <3>1. kept[n + 1] = kept[n]
      BY <1>1, <2>1, <2>6
    <3>2. QED
      BY <2>2, <2>4, <2>6, <3>1
  <2>7. QED
    BY <2>5, <2>6
<1>5. KeptTo(Len(seq))
  <2> HIDE DEF KeptTo
  <2>1. Len(seq) \in H
    <3> HIDE DEF H
    <3>1. QED
      BY <1>2, <1>3, <1>4, NatClosed
  <2>2. QED
    BY <1>2, <2>1
<1>6. /\ Kept(seq, set) \in Seq(T)
      /\ \A x : (\E i \in 1..Len(Kept(seq, set)) : Kept(seq, set)[i] = x)
                  <=> (x \in set /\ \E i \in 1..Len(seq) : seq[i] = x)
  BY <1>1, <1>5
<1>7. /\ \A x : x \in Range(seq) <=> \E i \in 1..Len(seq) : seq[i] = x
      /\ \A x : x \in Range(Kept(seq, set)) <=>
                   \E i \in 1..Len(Kept(seq, set)) : Kept(seq, set)[i] = x
  BY <1>6, RangeEquality
<1>8. QED
  BY <1>6, <1>7

(* The ends of a queue. *)
LEMMA QueueFact ==
  ASSUME NEW T, NEW q \in Seq(T)
  PROVE  /\ Range(<<>>) = {} /\ <<>> \in Seq(T)
         /\ \A e \in T : Append(q, e) \in Seq(T) /\ Range(Append(q, e)) = Range(q) \cup {e}
         /\ q # <<>> => /\ Head(q) \in Range(q) /\ Head(q) \in T
                        /\ Tail(q) \in Seq(T) /\ Range(Tail(q)) \subseteq Range(q)
         /\ q # <<>> => /\ Last(q) \in T /\ Front(q) \in Seq(T)
                        /\ Range(q) = Range(Front(q)) \cup {Last(q)}
<1>1. Range(<<>>) = {} /\ <<>> \in Seq(T)
  BY DEF Range
<1>2. Len(q) \in Nat /\ (\A i \in 1..Len(q) : q[i] \in T)
      /\ \A x : x \in Range(q) <=> \E i \in 1..Len(q) : q[i] = x
  BY RangeEquality
<1>2a. ASSUME NEW s \in Seq(T)
      PROVE  \A x : x \in Range(s) <=> \E i \in 1..Len(s) : s[i] = x
  BY RangeEquality
<1>3. ASSUME NEW e \in T
      PROVE  Append(q, e) \in Seq(T) /\ Range(Append(q, e)) = Range(q) \cup {e}
  <2>1. /\ Append(q, e) \in Seq(T)
        /\ \A x : (\E k \in 1..Len(Append(q, e)) : Append(q, e)[k] = x)
                     <=> (x = e \/ \E k \in 1..Len(q) : q[k] = x)
    BY AppendHolds
  <2>2. \A x : x \in Range(Append(q, e)) <=>
                 \E i \in 1..Len(Append(q, e)) : Append(q, e)[i] = x
    BY <1>2a, <2>1
  <2>3. QED
    BY <1>2, <2>1, <2>2
<1>4. ASSUME q # <<>>
      PROVE  /\ Head(q) \in Range(q) /\ Head(q) \in T
             /\ Tail(q) \in Seq(T) /\ Range(Tail(q)) \subseteq Range(q)
  <2>1. Len(q) \in Nat \ {0} /\ Head(q) = q[1]
    BY <1>4, <1>2, EmptySeq
  <2>2. /\ Tail(q) \in Seq(T) /\ Len(Tail(q)) = Len(q) - 1
        /\ \A i \in 1..Len(Tail(q)) : Tail(q)[i] = q[i + 1]
    BY <1>4, HeadTailProperties
  <2>3. \A x : x \in Range(Tail(q)) <=> \E i \in 1..Len(Tail(q)) : Tail(q)[i] = x
    BY <1>2a, <2>2
  <2>4. QED
    BY <1>2, <2>1, <2>2, <2>3
<1>5. ASSUME q # <<>>
      PROVE  /\ Last(q) \in T /\ Front(q) \in Seq(T)
             /\ Range(q) = Range(Front(q)) \cup {Last(q)}
  <2>1. Len(q) \in Nat \ {0}
    BY <1>5, EmptySeq
  <2>2. \A i \in 1..(Len(q) - 1) : q[i] \in T
    BY <1>2, <2>1
  <2>3. /\ SubSeq(q, 1, Len(q) - 1) \in Seq(T)
        /\ Len(SubSeq(q, 1, Len(q) - 1)) = Len(q) - 1
        /\ \A i \in 1..(Len(q) - 1) : SubSeq(q, 1, Len(q) - 1)[i] = q[i]
    <3> DEFINE n == Len(q)
    <3> HIDE DEF n
    <3>0. n \in Nat \ {0} => n - 1 \in Int /\ (1 <= n - 1 \/ n = 1)
      OBVIOUS
    <3>1. Len(q) - 1 \in Int /\ 1 \in Int /\ (1 <= Len(q) - 1 \/ Len(q) = 1)
      BY <2>1, <3>0 DEF n
    <3>2. /\ SubSeq(q, 1, Len(q) - 1) \in Seq(T)
          /\ Len(SubSeq(q, 1, Len(q) - 1))
               = IF 1 <= Len(q) - 1 THEN Len(q) - 1 - 1 + 1 ELSE 0
          /\ \A i \in 1..(Len(q) - 1 - 1 + 1) : SubSeq(q, 1, Len(q) - 1)[i] = q[1 + i - 1]
      BY <2>2, <3>1, SubSeqProperties
    <3>3. QED
      BY <2>1, <3>1, <3>2
  <2>4. /\ Front(q) \in Seq(T) /\ Len(Front(q)) = Len(q) - 1
        /\ \A i \in 1..(Len(q) - 1) : Front(q)[i] = q[i]
    BY <2>3 DEF Front
  <2>5. \A x : x \in Range(Front(q)) <=> \E i \in 1..Len(Front(q)) : Front(q)[i] = x
    BY <2>4, RangeEquality
  <2>6. \A x : (\E i \in 1..Len(q) : q[i] = x)
                 <=> (x = q[Len(q)] \/ \E i \in 1..(Len(q) - 1) : q[i] = x)
    BY <2>1
  <2>7. Last(q) = q[Len(q)] /\ Last(q) \in T
    BY <1>2, <2>1 DEF Last
  <2>8. QED
    BY <1>2, <2>4, <2>5, <2>6, <2>7
<1>6. QED
  BY <1>1, <1>3, <1>4, <1>5


-----------------------------------------------------------------------------
(* The updater's steps. *)

(* What they do to the root and to what is on its way: the root loses      *)
(* nothing, what is offered is in it or was on its way already, and what   *)
(* it gains is on its way as long as nothing has been offered or has gone  *)
(* wrong.                                                                  *)
UpdaterFrame ==
  /\ InRoot \subseteq InRoot'
  /\ (Range(offered) \cup Offering)' \subseteq Range(offered) \cup Offering \cup InRoot'
  /\ seen \subseteq seen' /\ faults <= faults'
  /\ seen' = {} /\ faults' = faults => InRoot' \ Offering' \subseteq InRoot \ Offering

(* A step that leaves the root, and what was offered, alone, and starts or *)
(* ends no offer.                                                          *)
LEMMA QuietFrame ==
  ASSUME UpdaterTypes, UNCHANGED <<root, seen, offered>>, faults' \in Nat, faults <= faults',
         \/ Offering' = Offering
         \/ Offering' = {} /\ faults' # faults
         \/ Offering' \subseteq InRoot /\ Offering = {}
  PROVE  UpdaterFrame
<1>1. InRoot' = InRoot /\ Range(offered)' = Range(offered)
  BY DEF InRoot
<1>2. QED
  BY <1>1 DEF UpdaterFrame

LEMMA UpdaterStep ==
  ASSUME UpdaterTypes, JobInv, Job \/ Elapse \/ \E g \in Generations : ReleaseSet(g)
  PROVE  UpdaterTypes' /\ JobInv' /\ UpdaterFrame
<1> USE DEF UpdaterTypes, JobInv
<1>1. CASE Authenticate \/ CheckFails
  <2>1. UNCHANGED <<root, seen, offered, faults, status, channel>>
    BY <1>1 DEF Authenticate, CheckFails
  <2>2. /\ job' \in JobType /\ job.pc = "check" /\ job'.pc \in {"conclude", "failed"}
        /\ job'.pc = "conclude" => job'.plan \in Generations
    BY <1>1 DEF Authenticate, CheckFails, Goes, JobType, JobPc, GenOrNone, StatusType
  <2>3. UpdaterFrame
    BY <2>1, <2>2, QuietFrame DEF Offering
  <2>4. QED
    BY <2>1, <2>2, <2>3
<1>2. CASE Conclude \/ ConcludeFailed
  <2>1. UNCHANGED <<root, seen, offered, faults, channel>>
    BY <1>2 DEF Conclude, ConcludeFailed
  <2>2. /\ job' \in JobType /\ job.pc \in {"conclude", "failed"}
        /\ job'.pc \in {"resolve", "settle"}
        /\ job'.pc = "resolve" => job'.plan \in Generations
    <3>1. CASE Conclude
      BY <3>1 DEF Conclude, NoJob, JobType, JobPc, GenOrNone
    <3>2. CASE ConcludeFailed
      BY <3>2 DEF ConcludeFailed, Goes, JobType, JobPc
    <3>3. QED
      BY <1>2, <3>1, <3>2
  <2>3. status' \in StatusType /\ status'.phase = status.phase
    <3>1. CASE Conclude
      BY <3>1 DEF Conclude, StatusType, GenOrNone, JobType
    <3>2. CASE ConcludeFailed
      BY <3>2 DEF ConcludeFailed
    <3>3. QED
      BY <1>2, <3>1, <3>2
  <2>4. UpdaterFrame
    BY <2>1, <2>2, QuietFrame DEF Offering
  <2>5. QED
    BY <2>1, <2>2, <2>3, <2>4
<1>3. CASE Resolve
  <2>1. UNCHANGED <<root, seen, offered, faults, channel>>
    BY <1>3 DEF Resolve
  <2>2. /\ job' \in JobType /\ job'.pc \in {"offer", "claim"} /\ job'.plan = job.plan
        /\ job.pc = "resolve" /\ (job'.pc = "offer" => job.plan \in InRoot)
    BY <1>3 DEF Resolve, JobType, JobPc
  <2>3. status' \in StatusType /\ status'.phase = "Applying"
    BY <1>3 DEF Resolve, StatusType, JobType
  <2>4. UpdaterFrame
    BY <2>1, <2>2, QuietFrame DEF Offering
  <2>5. QED
    BY <2>1, <2>2, <2>3, <2>4
<1>4. CASE ClaimPlan \/ PublishFails \/ Release
  <2>1. UNCHANGED <<root, seen, offered, faults, channel, status>>
    BY <1>4 DEF ClaimPlan, PublishFails, Release
  <2>2. /\ job' \in JobType /\ job'.plan = job.plan
        /\ \/ job.pc = "claim" /\ job'.pc = "publish"
           \/ job.pc = "publish" /\ job'.pc = "refused"
           \/ job.pc = "release" /\ job'.pc = "offer"
           \/ job.pc = "refused" /\ job'.pc = "settle"
    BY <1>4 DEF ClaimPlan, PublishFails, Release, Goes, JobType, JobPc
  <2>3. Offering' = Offering
    BY <2>2 DEF Offering
  <2>4. UpdaterFrame
    BY <2>1, <2>3, QuietFrame
  <2>5. QED
    BY <2>1, <2>2, <2>4
<1>5. CASE Publish
  <2>1. UNCHANGED <<seen, offered, faults, channel, status>>
    BY <1>5 DEF Publish
  <2>2. /\ job' \in JobType /\ job'.plan = job.plan
        /\ job.pc = "publish" /\ job'.pc = "release" /\ job.plan \in Generations
    BY <1>5 DEF Publish, Goes, JobType, JobPc
  <2>3. root' \in Seq(Generations) /\ InRoot' = InRoot \cup {job.plan}
    <3>1. InRoot = Range(root) /\ InRoot' = Range(root')
      BY DEF InRoot, Range
    <3>2. CASE job.plan \in InRoot
      BY <1>5, <3>2 DEF Publish, InRoot
    <3>3. CASE job.plan \notin InRoot
      <4>1. root' = Append(root, job.plan)
        BY <1>5, <3>3 DEF Publish
      <4>2. /\ Append(root, job.plan) \in Seq(Generations)
            /\ Range(Append(root, job.plan)) = Range(root) \cup {job.plan}
        BY <2>2, QueueFact
      <4>3. QED
        BY <3>1, <4>1, <4>2
    <3>4. QED
      BY <3>2, <3>3
  <2>4. Offering' = {job.plan} /\ Offering = {}
    BY <2>2 DEF Offering
  <2>5. UpdaterFrame
    BY <2>1, <2>3, <2>4 DEF UpdaterFrame
  <2>6. QED
    BY <2>1, <2>2, <2>3, <2>5
<1>6. CASE Offer
  <2>1. UNCHANGED <<root, faults, channel>> /\ seen' = seen \cup {job.plan}
    BY <1>6 DEF Offer
  <2>2. /\ job' \in JobType /\ job.pc = "offer" /\ job'.pc = "settle"
        /\ job.plan \in Generations
    BY <1>6 DEF Offer, Goes, JobType, JobPc
  <2>3. status' \in StatusType /\ status'.phase = status.phase
    BY <1>6, <2>2 DEF Offer, StatusType, GenOrNone
  <2>4. /\ offered' \in Seq(Generations)
        /\ Range(offered') \subseteq Range(offered) \cup {job.plan}
    <3>1. CASE job.plan \in seen
      BY <1>6, <3>1 DEF Offer
    <3>2. CASE job.plan \notin seen
      <4>1. offered' = Append(offered, job.plan)
        BY <1>6, <3>2 DEF Offer
      <4>2. QED
        BY <2>2, <4>1, QueueFact
    <3>3. QED
      BY <3>1, <3>2
  <2>5. Offering = {job.plan} /\ Offering' = {} /\ InRoot' = InRoot
    BY <2>1, <2>2 DEF Offering, InRoot
  <2>6. Range(offered)' = Range(offered')
    OBVIOUS
  <2>7. UpdaterFrame
    BY <2>1, <2>4, <2>5, <2>6 DEF UpdaterFrame
  <2>8. QED
    BY <2>1, <2>2, <2>3, <2>4, <2>6, <2>7
<1>7. CASE Settle
  <2>1. UNCHANGED <<root, seen, offered, faults, channel>>
    BY <1>7 DEF Settle
  <2>2. job' = NoJob /\ NoJob \in JobType /\ job.pc = "settle"
    BY <1>7 DEF Settle, NoJob, JobType, JobPc, GenOrNone
  <2>3. status' \in StatusType /\ status'.phase = "Idle"
    BY <1>7 DEF Settle, StatusType, GenOrNone
  <2>4. UpdaterFrame
    BY <2>1, <2>2, QuietFrame DEF Offering, NoJob
  <2>5. QED
    BY <2>1, <2>2, <2>3, <2>4 DEF NoJob
<1>8. CASE Panic
  <2>1. UNCHANGED <<root, seen, offered, channel, status>>
    BY <1>8 DEF Panic
  <2>2. faults' = faults + 1
    BY <1>8 DEF Panic, Fault
  <2>3. job' \in JobType /\ job.pc # "idle" /\ job'.pc = "settle"
    BY <1>8 DEF Panic, JobType, JobPc
  <2>4. faults' \in Nat /\ faults <= faults' /\ faults' # faults
    BY <2>2
  <2>5. Offering' = {}
    BY <2>3 DEF Offering
  <2>6. UpdaterFrame
    BY <2>1, <2>4, <2>5, QuietFrame
  <2>7. QED
    BY <2>1, <2>3, <2>4, <2>6
<1>9. CASE Elapse
  <2>1. UNCHANGED <<root, seen, offered, faults, channel, status, job>>
    BY <1>9 DEF Elapse
  <2>2. UpdaterFrame
    BY <2>1, QuietFrame DEF Offering
  <2>3. QED
    BY <2>1, <2>2
<1>10. ASSUME NEW g \in Generations, ReleaseSet(g)
       PROVE  UpdaterTypes' /\ JobInv' /\ UpdaterFrame
  <2>1. UNCHANGED <<root, seen, offered, faults, status, job>>
    BY <1>10 DEF ReleaseSet
  <2>2. channel' \in [newest : Generations, releases : Nat]
    BY <1>10 DEF ReleaseSet
  <2>3. UpdaterFrame
    BY <2>1, QuietFrame DEF Offering
  <2>4. QED
    BY <2>1, <2>2, <2>3
<1>11. QED
  BY <1>1, <1>2, <1>3, <1>4, <1>5, <1>6, <1>7, <1>8, <1>9, <1>10 DEF Job

(* A check begins when the updater is idle, or a fault leaves it as it was. *)
LEMMA BeginStep ==
  ASSUME UpdaterTypes, JobInv,
         StartCheck \/ UNCHANGED <<status, job>>, faults' \in {faults, faults + 1},
         UNCHANGED <<channel, root, claims, seen, offered>>
  PROVE  UpdaterTypes' /\ JobInv' /\ UpdaterFrame
<1> USE DEF UpdaterTypes, JobInv
<1>1. faults' \in Nat /\ faults <= faults'
  OBVIOUS
<1>2. CASE UNCHANGED <<status, job>>
  <2>1. UpdaterFrame
    BY <1>1, <1>2, QuietFrame DEF Offering
  <2>2. QED
    BY <1>1, <1>2, <2>1
<1>3. CASE /\ status.phase = "Idle"
           /\ status' = [status EXCEPT !.phase = "Checking"]
           /\ job' = [NoJob EXCEPT !.pc = "check"]
  <2>1. status' \in StatusType /\ status'.phase = "Checking"
    BY <1>3 DEF StatusType
  <2>2. job' \in JobType /\ job'.pc = "check" /\ job.pc = "idle"
    BY <1>3 DEF JobType, JobPc, NoJob, GenOrNone
  <2>3. UpdaterFrame
    BY <1>1, <1>3, <2>2, QuietFrame DEF Offering
  <2>4. QED
    BY <1>1, <1>3, <2>1, <2>2, <2>3
<1>4. QED
  BY <1>2, <1>3 DEF StartCheck

-----------------------------------------------------------------------------
(* The catalog's queue. *)

(* What of the catalog waits. *)
Waiting(c) == Range(c.bootQueue) \cup {c.pending}

(* Taking the next candidate loses none. *)
LEMMA PoppedFact ==
  ASSUME NEW c \in CatalogType
  PROVE  /\ Popped(c) \in CatalogType
         /\ Popped(c).booted = c.booted /\ Popped(c).loaded = c.loaded
         /\ Popped(c).log = c.log
         /\ Range(c.bootQueue) \subseteq Waiting(Popped(c))
         /\ Waiting(Popped(c)) \subseteq Range(c.bootQueue) \cup {NoGen}
         /\ Popped(c).pending = NoGen => Popped(c).bootQueue = <<>>
<1> DEFINE q == c.bootQueue
<1>1. q \in Seq(Generations)
  BY DEF CatalogType
<1>2. CASE q = <<>>
  <2>1. Popped(c) = [c EXCEPT !.pending = NoGen]
    BY <1>2 DEF Popped
  <2>2. /\ Popped(c) \in CatalogType /\ Popped(c).booted = c.booted
        /\ Popped(c).loaded = c.loaded /\ Popped(c).log = c.log
        /\ Popped(c).bootQueue = q /\ Popped(c).pending = NoGen
    BY <2>1 DEF CatalogType, GenOrNone
  <2>3. Range(q) = {}
    BY <1>1, <1>2, QueueFact
  <2>4. QED
    BY <1>2, <2>2, <2>3 DEF Waiting
<1>3. CASE q # <<>>
  <2>1. /\ Last(q) \in Generations /\ Front(q) \in Seq(Generations)
        /\ Range(q) = Range(Front(q)) \cup {Last(q)}
    BY <1>1, <1>3, QueueFact
  <2>2. Popped(c) = [c EXCEPT !.bootQueue = Front(q), !.pending = Last(q)]
    BY <1>3 DEF Popped, CatalogType
  <2>3. /\ Popped(c) \in CatalogType /\ Popped(c).booted = c.booted
        /\ Popped(c).loaded = c.loaded /\ Popped(c).log = c.log
        /\ Popped(c).bootQueue = Front(q) /\ Popped(c).pending = Last(q)
    BY <2>1, <2>2 DEF CatalogType, GenOrNone
  <2>4. Last(q) # NoGen
    BY <2>1, GenerationAssumption
  <2>5. QED
    BY <2>1, <2>3, <2>4 DEF Waiting
<1>4. QED
  BY <1>2, <1>3

(* A boot makes candidates of all that is in the root, and of nothing else. *)
LEMMA BootFact ==
  ASSUME UpdaterTypes, CatalogTypes
  PROVE  LET c == BootOnce(catalog)
         IN  /\ c \in CatalogType /\ c.booted
             /\ c.loaded = catalog.loaded /\ c.log = catalog.log
             /\ catalog.booted => c = catalog
             /\ ~catalog.booted => /\ InRoot \subseteq Waiting(c)
                                   /\ Waiting(c) \subseteq InRoot \cup {NoGen}
                                   /\ c.pending = NoGen => c.bootQueue = <<>>
<1> DEFINE order == BootOrder(catalog.log.active)
           c     == [catalog EXCEPT !.booted = TRUE, !.bootQueue = order]
<1>1. InRoot = Range(root) /\ root \in Seq(Generations)
  BY DEF InRoot, Range, UpdaterTypes
<1>2. order \in Seq(Generations) /\ Range(order) = InRoot
  <2> DEFINE a == catalog.log.active
             others == Kept(root, InRoot \ {a})
             active == Kept(root, {a})
  <2>1. others \in Seq(Generations) /\ Range(others) = Range(root) \cap (InRoot \ {a})
    BY <1>1, KeptFact
  <2>2. active \in Seq(Generations) /\ Range(active) = Range(root) \cap {a}
    BY <1>1, KeptFact
  <2>3. order = others \o active
    BY DEF BootOrder
  <2> HIDE DEF others, active, order
  <2>4. others \o active \in Seq(Generations)
    BY <2>1, <2>2, ConcatProperties
  <2>5. Range(others \o active) = Range(others) \cup Range(active)
    BY <2>1, <2>2, RangeConcatenation
  <2>6. QED
    BY <1>1, <2>1, <2>2, <2>3, <2>4, <2>5
<1> HIDE DEF order
<1>3. /\ catalog \in CatalogType
      /\ c \in CatalogType /\ c.booted /\ c.loaded = catalog.loaded
      /\ c.log = catalog.log /\ c.bootQueue = order
  BY <1>2 DEF CatalogTypes, CatalogType
<1> HIDE DEF c
<1>4. CASE catalog.booted
  BY <1>3, <1>4 DEF BootOnce
<1>5. CASE ~catalog.booted
  <2>1. BootOnce(catalog) = Popped(c)
    BY <1>5 DEF BootOnce, c, order
  <2>2. QED
    BY <1>2, <1>3, <1>5, <2>1, PoppedFact
<1>6. QED
  BY <1>4, <1>5

(* The catalog boots: from the root, or, at the cost of a fault, from nothing. *)
Boots ==
  \/ catalog' = BootOnce(catalog)
  \/ catalog' = BootBlind(catalog) /\ ~catalog.booted /\ faults' # 0

LEMMA BootsFact ==
  ASSUME UpdaterTypes, CatalogTypes, Boots
  PROVE  /\ catalog' \in CatalogType /\ catalog'.booted
         /\ catalog'.loaded = catalog.loaded /\ catalog'.log = catalog.log
         /\ catalog.booted => catalog' = catalog
         /\ ~catalog.booted => /\ InRoot \subseteq Waiting(catalog') \/ faults' # 0
                               /\ Waiting(catalog') \subseteq InRoot \cup {NoGen}
                               /\ catalog'.pending = NoGen => catalog'.bootQueue = <<>>
<1>1. CASE catalog' = BootOnce(catalog)
  BY <1>1, BootFact
<1>2. CASE catalog' = BootBlind(catalog) /\ ~catalog.booted /\ faults' # 0
  <2> DEFINE c == [catalog EXCEPT !.booted = TRUE, !.bootQueue = <<>>]
  <2>1. /\ c \in CatalogType /\ c.booted /\ c.loaded = catalog.loaded
        /\ c.log = catalog.log /\ c.bootQueue = <<>>
    <3>1. <<>> \in Seq(Generations)
      OBVIOUS
    <3>2. QED
      BY <3>1 DEF CatalogTypes, CatalogType
  <2>2. catalog' = Popped(c)
    BY <1>2 DEF BootBlind
  <2> HIDE DEF c
  <2>3. Range(c.bootQueue) = {}
    BY <2>1, QueueFact DEF CatalogType
  <2>4. QED
    BY <1>2, <2>1, <2>2, <2>3, PoppedFact
<1>3. QED
  BY <1>1, <1>2 DEF Boots

-----------------------------------------------------------------------------
(* The steps that activate nothing. *)

LEMMA HostStep ==
  ASSUME UpdaterTypes, JobInv, UNCHANGED <<channel, root, seen, offered, status, job>>,
         faults' \in Nat
  PROVE  /\ UpdaterTypes' /\ JobInv'
         /\ InRoot' = InRoot /\ Offering' = Offering /\ Range(offered)' = Range(offered)
  BY DEF UpdaterTypes, JobInv, InRoot, Offering

(* The updater moves, or the catalog boots, while nothing is activated:    *)
(* what the root, the queue and the record say of each other stays true.   *)
LEMMA IdleStep ==
  ASSUME CatalogInv, UpdaterTypes', UpdaterFrame,
         catalog' = catalog \/ Boots,
         UNCHANGED <<payloads, record>>,
         \/ UNCHANGED worker
         \/ worker.pc \notin {"swap", "trees"} /\ worker'.pc \notin {"swap", "trees"}
  PROVE  StrayInv' /\ LogInv' /\ QueueInv'
<1> USE DEF CatalogInv
<1>1. /\ catalog'.loaded = catalog.loaded /\ catalog'.log = catalog.log
      /\ catalog.booted => catalog' = catalog
      /\ catalog' # catalog => /\ InRoot \subseteq Waiting(catalog') \/ faults' # 0
                               /\ Waiting(catalog') \subseteq InRoot \cup {NoGen}
  BY BootsFact
<1>2. Swapping' = Swapping
  BY DEF Swapping
<1>3. NoGen \notin payloads
  BY GenerationAssumption DEF CatalogTypes
<1>4. Waiting(catalog') \subseteq Waiting(catalog) \cup InRoot' \cup {NoGen}
  BY <1>1 DEF UpdaterFrame
<1>5. /\ Coming' = (Range(offered) \cup Offering)' \cup Waiting(catalog') \cup Swapping'
      /\ Coming = Range(offered) \cup Offering \cup Waiting(catalog) \cup Swapping
  BY DEF Coming, Waiting
<1>6. Coming' \subseteq Coming \cup InRoot' \cup {NoGen}
  BY <1>2, <1>4, <1>5 DEF UpdaterFrame
<1>7. faults' = 0 => faults = 0
  BY DEF UpdaterFrame, UpdaterTypes
<1>8. StrayInv'
  <2> SUFFICES ASSUME NEW g \in payloads', g \notin InRoot', worker'.pc # "trees" \/ g \in Live'
               PROVE  g \notin Coming'
    BY DEF StrayInv
  <2>1. g \in payloads \ InRoot
    BY DEF UpdaterFrame
  <2>2. worker.pc # "trees" \/ g \in Live
    BY <1>1 DEF Live
  <2>3. g \notin Coming
    BY <2>1, <2>2 DEF StrayInv
  <2>4. QED
    BY <1>3, <1>6, <2>1, <2>3
<1>9. LogInv'
  <2>1. catalog'.loaded # NoGen => catalog'.loaded \in InRoot' \cap payloads'
    BY <1>1 DEF LogInv, UpdaterFrame
  <2>2. \A log \in {catalog'.log, record'} : log.previous # NoGen => log.previous # log.active
    BY <1>1 DEF LogInv
  <2>3. faults' = 0 => /\ record' = catalog'.log
                       /\ {record'.active, record'.previous} \subseteq InRoot' \cup {NoGen}
    BY <1>1, <1>7 DEF LogInv, UpdaterFrame
  <2>4. QED
    BY <2>1, <2>2, <2>3 DEF LogInv
<1>10. QueueInv'
  <2> SUFFICES ASSUME catalog'.booted, catalog'.loaded = NoGen, seen' = {}, faults' = 0
               PROVE  InRoot' \ Offering' \subseteq
                        Broken \cup Unloadable \cup Waiting(catalog') \cup Swapping'
    BY DEF QueueInv, Waiting
  <2>1. seen = {} /\ faults = 0 /\ catalog.loaded = NoGen
    BY <1>1, <1>7 DEF UpdaterFrame
  <2>2. InRoot' \ Offering' \subseteq InRoot \ Offering
    BY <2>1 DEF UpdaterFrame
  <2>3. CASE catalog' # catalog
    BY <1>1, <2>2, <2>3
  <2>4. CASE catalog' = catalog
    BY <1>2, <2>1, <2>2, <2>4 DEF QueueInv, Waiting
  <2>5. QED
    BY <2>3, <2>4
<1>11. QED
  BY <1>8, <1>9, <1>10


LEMMA UpdaterKeeps ==
  ASSUME CatalogInv,
         \/ Job \/ Elapse \/ \E g \in Generations : ReleaseSet(g)
         \/ UNCHANGED updater,
         UNCHANGED host
  PROVE  CatalogInv'
<1>1. UpdaterTypes' /\ JobInv' /\ UpdaterFrame
  <2>1. CASE UNCHANGED updater
    <3>1. UpdaterTypes' /\ JobInv'
      BY <2>1 DEF updater, UpdaterTypes, JobInv, CatalogInv
    <3>2. UpdaterFrame
      BY <2>1, QuietFrame DEF updater, UpdaterTypes, CatalogInv, Offering
    <3>3. QED
      BY <3>1, <3>2
  <2>2. QED
    BY <2>1, UpdaterStep DEF CatalogInv
<1>2. CatalogTypes' /\ LoopInv' /\ CandidateInv'
  BY DEF host, CatalogInv, CatalogTypes, LoopInv, LoadedIsResident, At, CandidateInv
<1>3. StrayInv' /\ LogInv' /\ QueueInv'
  BY <1>1, IdleStep DEF host
<1>4. QED
  BY <1>1, <1>2, <1>3 DEF CatalogInv

(* A command that mounts nothing, and the song that is opened or ends. *)
LEMMA CommandKeeps ==
  ASSUME CatalogInv, NoCommand \/ Stop \/ CheckNow \/ Open
  PROVE  CatalogInv'
<1> USE DEF CatalogInv
<1>1. UNCHANGED <<catalog, payloads, record, restarts>>
  BY DEF NoCommand, Stop, CheckNow, Open
<1>2. /\ worker.pc \in {"command", "open"}
      /\ worker' = [worker EXCEPT !.pc = "tick"]
  BY DEF NoCommand, Stop, CheckNow, Open, At, Go
<1>3. worker' \in WorkerType /\ worker'.pc = "tick"
  BY <1>2 DEF CatalogTypes, WorkerType, WorkerPc
<1>4. backend' \in BackendType /\ backend'.set = backend.set
  <2>1. CASE NoCommand \/ Open
    <3>1. PICK live \in BOOLEAN : backend' = [backend EXCEPT !.live = live]
      BY <2>1 DEF NoCommand, Open, CatalogTypes, BackendType
    <3>2. QED
      BY <3>1 DEF CatalogTypes, BackendType
  <2>2. CASE Stop
    BY <2>2 DEF Stop, CatalogTypes, BackendType
  <2>3. CASE CheckNow
    BY <2>3 DEF CheckNow, CatalogTypes
  <2>4. QED
    BY <2>1, <2>2, <2>3
<1>5. UpdaterTypes' /\ JobInv' /\ UpdaterFrame
  <2>1. CASE CheckNow
    BY <2>1, BeginStep DEF CheckNow, BeginCheck, Fault
  <2>2. CASE NoCommand \/ Stop \/ Open
    <3>1. UNCHANGED <<channel, root, claims, seen, offered, status, job, schedule, faults>>
      BY <2>2 DEF NoCommand, Stop, Open, updater
    <3>2. QED
      BY <3>1, BeginStep
  <2>3. QED
    BY <2>1, <2>2
<1>6. CatalogTypes'
  BY <1>1, <1>3, <1>4 DEF CatalogTypes
<1>7. LoopInv'
  BY <1>1, <1>2, <1>3, <1>4 DEF LoopInv, LoadedIsResident, At
<1>8. CandidateInv'
  BY <1>1, <1>2, <1>3 DEF CandidateInv
<1>9. StrayInv' /\ LogInv' /\ QueueInv'
  BY <1>1, <1>2, <1>3, <1>5, IdleStep
<1>10. QED
  BY <1>5, <1>6, <1>7, <1>8, <1>9

(* A tick, and a mount, boot the catalog first. *)
LEMMA BootKeeps ==
  ASSUME CatalogInv, Play \/ Tick
  PROVE  CatalogInv'
<1> USE DEF CatalogInv
<1>1. Boots /\ UNCHANGED <<payloads, record, restarts>>
  BY DEF Play, Tick, Boots, BootsBlind, Fault, UpdaterTypes
<1>2. /\ catalog' \in CatalogType /\ catalog'.booted
      /\ catalog'.loaded = catalog.loaded /\ catalog'.log = catalog.log
      /\ catalog.booted => catalog' = catalog
      /\ ~catalog.booted /\ catalog'.pending = NoGen => catalog'.bootQueue = <<>>
  BY <1>1, BootsFact
<1>3. /\ worker.pc \in {"command", "tick"} /\ worker'.pc \in {"open", "activate", "take"}
      /\ worker' \in WorkerType
      /\ worker'.pc = "activate" => catalog'.pending # NoGen
  <2>1. CASE Play
    BY <2>1 DEF Play, At, Go, NoWork, CatalogTypes, WorkerType, WorkerPc, GenOrNone
  <2>2. CASE Tick
    BY <2>2 DEF Tick, At, Go, CatalogTypes, WorkerType, WorkerPc
  <2>3. QED
    BY <2>1, <2>2
<1>4. /\ backend' \in BackendType /\ backend'.set = backend.set
      /\ worker'.pc = "activate" => ~backend'.live
  <2>1. CASE Play /\ catalog'.pending # NoGen
    BY <2>1 DEF Play, CatalogTypes, BackendType
  <2>2. CASE Play /\ catalog'.pending = NoGen
    BY <2>2 DEF Play, Go, CatalogTypes, WorkerType
  <2>3. CASE Tick
    BY <2>3 DEF Tick, Go, CatalogTypes, WorkerType
  <2>4. QED
    BY <2>1, <2>2, <2>3
<1>5. UpdaterTypes' /\ JobInv' /\ UpdaterFrame
  <2>1. CASE Tick
    BY <2>1, BeginStep DEF Tick, TickUpdater, BeginCheck, BootsBlind, Fault
  <2>2. CASE Play
    BY <2>2, BeginStep DEF Play, BootsBlind, Fault
  <2>3. QED
    BY <2>1, <2>2
<1>6. CatalogTypes'
  BY <1>1, <1>2, <1>3, <1>4 DEF CatalogTypes
<1>7. LoopInv'
  BY <1>2, <1>3, <1>4 DEF LoopInv, LoadedIsResident, At
<1>8. CandidateInv'
  <2>1. catalog'.loaded \notin Broken \cup Unloadable
    BY <1>2 DEF CandidateInv
  <2>2. catalog'.loaded # NoGen => catalog'.bootQueue = <<>>
    BY <1>2 DEF CandidateInv
  <2>3. catalog'.pending = NoGen => catalog'.bootQueue = <<>>
    BY <1>2, <1>3 DEF CandidateInv
  <2>4. QED
    BY <1>2, <2>1, <2>2, <2>3 DEF CandidateInv
<1>9. StrayInv' /\ LogInv' /\ QueueInv'
  BY <1>1, <1>3, <1>5, IdleStep
<1>10. QED
  BY <1>5, <1>6, <1>7, <1>8, <1>9

(* The worker's steps that leave the updater alone but for a write or a    *)
(* load that fails.                                                        *)
LEMMA FaultStep ==
  ASSUME UpdaterTypes, faults' = faults \/ Fault
  PROVE  /\ faults' \in Nat /\ (faults' = 0 => faults = 0)
         /\ faults' = faults \/ faults' # 0
  BY DEF UpdaterTypes, Fault

(* A finished generation waits; it is one that this process has offered. *)
LEMMA TakeKeeps ==
  ASSUME CatalogInv, Take
  PROVE  CatalogInv'
<1> USE DEF CatalogInv
<1>1. /\ UNCHANGED <<channel, root, seen, status, job, faults>>
      /\ UNCHANGED <<payloads, record, backend, restarts>>
  BY DEF Take
<1>2. /\ worker.pc = "take" /\ worker'.pc \in {"command", "activate"}
      /\ worker' \in WorkerType
      /\ worker'.pc = "activate" => catalog'.pending # NoGen /\ ~backend.live
  BY DEF Take, At, Go, CatalogTypes, WorkerType, WorkerPc
<1>3. /\ catalog' \in CatalogType /\ catalog'.booted = catalog.booted
      /\ catalog'.bootQueue = catalog.bootQueue
      /\ catalog'.loaded = catalog.loaded /\ catalog'.log = catalog.log
      /\ \/ offered = <<>> /\ catalog'.pending = catalog.pending
         \/ offered # <<>> /\ catalog'.pending = Head(offered)
  <2>1. offered # <<>> => Head(offered) \in Generations
    BY QueueFact DEF UpdaterTypes
  <2>2. QED
    BY <2>1 DEF Take, CatalogTypes, CatalogType, GenOrNone
<1>4. /\ offered' \in Seq(Generations) /\ Range(offered') \subseteq Range(offered)
      /\ offered # <<>> => Head(offered) \in Range(offered) /\ Head(offered) \in Generations
  <2>1. CASE offered = <<>>
    BY <2>1 DEF Take, UpdaterTypes
  <2>2. CASE offered # <<>>
    BY <2>2, QueueFact DEF Take, UpdaterTypes
  <2>3. QED
    BY <2>1, <2>2
<1>5. /\ InRoot' = InRoot /\ Offering' = Offering /\ Range(offered)' = Range(offered')
      /\ Swapping = {} /\ Swapping' = {}
  BY <1>1, <1>2 DEF InRoot, Offering, Swapping
<1>6. UpdaterTypes' /\ JobInv'
  BY <1>1, <1>4, <1>5 DEF UpdaterTypes, JobInv
<1>7. CatalogTypes'
  BY <1>1, <1>2, <1>3 DEF CatalogTypes
<1>8. LoopInv'
  BY <1>1, <1>2, <1>3 DEF LoopInv, LoadedIsResident, At
<1>9. catalog'.pending = NoGen => catalog.pending = NoGen
  BY <1>3, <1>4, GenerationAssumption
<1>10. CandidateInv'
  BY <1>2, <1>3, <1>9 DEF CandidateInv
<1>11. StrayInv'
  <2>1. Coming' \subseteq Coming
    BY <1>3, <1>4, <1>5 DEF Coming
  <2>2. QED
    BY <1>1, <1>2, <1>5, <2>1 DEF StrayInv
<1>12. LogInv'
  BY <1>1, <1>3, <1>5 DEF LogInv
<1>13. QueueInv'
  <2>1. seen' = {} => offered = <<>>
    BY <1>1, <1>4 DEF JobInv
  <2>2. QED
    BY <1>1, <1>3, <1>5, <2>1 DEF QueueInv
<1>14. QED
  BY <1>6, <1>7, <1>8, <1>10, <1>11, <1>12, <1>13


-----------------------------------------------------------------------------
(* Activation. *)

LEMMA DoneFact ==
  ASSUME CatalogTypes, Done
  PROVE  worker' \in WorkerType /\ worker'.pc \in {"command", "open"}
  BY DEF CatalogTypes, Done, NoWork, WorkerType, WorkerPc, GenOrNone

LEMMA AlreadyLoadedKeeps ==
  ASSUME CatalogInv, AlreadyLoaded
  PROVE  CatalogInv'
<1> USE DEF CatalogInv
<1>1. UNCHANGED <<payloads, record, backend, restarts>> /\ UNCHANGED updater
  BY DEF AlreadyLoaded
<1>2. worker' \in WorkerType /\ worker'.pc \in {"command", "open"} /\ worker.pc = "activate"
  BY DoneFact DEF AlreadyLoaded, At
<1>3. /\ catalog' \in CatalogType /\ catalog'.booted = catalog.booted
      /\ catalog'.pending = NoGen /\ catalog'.bootQueue = <<>>
      /\ catalog'.loaded = catalog.loaded /\ catalog'.log = catalog.log
  <2>1. <<>> \in Seq(Generations) /\ NoGen \in GenOrNone
    BY DEF GenOrNone
  <2>2. catalog' = [catalog EXCEPT !.pending = NoGen, !.bootQueue = <<>>]
    BY DEF AlreadyLoaded
  <2>3. QED
    BY <2>1, <2>2 DEF CatalogTypes, CatalogType
<1>4. catalog.loaded # NoGen
  BY <1>2 DEF AlreadyLoaded, LoopInv
<1>5. /\ UpdaterTypes' /\ JobInv'
      /\ InRoot' = InRoot /\ Offering' = Offering /\ Range(offered)' = Range(offered)
  <2>1. UNCHANGED <<channel, root, seen, offered, status, job, faults>>
    BY <1>1 DEF updater
  <2>2. QED
    BY <2>1, HostStep DEF UpdaterTypes
<1>6. CatalogTypes'
  BY <1>1, <1>2, <1>3 DEF CatalogTypes
<1>7. LoopInv' /\ CandidateInv'
  BY <1>1, <1>2, <1>3, <1>4 DEF LoopInv, LoadedIsResident, At, CandidateInv
<1>8. StrayInv'
  <2>1. Coming' \subseteq Coming \cup {NoGen}
    <3>1. Range(<<>>) = {}
      BY DEF Range
    <3>2. Swapping' = {} /\ Range(catalog'.bootQueue) = {}
      BY <1>2, <1>3, <3>1 DEF Swapping
    <3>3. QED
      BY <1>3, <1>5, <3>2 DEF Coming
  <2>2. NoGen \notin payloads
    BY GenerationAssumption DEF CatalogTypes
  <2>3. QED
    BY <1>1, <1>2, <1>5, <2>1, <2>2 DEF StrayInv
<1>9. LogInv'
  <2>1. faults' = faults
    BY <1>1 DEF updater
  <2>2. QED
    BY <1>1, <1>3, <1>5, <2>1 DEF LogInv
<1>10. QueueInv'
  BY <1>3, <1>4 DEF QueueInv
<1>11. QED
  BY <1>5, <1>6, <1>7, <1>8, <1>9, <1>10

(* A tree that is made, or found, is that of a generation in the root.     *)
LEMMA ExtractKeeps ==
  ASSUME CatalogInv, Extract
  PROVE  CatalogInv'
<1> DEFINE g == catalog.pending
<1> USE DEF CatalogInv
<1>1. UNCHANGED <<record, backend, restarts>> /\ UNCHANGED updater
  BY DEF Extract
<1>2. /\ worker.pc = "activate" /\ g # NoGen /\ g \in Generations
      /\ worker' = [worker EXCEPT !.pc = "swap", !.gen = g]
      /\ payloads' = payloads \cup {g}
  BY DEF Extract, Takes, At, LoopInv, CatalogTypes, CatalogType, GenOrNone
<1>3. worker' \in WorkerType /\ worker'.pc = "swap" /\ worker'.gen = g
  BY <1>2 DEF CatalogTypes, WorkerType, WorkerPc, GenOrNone
<1>4. /\ catalog' \in CatalogType /\ catalog'.booted = catalog.booted
      /\ catalog'.pending = NoGen /\ catalog'.bootQueue = catalog.bootQueue
      /\ catalog'.loaded = catalog.loaded /\ catalog'.log = catalog.log
  BY DEF Extract, Takes, CatalogTypes, CatalogType, GenOrNone
<1>5. g \in InRoot /\ g \notin Broken
  <2>1. g \notin Broken /\ (g \in payloads \/ g \in InRoot)
    BY DEF Extract, Ensures
  <2>2. g \in Coming
    BY DEF Coming
  <2>3. g \notin payloads \ InRoot
    BY <1>2, <2>2 DEF StrayInv
  <2>4. QED
    BY <2>1, <2>3
<1>6. /\ UpdaterTypes' /\ JobInv'
      /\ InRoot' = InRoot /\ Offering' = Offering /\ Range(offered)' = Range(offered)
  <2>1. UNCHANGED <<channel, root, seen, offered, status, job, faults>>
    BY <1>1 DEF updater
  <2>2. QED
    BY <2>1, HostStep DEF UpdaterTypes
<1>7. CatalogTypes'
  BY <1>1, <1>2, <1>3, <1>4 DEF CatalogTypes
<1>8. LoopInv'
  <2>1. catalog.booted /\ ~backend.live
    BY <1>2 DEF LoopInv
  <2>2. QED
    BY <1>1, <1>2, <1>3, <1>4, <1>5, <2>1 DEF LoopInv, LoadedIsResident, At
<1>9. CandidateInv'
  BY <1>3, <1>4 DEF CandidateInv
<1>10. Swapping' = {g} /\ Swapping = {} /\ catalog.pending = g
  BY <1>2, <1>3 DEF Swapping
<1>11. StrayInv'
  <2>1. Coming' \subseteq Coming \cup {NoGen}
    BY <1>4, <1>6, <1>10 DEF Coming
  <2>2. NoGen \notin payloads'
    BY <1>7, GenerationAssumption DEF CatalogTypes
  <2>3. payloads' \ InRoot' = payloads \ InRoot
    BY <1>2, <1>5, <1>6
  <2>4. \A h \in payloads \ InRoot : h \notin Coming
    BY <1>2 DEF StrayInv
  <2>5. QED
    BY <2>1, <2>2, <2>3, <2>4 DEF StrayInv
<1>12. LogInv'
  <2>1. faults' = faults
    BY <1>1 DEF updater
  <2>2. payloads \subseteq payloads'
    BY <1>2
  <2>3. QED
    BY <1>1, <1>4, <1>6, <2>1, <2>2 DEF LogInv
<1>13. QueueInv'
  <2>1. seen' = seen /\ faults' = faults
    BY <1>1 DEF updater
  <2>2. QED
    BY <1>4, <1>6, <1>10, <2>1 DEF QueueInv
<1>14. QED
  BY <1>6, <1>7, <1>8, <1>9, <1>11, <1>12, <1>13

(* What cannot be extracted does not load, is gone, or met a fault.        *)
LEMMA ExtractFailsKeeps ==
  ASSUME CatalogInv, ExtractFails
  PROVE  CatalogInv'
<1> DEFINE g == catalog.pending
<1> USE DEF CatalogInv
<1>1. UNCHANGED <<channel, root, seen, offered, status, job>>
      /\ UNCHANGED <<payloads, backend, restarts>>
  BY DEF ExtractFails
<1>2. /\ worker.pc = "activate" /\ g # NoGen /\ g \in Generations
      /\ worker' = [worker EXCEPT !.pc = "recover", !.gen = g]
  BY DEF ExtractFails, Takes, At, LoopInv, CatalogTypes, CatalogType, GenOrNone
<1>3. worker' \in WorkerType /\ worker'.pc = "recover" /\ worker'.gen = g
  BY <1>2 DEF CatalogTypes, WorkerType, WorkerPc, GenOrNone
<1>4. /\ catalog' \in CatalogType /\ catalog'.booted = catalog.booted
      /\ catalog'.pending = NoGen /\ catalog'.bootQueue = catalog.bootQueue
      /\ catalog'.loaded = catalog.loaded /\ catalog'.log = catalog.log
  BY DEF ExtractFails, Takes, CatalogTypes, CatalogType, GenOrNone
<1>5. /\ faults' = faults \/ Fault
      /\ record' = catalog.log \/ (record' = record /\ faults' # faults)
      /\ faults' = faults => ~Ensures(g)
  BY DEF ExtractFails, Persist, Fault, UpdaterTypes
<1>6. faults' \in Nat /\ (faults' = 0 => faults = 0) /\ (faults' = faults \/ faults' # 0)
  BY <1>5, FaultStep
<1>7. /\ UpdaterTypes' /\ JobInv'
      /\ InRoot' = InRoot /\ Offering' = Offering /\ Range(offered)' = Range(offered)
  BY <1>1, <1>6, HostStep
<1>8. CatalogTypes'
  BY <1>1, <1>3, <1>4, <1>5 DEF CatalogTypes, CatalogType
<1>9. LoopInv'
  <2>1. catalog.booted /\ ~backend.live
    BY <1>2 DEF LoopInv
  <2>2. QED
    BY <1>1, <1>3, <1>4, <2>1 DEF LoopInv, LoadedIsResident, At
<1>10. CandidateInv'
  BY <1>3, <1>4 DEF CandidateInv
<1>11. Swapping' = {} /\ Swapping = {}
  BY <1>2, <1>3 DEF Swapping
<1>12. StrayInv'
  <2>1. Coming' \subseteq Coming \cup {NoGen}
    BY <1>4, <1>7, <1>11 DEF Coming
  <2>2. NoGen \notin payloads
    BY GenerationAssumption DEF CatalogTypes
  <2>3. QED
    BY <1>1, <1>2, <1>7, <2>1, <2>2 DEF StrayInv
<1>13. LogInv'
  <2>1. \A log \in {catalog'.log, record'} : log.previous # NoGen => log.previous # log.active
    BY <1>4, <1>5 DEF LogInv
  <2>2. QED
    BY <1>1, <1>4, <1>5, <1>6, <1>7, <2>1 DEF LogInv
<1>14. QueueInv'
  <2> SUFFICES ASSUME catalog.booted, catalog.loaded = NoGen, seen = {}, faults' = 0
               PROVE  InRoot \ Offering \subseteq
                        Broken \cup Unloadable \cup Range(catalog.bootQueue) \cup {NoGen}
    BY <1>1, <1>4, <1>7, <1>11 DEF QueueInv
  <2>1. g \in Broken \/ g \notin InRoot
    BY <1>5, <1>6 DEF Ensures
  <2>2. InRoot \ Offering \subseteq
          Broken \cup Unloadable \cup Range(catalog.bootQueue) \cup {g}
    BY <1>6, <1>11 DEF QueueInv
  <2>3. QED
    BY <2>1, <2>2
<1>15. QED
  BY <1>7, <1>8, <1>9, <1>10, <1>12, <1>13, <1>14


(* The record's two generations stay apart when one is activated. *)
LEMMA ActivatedFact ==
  ASSUME NEW log \in Log, NEW g \in Generations
  PROVE  /\ Activated(log, g) \in Log /\ Activated(log, g).active = g
         /\ Activated(log, g).previous \in {log.previous, log.active}
         /\ /\ log.previous # NoGen => log.previous # log.active
            /\ Activated(log, g).previous # NoGen
            => Activated(log, g).previous # g
<1>1. CASE log.active = g
  BY <1>1 DEF Activated, Log
<1>2. CASE log.active # g
  BY <1>2 DEF Activated, Log, GenOrNone
<1>3. QED
  BY <1>1, <1>2

(* The set that loads becomes the loaded one, and what it displaces the    *)
(* one to fall back to.                                                    *)
LEMMA AcceptKeeps ==
  ASSUME CatalogInv, Accept
  PROVE  CatalogInv'
<1> DEFINE g == worker.gen
<1> USE DEF CatalogInv
<1>1. UNCHANGED <<channel, root, seen, offered, status, job>> /\ UNCHANGED <<payloads, restarts>>
  BY DEF Accept
<1>2. /\ worker.pc = "swap" /\ catalog.booted /\ catalog.pending = NoGen
      /\ g # NoGen /\ g \in payloads \ Broken /\ g \notin Unloadable /\ g \in Generations
  BY DEF Accept, At, LoopInv, CatalogTypes
<1>3. worker' \in WorkerType /\ worker'.pc = "collect" /\ worker'.gen = g
  BY DEF Accept, Go, CatalogTypes, WorkerType, WorkerPc
<1>4. /\ backend' = Holds(g, TRUE) /\ backend' \in BackendType
      /\ backend'.set = [of |-> g, whole |-> TRUE] /\ ~backend'.live
  BY <1>2 DEF Accept, Holds, BackendType, GenOrNone
<1>5. /\ catalog' \in CatalogType /\ catalog'.booted /\ catalog'.pending = NoGen
      /\ catalog'.bootQueue = <<>> /\ catalog'.loaded = g
      /\ catalog'.log = Activated(catalog.log, g)
  <2>1. <<>> \in Seq(Generations) /\ g \in GenOrNone /\ catalog.log \in Log
    BY <1>2 DEF GenOrNone, CatalogTypes, CatalogType
  <2>2. Activated(catalog.log, g) \in Log
    BY <1>2, <2>1, ActivatedFact
  <2>3. catalog' = [catalog EXCEPT !.loaded = g, !.bootQueue = <<>>,
                                   !.log = Activated(catalog.log, g)]
    BY DEF Accept, CatalogTypes, CatalogType
  <2>4. QED
    BY <1>2, <2>1, <2>2, <2>3 DEF CatalogTypes, CatalogType
<1>6. /\ faults' = faults \/ Fault
      /\ record' = catalog'.log \/ (record' = record /\ faults' # faults)
  BY DEF Accept, Persist, Fault, UpdaterTypes
<1>7. faults' \in Nat /\ (faults' = 0 => faults = 0) /\ (faults' = faults \/ faults' # 0)
  BY <1>6, FaultStep
<1>8. /\ UpdaterTypes' /\ JobInv'
      /\ InRoot' = InRoot /\ Offering' = Offering /\ Range(offered)' = Range(offered)
  BY <1>1, <1>7, HostStep
<1>9. g \in InRoot
  <2>1. g \in Coming
    BY <1>2 DEF Coming, Swapping
  <2>2. QED
    BY <1>2, <2>1 DEF StrayInv
<1>10. CatalogTypes'
  BY <1>1, <1>3, <1>4, <1>5, <1>6 DEF CatalogTypes, CatalogType
<1>11. /\ catalog.log \in Log /\ catalog'.log \in Log /\ catalog'.log.active = g
       /\ catalog'.log.previous \in {catalog.log.previous, catalog.log.active}
       /\ catalog'.log.previous # NoGen => catalog'.log.previous # g
  BY <1>2, <1>5, ActivatedFact DEF CatalogTypes, CatalogType, LogInv
<1>12. LoopInv'
  BY <1>2, <1>3, <1>4, <1>5, <1>11 DEF LoopInv, LoadedIsResident, At
<1>13. CandidateInv'
  BY <1>2, <1>5 DEF CandidateInv
<1>14. StrayInv'
  <2>1. Coming' \subseteq Coming
    <3>1. Range(<<>>) = {} /\ Swapping' = {}
      BY <1>3 DEF Range, Swapping
    <3>2. Range(catalog'.bootQueue) = {}
      BY <1>5, <3>1
    <3>3. QED
      BY <1>2, <1>5, <1>8, <3>1, <3>2 DEF Coming
  <2>2. \A h \in payloads \ InRoot : h \notin Coming
    BY <1>2 DEF StrayInv
  <2>3. QED
    BY <1>1, <1>8, <2>1, <2>2 DEF StrayInv
<1>15. LogInv'
  <2>1. catalog'.loaded \in InRoot' \cap payloads'
    BY <1>1, <1>2, <1>5, <1>8, <1>9
  <2>2. \A log \in {catalog'.log, record'} : log.previous # NoGen => log.previous # log.active
    BY <1>6, <1>11 DEF LogInv
  <2>3. ASSUME faults' = 0
        PROVE  /\ record' = catalog'.log
               /\ {record'.active, record'.previous} \subseteq InRoot' \cup {NoGen}
    <3>1. faults = 0 /\ record' = catalog'.log
      BY <1>6, <1>7, <2>3
    <3>2. {catalog.log.active, catalog.log.previous} \subseteq InRoot \cup {NoGen}
      BY <3>1 DEF LogInv
    <3>3. QED
      BY <1>8, <1>9, <1>11, <3>1, <3>2
  <2>4. QED
    BY <2>1, <2>2, <2>3 DEF LogInv
<1>16. QueueInv'
  BY <1>2, <1>5 DEF QueueInv
<1>17. QED
  BY <1>8, <1>10, <1>12, <1>13, <1>14, <1>15, <1>16

LEMMA RefuseKeeps ==
  ASSUME CatalogInv, Refuse
  PROVE  CatalogInv'
<1> DEFINE g == worker.gen
<1> USE DEF CatalogInv
<1>1. /\ UNCHANGED <<channel, root, seen, offered, status, job>>
      /\ UNCHANGED <<catalog, payloads, restarts>>
  BY DEF Refuse
<1>2. worker.pc = "swap" /\ catalog.booted /\ catalog.pending = NoGen /\ g \in GenOrNone
  BY DEF Refuse, At, LoopInv, CatalogTypes, WorkerType
<1>3. worker' \in WorkerType /\ worker'.pc = "recover" /\ worker'.gen = g
  BY DEF Refuse, Go, CatalogTypes, WorkerType, WorkerPc
<1>4. backend' \in BackendType /\ ~backend'.live
  BY <1>2 DEF Refuse, Holds, BackendType
<1>5. /\ faults' = faults \/ Fault
      /\ record' = catalog.log \/ (record' = record /\ faults' # faults)
      /\ faults' = faults => g \in Unloadable
  BY DEF Refuse, Persist, Fault, UpdaterTypes
<1>6. faults' \in Nat /\ (faults' = 0 => faults = 0) /\ (faults' = faults \/ faults' # 0)
  BY <1>5, FaultStep
<1>7. /\ UpdaterTypes' /\ JobInv'
      /\ InRoot' = InRoot /\ Offering' = Offering /\ Range(offered)' = Range(offered)
  BY <1>1, <1>6, HostStep
<1>8. CatalogTypes'
  BY <1>1, <1>3, <1>4, <1>5 DEF CatalogTypes, CatalogType
<1>9. LoopInv' /\ CandidateInv'
  BY <1>1, <1>2, <1>3, <1>4 DEF LoopInv, LoadedIsResident, At, CandidateInv
<1>10. Swapping' = {} /\ Swapping = {g}
  BY <1>2, <1>3 DEF Swapping
<1>11. StrayInv'
  <2>1. Coming' \subseteq Coming
    BY <1>1, <1>7, <1>10 DEF Coming
  <2>2. \A h \in payloads \ InRoot : h \notin Coming
    BY <1>2 DEF StrayInv
  <2>3. QED
    BY <1>1, <1>7, <2>1, <2>2 DEF StrayInv
<1>12. LogInv'
  <2>1. \A log \in {catalog'.log, record'} : log.previous # NoGen => log.previous # log.active
    BY <1>1, <1>5 DEF LogInv
  <2>2. QED
    BY <1>1, <1>5, <1>6, <1>7, <2>1 DEF LogInv
<1>13. QueueInv'
  BY <1>1, <1>5, <1>6, <1>7, <1>10 DEF QueueInv
<1>14. QED
  BY <1>7, <1>8, <1>9, <1>11, <1>12, <1>13


-----------------------------------------------------------------------------
(* Recovery. *)

LEMMA NextCandidateKeeps ==
  ASSUME CatalogInv, NextCandidate
  PROVE  CatalogInv'
<1> USE DEF CatalogInv
<1>1. UNCHANGED updater /\ UNCHANGED <<payloads, record, restarts>>
  BY DEF NextCandidate
<1>2. worker' \in WorkerType /\ worker'.pc \in {"command", "open"} /\ worker.pc = "recover"
  BY DoneFact DEF NextCandidate, At
<1>3. /\ backend' \in BackendType /\ backend'.set = NoSet /\ ~backend'.live
  BY DEF NextCandidate, HoldsNothing, NoSet, BackendType, GenOrNone
<1>4. catalog.loaded = NoGen /\ catalog.pending = NoGen /\ catalog.booted
  BY <1>2 DEF NextCandidate, LoopInv
<1>5. /\ catalog' \in CatalogType /\ catalog'.booted /\ catalog'.loaded = NoGen
      /\ catalog'.log = catalog.log
      /\ Range(catalog.bootQueue) \subseteq Waiting(catalog')
      /\ Waiting(catalog') \subseteq Range(catalog.bootQueue) \cup {NoGen}
      /\ catalog'.pending = NoGen => catalog'.bootQueue = <<>>
  BY <1>4, PoppedFact DEF NextCandidate, CatalogTypes
<1>6. /\ UpdaterTypes' /\ JobInv' /\ seen' = seen /\ faults' = faults
      /\ InRoot' = InRoot /\ Offering' = Offering /\ Range(offered)' = Range(offered)
  <2>1. UNCHANGED <<channel, root, seen, offered, status, job, faults>>
    BY <1>1 DEF updater
  <2>2. QED
    BY <2>1, HostStep DEF UpdaterTypes
<1>7. CatalogTypes'
  BY <1>1, <1>2, <1>3, <1>5 DEF CatalogTypes
<1>8. LoopInv'
  BY <1>2, <1>3, <1>5 DEF LoopInv, LoadedIsResident, At
<1>9. CandidateInv'
  BY <1>4, <1>5 DEF CandidateInv
<1>10. Swapping' = {} /\ Swapping = {}
  BY <1>2 DEF Swapping
<1>11. StrayInv'
  <2>1. Coming' \subseteq Coming \cup {NoGen}
    BY <1>5, <1>6, <1>10 DEF Coming, Waiting
  <2>2. NoGen \notin payloads
    BY GenerationAssumption DEF CatalogTypes
  <2>3. \A h \in payloads \ InRoot : h \notin Coming
    BY <1>2 DEF StrayInv
  <2>4. QED
    BY <1>1, <1>6, <2>1, <2>2, <2>3 DEF StrayInv
<1>12. LogInv'
  BY <1>1, <1>5, <1>6 DEF LogInv
<1>13. QueueInv'
  <2> SUFFICES ASSUME seen = {}, faults = 0
               PROVE  InRoot \ Offering \subseteq Broken \cup Unloadable \cup Waiting(catalog')
    BY <1>6, <1>10 DEF QueueInv, Waiting
  <2>1. InRoot \ Offering \subseteq
          Broken \cup Unloadable \cup Range(catalog.bootQueue) \cup {NoGen}
    BY <1>4, <1>10 DEF QueueInv
  <2>2. NoGen \notin InRoot
    <3>1. \A i \in DOMAIN root : root[i] \in Generations
      BY LenProperties, ElementOfSeq DEF UpdaterTypes
    <3>2. QED
      BY <3>1, GenerationAssumption DEF InRoot
  <2>3. QED
    BY <1>5, <2>1, <2>2
<1>14. QED
  BY <1>6, <1>7, <1>8, <1>9, <1>11, <1>12, <1>13

(* The set before it is loaded again. *)
LEMMA FallBackKeeps ==
  ASSUME CatalogInv, FallBack
  PROVE  CatalogInv'
<1> DEFINE g == catalog.loaded
<1> USE DEF CatalogInv
<1>1. UNCHANGED <<channel, root, seen, offered, status, job>> /\ UNCHANGED <<catalog, restarts>>
  BY DEF FallBack
<1>2. worker' \in WorkerType /\ worker'.pc \in {"command", "open"} /\ worker.pc = "recover"
  BY DoneFact DEF FallBack, At
<1>3. /\ g # NoGen /\ g \in InRoot /\ g \in Generations /\ payloads' = payloads \cup {g}
      /\ catalog.booted /\ catalog.bootQueue = <<>>
  <2>1. g \in GenOrNone
    BY DEF CatalogTypes, CatalogType
  <2>2. QED
    BY <2>1 DEF FallBack, GenOrNone, CandidateInv
<1>4. /\ backend' \in BackendType /\ backend'.set = [of |-> g, whole |-> TRUE]
      /\ ~backend'.live
  BY <1>3 DEF FallBack, Holds, BackendType, GenOrNone
<1>5. /\ faults' = faults \/ Fault
      /\ record' = catalog.log \/ (record' = record /\ faults' # faults)
  BY DEF FallBack, Persist, Fault, UpdaterTypes
<1>6. faults' \in Nat /\ (faults' = 0 => faults = 0) /\ (faults' = faults \/ faults' # 0)
  BY <1>5, FaultStep
<1>7. /\ UpdaterTypes' /\ JobInv'
      /\ InRoot' = InRoot /\ Offering' = Offering /\ Range(offered)' = Range(offered)
  BY <1>1, <1>6, HostStep
<1>8. CatalogTypes'
  BY <1>1, <1>2, <1>3, <1>4, <1>5 DEF CatalogTypes, CatalogType
<1>9. LoopInv' /\ CandidateInv'
  BY <1>1, <1>2, <1>3, <1>4 DEF LoopInv, LoadedIsResident, At, CandidateInv
<1>10. StrayInv'
  <2>1. Swapping' = {} /\ Swapping = {}
    BY <1>2 DEF Swapping
  <2>2. Coming' = Coming
    BY <1>1, <1>7, <2>1 DEF Coming
  <2>3. \A h \in payloads \ InRoot : h \notin Coming
    BY <1>2 DEF StrayInv
  <2>4. payloads' \ InRoot' = payloads \ InRoot
    BY <1>3, <1>7
  <2>5. QED
    BY <2>2, <2>3, <2>4 DEF StrayInv
<1>11. LogInv'
  <2>1. \A log \in {catalog'.log, record'} : log.previous # NoGen => log.previous # log.active
    BY <1>1, <1>5 DEF LogInv
  <2>2. catalog'.loaded \in InRoot' \cap payloads'
    BY <1>1, <1>3, <1>7
  <2>3. QED
    BY <1>1, <1>5, <1>6, <1>7, <2>1, <2>2 DEF LogInv
<1>12. QueueInv'
  BY <1>1, <1>3 DEF QueueInv
<1>13. QED
  BY <1>7, <1>8, <1>9, <1>10, <1>11, <1>12

(* Without a fault the set before it loads: it has loaded, and is kept.    *)
LEMMA GiveUpKeeps ==
  ASSUME CatalogInv, GiveUp
  PROVE  CatalogInv'
<1> DEFINE g == catalog.loaded
<1> USE DEF CatalogInv
<1>1. /\ UNCHANGED <<channel, root, seen, offered, status, job>>
      /\ UNCHANGED <<payloads, restarts>>
  BY DEF GiveUp
<1>2. worker' \in WorkerType /\ worker'.pc \in {"command", "open"} /\ worker.pc = "recover"
  BY DoneFact DEF GiveUp, At
<1>3. /\ g # NoGen /\ g \in InRoot /\ g \in payloads /\ g \notin Broken \cup Unloadable
      /\ catalog.booted /\ catalog.bootQueue = <<>> /\ catalog.pending = NoGen
  BY <1>2 DEF GiveUp, LogInv, CandidateInv, LoopInv
<1>4. /\ backend' \in BackendType /\ backend'.set = NoSet /\ ~backend'.live
  BY DEF GiveUp, HoldsNothing, NoSet, BackendType, GenOrNone
<1>5. /\ catalog' \in CatalogType /\ catalog'.booted /\ catalog'.loaded = NoGen
      /\ catalog'.log = catalog.log /\ catalog'.bootQueue = <<>> /\ catalog'.pending = NoGen
  BY <1>3 DEF GiveUp, CatalogTypes, CatalogType, GenOrNone
<1>6. faults' # faults /\ Fault /\ record' = record
  BY <1>3 DEF GiveUp, Ensures, Fault, UpdaterTypes
<1>7. faults' \in Nat /\ faults' # 0
  BY <1>6, FaultStep
<1>8. /\ UpdaterTypes' /\ JobInv'
      /\ InRoot' = InRoot /\ Offering' = Offering /\ Range(offered)' = Range(offered)
  BY <1>1, <1>7, HostStep
<1>9. CatalogTypes'
  BY <1>1, <1>2, <1>4, <1>5, <1>6 DEF CatalogTypes
<1>10. LoopInv'
  BY <1>2, <1>4, <1>5 DEF LoopInv, LoadedIsResident, At
<1>11. CandidateInv'
  BY <1>5, GenerationAssumption, CatalogAssumption DEF CandidateInv
<1>12. StrayInv'
  <2>1. Swapping' = {} /\ Swapping = {}
    BY <1>2 DEF Swapping
  <2>2. Coming' = Coming
    BY <1>3, <1>5, <1>8, <2>1 DEF Coming
  <2>3. \A h \in payloads \ InRoot : h \notin Coming
    BY <1>2 DEF StrayInv
  <2>4. QED
    BY <1>1, <1>8, <2>2, <2>3 DEF StrayInv
<1>13. LogInv'
  BY <1>5, <1>6, <1>7 DEF LogInv
<1>14. QueueInv'
  BY <1>7 DEF QueueInv
<1>15. QED
  BY <1>8, <1>9, <1>10, <1>11, <1>12, <1>13, <1>14

-----------------------------------------------------------------------------
(* Collection. *)

(* What is active and what is before it stay in the root. *)
LEMMA CollectKeeps ==
  ASSUME CatalogInv, Collect
  PROVE  CatalogInv'
<1> USE DEF CatalogInv
<1>1. /\ UNCHANGED <<channel, seen, offered, status, job>>
      /\ UNCHANGED <<catalog, payloads, record, backend, restarts>>
  BY DEF Collect
<1>2. /\ worker.pc = "collect" /\ worker' \in WorkerType /\ worker'.pc = "trees"
      /\ worker'.gen = worker.gen
  BY DEF Collect, At, Go, CatalogTypes, WorkerType, WorkerPc
<1>3. /\ worker.gen # NoGen /\ catalog.loaded = worker.gen
      /\ catalog.log.active = worker.gen
  BY <1>2 DEF LoopInv
<1>4. /\ root' \in Seq(Generations) /\ InRoot' \subseteq InRoot
      /\ InRoot \cap Live \subseteq InRoot'
  <2>1. /\ InRoot = Range(root) /\ InRoot' = Range(root')
    BY DEF InRoot, Range
  <2>2. CASE root' = root
    BY <2>2 DEF InRoot, UpdaterTypes
  <2>3. CASE root' = Retained(Live)
    <3>1. root' = Kept(root, Live \cup claims)
      BY <2>3 DEF Retained
    <3>2. root' \in Seq(Generations) /\ Range(root') = Range(root) \cap (Live \cup claims)
      BY <3>1, KeptFact DEF UpdaterTypes
    <3>3. QED
      BY <2>1, <3>2
  <2>4. QED
    BY <2>2, <2>3 DEF Collect
<1>5. faults' = faults \/ Fault
  BY DEF Collect
<1>6. faults' \in Nat /\ (faults' = 0 => faults = 0)
  BY <1>5, FaultStep
<1>7. UpdaterTypes' /\ JobInv' /\ Offering' = Offering /\ Range(offered)' = Range(offered)
  BY <1>1, <1>4, <1>6 DEF UpdaterTypes, JobInv, Offering
<1>8. CatalogTypes'
  BY <1>1, <1>2 DEF CatalogTypes
<1>9. LoopInv' /\ CandidateInv'
  BY <1>1, <1>2, <1>3 DEF LoopInv, LoadedIsResident, At, CandidateInv
<1>10. Live' = Live
  BY <1>1, <1>2 DEF Live
<1>11. StrayInv'
  <2>1. Swapping' = {} /\ Swapping = {}
    BY <1>2 DEF Swapping
  <2>2. Coming' = Coming
    BY <1>1, <1>7, <2>1 DEF Coming
  <2>3. \A h \in payloads \ InRoot : h \notin Coming
    BY <1>2 DEF StrayInv
  <2>4. QED
    BY <1>1, <1>2, <1>4, <1>10, <2>2, <2>3 DEF StrayInv
<1>12. worker.gen \in Live
  BY <1>3 DEF Live
<1>13. LogInv'
  <2>1. catalog'.loaded \in InRoot' \cap payloads'
    BY <1>1, <1>3, <1>4, <1>12 DEF LogInv
  <2>2. \A log \in {catalog'.log, record'} : log.previous # NoGen => log.previous # log.active
    BY <1>1 DEF LogInv
  <2>3. ASSUME faults' = 0
        PROVE  /\ record' = catalog'.log
               /\ {record'.active, record'.previous} \subseteq InRoot' \cup {NoGen}
    <3>1. /\ record = catalog.log
          /\ {record.active, record.previous} \subseteq InRoot \cup {NoGen}
      BY <1>6, <2>3 DEF LogInv
    <3>2. record.active \in Live /\ record.previous \in Live \cup {NoGen}
      BY <1>3, <1>12, <3>1 DEF Live
    <3>3. QED
      BY <1>1, <1>4, <3>1, <3>2
  <2>4. QED
    BY <2>1, <2>2, <2>3 DEF LogInv
<1>14. QueueInv'
  BY <1>1, <1>3 DEF QueueInv
<1>15. QED
  BY <1>7, <1>8, <1>9, <1>11, <1>13, <1>14

LEMMA CollectTreesKeeps ==
  ASSUME CatalogInv, CollectTrees
  PROVE  CatalogInv'
<1> USE DEF CatalogInv
<1>1. UNCHANGED updater /\ UNCHANGED <<catalog, record, backend, restarts>>
  BY DEF CollectTrees
<1>2. worker' \in WorkerType /\ worker'.pc \in {"command", "open"} /\ worker.pc = "trees"
  BY DoneFact DEF CollectTrees, At
<1>3. /\ worker.gen # NoGen /\ catalog.loaded = worker.gen
      /\ payloads' = payloads \cap Live /\ worker.gen \in Live
      /\ catalog.pending = NoGen => catalog.bootQueue = <<>>
  BY <1>2 DEF CollectTrees, LoopInv, Live, CandidateInv
<1>4. /\ UpdaterTypes' /\ JobInv' /\ faults' = faults
      /\ InRoot' = InRoot /\ Offering' = Offering /\ Range(offered)' = Range(offered)
  <2>1. UNCHANGED <<channel, root, seen, offered, status, job, faults>>
    BY <1>1 DEF updater
  <2>2. QED
    BY <2>1, HostStep DEF UpdaterTypes
<1>5. CatalogTypes'
  BY <1>1, <1>2, <1>3 DEF CatalogTypes
<1>6. LoopInv' /\ CandidateInv'
  <2>1. catalog.booted /\ ~backend.live
    BY <1>2 DEF LoopInv
  <2>2. QED
    BY <1>1, <1>2, <1>3, <2>1 DEF LoopInv, LoadedIsResident, At, CandidateInv
<1>7. StrayInv'
  <2>1. Swapping' = {} /\ Swapping = {}
    BY <1>2 DEF Swapping
  <2>2. Coming' = Coming
    BY <1>1, <1>4, <2>1 DEF Coming
  <2>3. \A h \in payloads' \ InRoot' : h \notin Coming
    BY <1>3, <1>4 DEF StrayInv
  <2>4. QED
    BY <2>2, <2>3 DEF StrayInv
<1>8. LogInv'
  BY <1>1, <1>3, <1>4 DEF LogInv
<1>9. QueueInv'
  BY <1>1, <1>3 DEF QueueInv
<1>10. QED
  BY <1>4, <1>5, <1>6, <1>7, <1>8, <1>9

(* The next process finds what is on disk, and nothing on its way. *)
LEMMA RestartKeeps ==
  ASSUME CatalogInv, Restart
  PROVE  CatalogInv'
<1> USE DEF CatalogInv
<1>1. /\ UNCHANGED <<channel, root, faults>> /\ UNCHANGED <<payloads, record>>
      /\ seen' = {} /\ offered' = <<>> /\ status' = NewStatus /\ job' = NoJob
  BY DEF Restart, Restarted
<1>2. /\ catalog' = NewCatalog(record) /\ backend' = HoldsNothing /\ worker' = NoWork
      /\ restarts' \in Nat
  BY DEF Restart, CatalogTypes
<1>3. Range(<<>>) = {} /\ <<>> \in Seq(Generations)
  BY DEF Range
<1>4. UpdaterTypes'
  BY <1>1, <1>3 DEF UpdaterTypes, NewStatus, StatusType, NoJob, JobType, JobPc, GenOrNone
<1>5. JobInv'
  BY <1>1, <1>3 DEF JobInv, NoJob, NewStatus
<1>6. /\ catalog' \in CatalogType /\ ~catalog'.booted /\ catalog'.bootQueue = <<>>
      /\ catalog'.pending = NoGen /\ catalog'.loaded = NoGen /\ catalog'.log = record
  BY <1>2, <1>3 DEF NewCatalog, CatalogType, CatalogTypes, GenOrNone
<1>7. /\ worker' \in WorkerType /\ worker'.pc = "command"
      /\ backend' \in BackendType /\ backend'.set = NoSet /\ ~backend'.live
  BY <1>2 DEF NoWork, WorkerType, WorkerPc, GenOrNone, HoldsNothing, NoSet, BackendType
<1>8. CatalogTypes'
  BY <1>1, <1>2, <1>6, <1>7 DEF CatalogTypes
<1>9. LoopInv'
  BY <1>6, <1>7 DEF LoopInv, LoadedIsResident, At
<1>10. CandidateInv'
  BY <1>6, GenerationAssumption, CatalogAssumption DEF CandidateInv
<1>11. StrayInv'
  <2>1. Swapping' = {} /\ Offering' = {}
    BY <1>1, <1>7 DEF Swapping, Offering, NoJob
  <2>2. Range(offered)' = {} /\ Range(catalog'.bootQueue) = {}
    BY <1>1, <1>3, <1>6
  <2>3. Coming' = {NoGen}
    BY <1>6, <2>1, <2>2 DEF Coming
  <2>4. NoGen \notin payloads'
    BY <1>8, GenerationAssumption DEF CatalogTypes
  <2>5. QED
    BY <2>3, <2>4 DEF StrayInv
<1>12. LogInv'
  <2>1. InRoot' = InRoot
    BY <1>1 DEF InRoot
  <2>2. QED
    BY <1>1, <1>6, <2>1 DEF LogInv
<1>13. QueueInv'
  BY <1>6 DEF QueueInv
<1>14. QED
  BY <1>4, <1>5, <1>8, <1>9, <1>10, <1>11, <1>12, <1>13

-----------------------------------------------------------------------------
(* The theorems. *)

LEMMA CatalogInit == Init => CatalogInv
<1> SUFFICES ASSUME Init PROVE CatalogInv
  OBVIOUS
<1> USE DEF Init
<1>1. Range(<<>>) = {} /\ <<>> \in Seq(Generations)
  BY DEF Range
<1>2. UpdaterTypes
  BY <1>1 DEF UpdaterTypes, Fresh, NewStatus, StatusType, NoJob, JobType, JobPc, GenOrNone
<1>3. JobInv
  BY <1>1 DEF JobInv, Fresh, NoJob, NewStatus
<1>4. CatalogTypes
  BY <1>1 DEF CatalogTypes, CatalogType, NewCatalog, NoRecord, Log, NoSet, BackendType,
              NoWork, WorkerType, WorkerPc, GenOrNone
<1>5. LoopInv
  BY DEF LoopInv, LoadedIsResident, At, NewCatalog, NoWork
<1>6. CandidateInv
  BY GenerationAssumption, CatalogAssumption DEF CandidateInv, NewCatalog
<1>7. StrayInv /\ LogInv /\ QueueInv
  BY DEF StrayInv, LogInv, NewCatalog, NoRecord, QueueInv
<1>8. QED
  BY <1>2, <1>3, <1>4, <1>5, <1>6, <1>7 DEF CatalogInv

LEMMA CatalogNext == CatalogInv /\ [Next]_vars => CatalogInv'
<1> SUFFICES ASSUME CatalogInv, [Next]_vars PROVE CatalogInv'
  OBVIOUS
<1>1. CASE NoCommand \/ Stop \/ CheckNow \/ Open
  BY <1>1, CommandKeeps
<1>2. CASE Play \/ Tick
  BY <1>2, BootKeeps
<1>3. CASE Take
  BY <1>3, TakeKeeps
<1>4. CASE AlreadyLoaded
  BY <1>4, AlreadyLoadedKeeps
<1>5. CASE Extract
  BY <1>5, ExtractKeeps
<1>6. CASE ExtractFails
  BY <1>6, ExtractFailsKeeps
<1>7. CASE Accept
  BY <1>7, AcceptKeeps
<1>8. CASE Refuse
  BY <1>8, RefuseKeeps
<1>9. CASE NextCandidate
  BY <1>9, NextCandidateKeeps
<1>10. CASE FallBack
  BY <1>10, FallBackKeeps
<1>11. CASE GiveUp
  BY <1>11, GiveUpKeeps
<1>12. CASE Collect
  BY <1>12, CollectKeeps
<1>13. CASE CollectTrees
  BY <1>13, CollectTreesKeeps
<1>14. CASE Restart
  BY <1>14, RestartKeeps
<1>15. CASE UpdaterThread \/ Clock \/ Publisher
  BY <1>15, UpdaterKeeps DEF UpdaterThread, Clock, Publisher
<1>16. CASE UNCHANGED vars
  BY <1>16, UpdaterKeeps DEF vars, host
<1>17. QED
  BY <1>1, <1>2, <1>3, <1>4, <1>5, <1>6, <1>7, <1>8, <1>9, <1>10, <1>11, <1>12, <1>13, <1>14,
     <1>15, <1>16 DEF Next, Worker

LEMMA CatalogInvariant == Spec => []CatalogInv
  BY CatalogInit, CatalogNext, PTL DEF Spec

(* activate, recover: whatever fails, and whatever the updater publishes   *)
(* meanwhile, the player holds the whole set of the generation the catalog *)
(* says is loaded, or none.                                                *)
THEOREM LoadedIsResidentHolds == Spec => []LoadedIsResident
<1>1. CatalogInv => LoadedIsResident
  BY DEF CatalogInv, LoopInv
<1>2. QED
  BY <1>1, CatalogInvariant, PTL

(* clean_up: across collections, failed writes and restarts, what is       *)
(* loaded stays on disk, and so does the generation before it while no     *)
(* write of the record was lost.                                           *)
THEOREM FallbackIsKeptHolds == Spec => []FallbackIsKept
<1>1. CatalogInv => FallbackIsKept
  BY DEF CatalogInv, LogInv, FallbackIsKept
<1>2. QED
  BY <1>1, CatalogInvariant, PTL

(* boot_once, recover: a process that has published nothing and is left    *)
(* with nothing loaded has tried every generation it found.                *)
THEOREM BootTriesAllHolds == Spec => []BootTriesAll
<1>1. CatalogInv => BootTriesAll
  <2> SUFFICES ASSUME CatalogInv, catalog.booted, At("command"), catalog.loaded = NoGen,
                      catalog.pending = NoGen, seen = {}, faults = 0
               PROVE  InRoot \ {job.plan} \subseteq Broken \cup Unloadable
    BY DEF BootTriesAll
  <2>1. catalog.bootQueue = <<>> /\ Swapping = {}
    BY DEF CatalogInv, CandidateInv, At, Swapping
  <2>2. Range(catalog.bootQueue) = {}
    BY <2>1 DEF Range
  <2>3. InRoot \ Offering \subseteq Broken \cup Unloadable \cup {NoGen}
    BY <2>1, <2>2 DEF CatalogInv, QueueInv
  <2>4. Offering \subseteq {job.plan}
    BY DEF Offering
  <2>5. NoGen \notin InRoot
    <3>1. \A i \in DOMAIN root : root[i] \in Generations
      BY LenProperties, ElementOfSeq DEF CatalogInv, UpdaterTypes
    <3>2. QED
      BY <3>1, GenerationAssumption DEF InRoot
  <2>6. QED
    BY <2>3, <2>4, <2>5
<1>2. QED
  BY <1>1, CatalogInvariant, PTL

(* tick, mount: no step of the process changes the set under a song, and   *)
(* only a command or the next mount ends one.                              *)
THEOREM SongKeepsItsSetHolds == Spec => SongKeepsItsSet
<1>1. CatalogInv /\ [Next]_vars =>
        (backend.live /\ restarts' = restarts =>
           /\ backend'.set = backend.set
           /\ ~backend'.live => worker.pc \in {"command", "open"})
  <2> SUFFICES ASSUME CatalogInv, [Next]_vars, backend.live, restarts' = restarts
               PROVE  /\ backend'.set = backend.set
                      /\ ~backend'.live => worker.pc \in {"command", "open"}
    OBVIOUS
  <2>1. /\ worker.pc \in {"command", "open", "tick", "take"}
        /\ backend \in BackendType /\ restarts \in Nat
    BY DEF CatalogInv, LoopInv, CatalogTypes
  <2>2. CASE NoCommand \/ Stop \/ Play \/ Open
    <3>1. /\ worker.pc \in {"command", "open"}
          /\ \/ UNCHANGED backend
             \/ \E live \in BOOLEAN : backend' = [backend EXCEPT !.live = live]
      BY <2>1, <2>2 DEF NoCommand, Stop, Play, Open, At, BackendType
    <3>2. backend'.set = backend.set
      BY <2>1, <3>1 DEF BackendType
    <3>3. QED
      BY <3>1, <3>2
  <2>3. CASE CheckNow \/ Tick \/ Take
    BY <2>3 DEF CheckNow, Tick, Take
  <2>4. CASE UpdaterThread \/ Clock \/ Publisher \/ UNCHANGED vars
    BY <2>4 DEF UpdaterThread, Clock, Publisher, host, vars
  <2>5. ~(\/ AlreadyLoaded \/ Extract \/ ExtractFails \/ Accept \/ Refuse
          \/ NextCandidate \/ FallBack \/ GiveUp \/ Collect \/ CollectTrees)
    BY <2>1 DEF AlreadyLoaded, Takes, Extract, ExtractFails, Accept, Refuse, NextCandidate,
                FallBack, GiveUp, Collect, CollectTrees, At
  <2>6. ~Restart
    BY <2>1 DEF Restart
  <2>7. QED
    BY <2>2, <2>3, <2>4, <2>5, <2>6 DEF Next, Worker
<1>2. QED
  BY <1>1, CatalogInvariant, PTL DEF Spec, SongKeepsItsSet

=============================================================================
