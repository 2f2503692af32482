-------------------------- MODULE InstallRootProofs --------------------------
(***************************************************************************)
(* Theorems about the install root, for any number of applies, generations *)
(* and artifacts.                                                          *)
(***************************************************************************)
EXTENDS InstallRoot, FiniteSetTheorems, TLAPS

(***************************************************************************)
(* The inductive invariants.                                               *)
(***************************************************************************)

(* An apply under way has a plan, and one that copies an artifact tracks it. *)
ApplyKnows ==
  \A a \in Appliers :
    /\ app[a].pc # "idle" => app[a].plan \in Generations
    /\ app[a].pc = "persist" => app[a].item \in Artifacts

(* The count of claims is the number of applies that hold one. *)
ClaimsCounted == \A g \in Generations : claims[g] = Cardinality(Holders(g))

(* Outside acquire and its drop an apply tracks no entry. *)
NothingTracked ==
  \A a \in Appliers :
    app[a].pc \notin {"acquire", "persist", "cancel", "drain"} => app[a].active = {}

(* What an apply has placed is still there, unless it claimed inside a     *)
(* collection; what it has dealt with is placed or in flight, and it       *)
(* starts from nothing.                                                    *)
Acquiring == {"acquire", "persist", "placed", "published"}

Kept(a) ==
  /\ app[a].pc \in Acquiring =>
       /\ ~app[a].late => /\ app[a].plan \in made
                          /\ app[a].placed \subseteq files[app[a].plan]
       /\ \A i \in Artifacts : i < app[a].next => i \in app[a].active \cup app[a].placed
  /\ app[a].pc \in {"placed", "published"} => Artifacts \subseteq app[a].placed
  /\ app[a].pc \in {"resolve", "claim", "mkdir"} => app[a].next = 1 /\ app[a].placed = {}

PlacedIsKept == \A a \in Appliers : Kept(a)

(* Whoever holds a generation being collected claimed it late; the record  *)
(* goes first, so that one there afterwards is such an apply's.            *)
CollectedIsLate ==
  \A g \in Generations :
    /\ Collecting(g) => \A a \in Holders(g) : app[a].late
    /\ Collecting(g) /\ janitor.pc # "unrecord" => g \notin record \ doubted

CollectionKnows ==
  janitor.pc \in {"unrecord", "open", "unlink"} => janitor.id \in Generations

TypeInv == TypeOK /\ ApplyKnows /\ ClaimsCounted /\ CollectionKnows

SlotInv == TypeInv /\ NothingTracked /\ SlotsAreTracked

WholeInv == SlotInv /\ PlacedIsKept /\ CollectedIsLate /\ RecordedIsWhole

(***************************************************************************)
(* Lemmas about claims.                                                    *)
(***************************************************************************)

(* A set of applies is finite and no larger than all of them. *)
LEMMA ApplierSets ==
  ASSUME NEW S, S \subseteq Appliers
  PROVE  IsFiniteSet(S) /\ Cardinality(S) \in 0..Cardinality(Appliers)
<1>1. IsFiniteSet(S) /\ Cardinality(S) <= Cardinality(Appliers)
  BY AppliersAssumption, FS_Subset
<1>2. Cardinality(S) \in Nat /\ Cardinality(Appliers) \in Nat
  BY <1>1, AppliersAssumption, FS_CardinalityType
<1>3. QED
  BY <1>1, <1>2

(* A step that starts no publish and ends none leaves the holders alone. *)
LEMMA SameHolders ==
  ASSUME NEW g,
         \A b \in Appliers :
           /\ app'[b].pc \in Holding <=> app[b].pc \in Holding
           /\ app[b].pc \in Holding => app'[b].plan = app[b].plan
  PROVE  Holders(g)' = Holders(g)
  BY DEF Holders, Holding

(* An apply that takes its claim is counted. *)
LEMMA HolderAdded ==
  ASSUME NEW S, S \subseteq Appliers, NEW a \in Appliers \ S
  PROVE  Cardinality(S \cup {a}) = Cardinality(S) + 1
  BY ApplierSets, FS_AddElement

(* An apply that releases its claim was counted. *)
LEMMA HolderRemoved ==
  ASSUME NEW S, S \subseteq Appliers, NEW a \in S
  PROVE  Cardinality(S \ {a}) = Cardinality(S) - 1
  BY ApplierSets, FS_RemoveElement

(***************************************************************************)
(* Types.                                                                  *)
(***************************************************************************)

(* The initial state has its types. *)
LEMMA TypeInit == Init => TypeInv
<1> SUFFICES ASSUME Init PROVE TypeInv
  OBVIOUS
<1>1. \A g \in Generations : Holders(g) = {}
  BY DEF Init, Holders, Holding, Idle
<1>2. ClaimsCounted
  BY <1>1, FS_EmptySet DEF ClaimsCounted, Init
<1>3. 0 \in 0..Cardinality(Appliers) /\ 0 \in 0..NumArtifacts /\ 1 \in 1..(NumArtifacts + 1)
  BY AppliersAssumption, PlanAssumption, FS_CardinalityType
<1>4. Idle \in Apply
  BY <1>3 DEF Idle, Apply, Pc
<1>5. Resting \in Collection
  BY DEF Resting, Collection
<1>6. TypeOK
  BY <1>3, <1>4, <1>5 DEF Init, TypeOK, EntryState
<1>7. ApplyKnows /\ CollectionKnows
  BY DEF Init, ApplyKnows, CollectionKnows, Idle, Resting
<1>8. QED
  BY <1>2, <1>6, <1>7 DEF TypeInv

(* A step of one apply that neither takes nor releases a claim keeps the   *)
(* count of claims and what applies know.                                  *)
LEMMA ApplyStep ==
  ASSUME TypeInv, NEW a \in Appliers, NEW r \in Apply,
         app' = [app EXCEPT ![a] = r], UNCHANGED <<claims, janitor>>,
         r.pc \in Holding <=> app[a].pc \in Holding,
         app[a].pc \in Holding => r.plan = app[a].plan,
         r.pc # "idle" => r.plan \in Generations,
         r.pc = "persist" => r.item \in Artifacts
  PROVE  /\ app' \in [Appliers -> Apply]
         /\ ApplyKnows' /\ ClaimsCounted' /\ CollectionKnows'
<1>1. app \in [Appliers -> Apply] /\ app' \in [Appliers -> Apply]
  BY DEF TypeInv, TypeOK
<1>2. \A b \in Appliers : app'[b] = IF b = a THEN r ELSE app[b]
  BY <1>1
<1>3. ApplyKnows'
  BY <1>2 DEF TypeInv, ApplyKnows
<1>4. \A g \in Generations : Holders(g)' = Holders(g)
  BY <1>2, SameHolders
<1>5. ClaimsCounted'
  BY <1>4 DEF TypeInv, ClaimsCounted
<1>6. CollectionKnows'
  BY DEF TypeInv, CollectionKnows
<1>7. QED
  BY <1>1, <1>3, <1>5, <1>6

(* Taking a claim adds a holder and a claim. *)
LEMMA ClaimTypes ==
  ASSUME TypeInv, NEW a \in Appliers, Claim(a)
  PROVE  TypeInv'
<1>1. app \in [Appliers -> Apply] /\ app[a].pc = "claim"
  BY DEF Claim, TypeInv, TypeOK
<1>2. PICK g \in Generations : app[a].plan = g
  BY <1>1 DEF TypeInv, ApplyKnows
<1> DEFINE r == [app[a] EXCEPT !.pc = "mkdir", !.late = Collecting(app[a].plan)]
<1>3. r \in Apply /\ r.pc = "mkdir" /\ r.plan = g
  BY <1>1, <1>2 DEF Apply, Pc, Collecting
<1>4. app' = [app EXCEPT ![a] = r] /\ claims' = [claims EXCEPT ![g] = @ + 1]
  BY <1>1, <1>2 DEF Claim, Become, Plan
<1>5. \A b \in Appliers : app'[b] = IF b = a THEN r ELSE app[b]
  BY <1>1, <1>4
<1>6. a \notin Holders(g) /\ Holders(g)' = Holders(g) \cup {a}
  BY <1>1, <1>2, <1>3, <1>5 DEF Holders, Holding
<1>7. \A h \in Generations : h # g => Holders(h)' = Holders(h)
  BY <1>1, <1>2, <1>3, <1>5 DEF Holders, Holding
<1>8. Cardinality(Holders(g)') = Cardinality(Holders(g)) + 1
  <2>1. Holders(g) \subseteq Appliers
    BY DEF Holders
  <2>2. Cardinality(Holders(g) \cup {a}) = Cardinality(Holders(g)) + 1
    BY <1>6, <2>1, HolderAdded
  <2>3. QED
    BY <1>6, <2>2
<1>9. claims \in [Generations -> 0..Cardinality(Appliers)]
  BY DEF TypeInv, TypeOK
<1>10. \A h \in Generations : claims'[h] = IF h = g THEN claims[h] + 1 ELSE claims[h]
  BY <1>4, <1>9
<1>11. \A h \in Generations : claims'[h] = Cardinality(Holders(h)')
  BY <1>7, <1>8, <1>10 DEF TypeInv, ClaimsCounted
<1>12. \A h \in Generations : Cardinality(Holders(h)') \in 0..Cardinality(Appliers)
  <2>1. \A h \in Generations : Holders(h)' \subseteq Appliers
    BY DEF Holders
  <2>2. QED
    BY <2>1, ApplierSets
<1>13. claims' \in [Generations -> 0..Cardinality(Appliers)]
  BY <1>4, <1>9, <1>11, <1>12
<1>14. app' \in [Appliers -> Apply] /\ ApplyKnows'
  BY <1>1, <1>2, <1>3, <1>4, <1>5 DEF TypeInv, ApplyKnows
<1>15. TypeOK' /\ CollectionKnows' /\ ClaimsCounted'
  BY <1>11, <1>13, <1>14
  DEF TypeInv, TypeOK, CollectionKnows, ClaimsCounted, Claim, disk
<1>16. QED
  BY <1>14, <1>15 DEF TypeInv

(* Releasing a claim removes a holder and the claim it had. *)
LEMMA ReleaseTypes ==
  ASSUME TypeInv, NEW a \in Appliers, ReleaseClaim(a)
  PROVE  TypeInv'
<1>1. app \in [Appliers -> Apply] /\ app[a].pc \in {"published", "refused"}
  BY DEF ReleaseClaim, TypeInv, TypeOK
<1>2. PICK g \in Generations : app[a].plan = g
  BY <1>1 DEF TypeInv, ApplyKnows
<1>3. PICK r \in Apply : app' = [app EXCEPT ![a] = r] /\ r.pc = "idle"
  <2>1. 0 \in 0..NumArtifacts /\ 1 \in 1..(NumArtifacts + 1)
    BY PlanAssumption
  <2>2. Idle \in Apply /\ Idle.pc = "idle"
    BY <2>1 DEF Idle, Apply, Pc
  <2>3. QED
    BY <2>2 DEF ReleaseClaim, Become
<1>4. claims' = [claims EXCEPT ![g] = @ - 1]
  BY <1>2 DEF ReleaseClaim, Released, Plan
<1>5. \A b \in Appliers : app'[b] = IF b = a THEN r ELSE app[b]
  BY <1>1, <1>3
<1>6. a \in Holders(g) /\ Holders(g)' = Holders(g) \ {a}
  BY <1>1, <1>2, <1>3, <1>5 DEF Holders, Holding
<1>7. \A h \in Generations : h # g => Holders(h)' = Holders(h)
  BY <1>1, <1>2, <1>3, <1>5 DEF Holders, Holding
<1>8. Cardinality(Holders(g)') = Cardinality(Holders(g)) - 1
  <2>1. Holders(g) \subseteq Appliers
    BY DEF Holders
  <2>2. Cardinality(Holders(g) \ {a}) = Cardinality(Holders(g)) - 1
    BY <1>6, <2>1, HolderRemoved
  <2>3. QED
    BY <1>6, <2>2
<1>9. claims \in [Generations -> 0..Cardinality(Appliers)]
  BY DEF TypeInv, TypeOK
<1>10. \A h \in Generations : claims'[h] = IF h = g THEN claims[h] - 1 ELSE claims[h]
  BY <1>4, <1>9
<1>11. \A h \in Generations : claims'[h] = Cardinality(Holders(h)')
  BY <1>7, <1>8, <1>10 DEF TypeInv, ClaimsCounted
<1>12. \A h \in Generations : Cardinality(Holders(h)') \in 0..Cardinality(Appliers)
  <2>1. \A h \in Generations : Holders(h)' \subseteq Appliers
    BY DEF Holders
  <2>2. QED
    BY <2>1, ApplierSets
<1>13. claims' \in [Generations -> 0..Cardinality(Appliers)]
  BY <1>4, <1>9, <1>11, <1>12
<1>14. app' \in [Appliers -> Apply] /\ ApplyKnows'
  BY <1>1, <1>3, <1>5 DEF TypeInv, ApplyKnows
<1>15. TypeOK' /\ CollectionKnows' /\ ClaimsCounted'
  BY <1>11, <1>13, <1>14
  DEF TypeInv, TypeOK, CollectionKnows, ClaimsCounted, ReleaseClaim, disk
<1>16. QED
  BY <1>14, <1>15 DEF TypeInv

(* A step that only moves an apply on. *)
LEMMA GotoStep ==
  ASSUME TypeInv, NEW a \in Appliers, NEW from \in Pc \ {"idle"},
         NEW to \in Pc \ {"idle", "persist"}, Goto(a, from, to),
         UNCHANGED <<claims, janitor>>, from \in Holding <=> to \in Holding
  PROVE  /\ app' \in [Appliers -> Apply]
         /\ ApplyKnows' /\ ClaimsCounted' /\ CollectionKnows'
<1> DEFINE r == [app[a] EXCEPT !.pc = to]
<1>1. app[a] \in Apply /\ app[a].pc = from /\ app[a].plan \in Generations
  BY DEF TypeInv, TypeOK, ApplyKnows, Goto
<1>2. r \in Apply /\ r.pc = to /\ r.plan = app[a].plan
  BY <1>1 DEF Apply
<1>3. app' = [app EXCEPT ![a] = r]
  BY DEF Goto
<1>4. QED
  BY <1>1, <1>2, <1>3, ApplyStep

(* The steps of an apply that leave the claims alone. *)
LEMMA PublishingTypes ==
  ASSUME TypeInv, NEW a \in Appliers, Publishing(a), ~Claim(a), ~ReleaseClaim(a)
  PROVE  TypeInv'
<1> USE DEF TypeInv
<1>1. app[a] \in Apply /\ 0 \in 0..NumArtifacts /\ 1 \in 1..(NumArtifacts + 1)
  BY PlanAssumption DEF TypeOK
<1>2. CASE ResolveInstalled(a)
  <2>1. Idle \in Apply /\ Idle.pc = "idle"
    BY <1>1 DEF Idle, Apply, Pc
  <2>2. app' = [app EXCEPT ![a] = Idle] /\ app[a].pc = "resolve"
    BY <1>2 DEF ResolveInstalled, Become
  <2>3. app' \in [Appliers -> Apply] /\ ApplyKnows' /\ ClaimsCounted' /\ CollectionKnows'
    BY <1>2, <2>1, <2>2, ApplyStep DEF ResolveInstalled, Holding
  <2>4. QED
    BY <1>2, <2>3 DEF TypeOK, ResolveInstalled, disk
<1>3. CASE ResolveMissing(a)
  <2>1. app' \in [Appliers -> Apply] /\ ApplyKnows' /\ ClaimsCounted' /\ CollectionKnows'
    BY <1>3, GotoStep DEF ResolveMissing, Pc, Holding
  <2>2. QED
    BY <1>3, <2>1 DEF TypeOK, ResolveMissing, disk
<1>4. CASE MakeDir(a)
  <2>1. app' \in [Appliers -> Apply] /\ ApplyKnows' /\ ClaimsCounted' /\ CollectionKnows'
    BY <1>4, GotoStep DEF MakeDir, Pc, Holding
  <2>2. app[a].plan \in Generations
    BY <1>4 DEF MakeDir, Goto, ApplyKnows
  <2>3. QED
    BY <1>4, <2>1, <2>2 DEF TypeOK, MakeDir, Plan
<1>5. CASE PublishFails(a)
  <2>1. Goto(a, app[a].pc, "refused") /\ app[a].pc \in {"mkdir", "placed"}
    BY <1>5 DEF PublishFails, Goto
  <2>2. app' \in [Appliers -> Apply] /\ ApplyKnows' /\ ClaimsCounted' /\ CollectionKnows'
    BY <1>5, <2>1, GotoStep DEF PublishFails, Pc, Holding
  <2>3. QED
    BY <1>5, <2>2 DEF TypeOK, PublishFails, disk
<1>6. CASE QueueArtifact(a)
  <2> DEFINE i == app[a].next
             r == [app[a] EXCEPT !.next = i + 1, !.active = @ \cup {i}]
  <2>1. i \in Artifacts /\ i + 1 \in 1..(NumArtifacts + 1) /\ app[a].pc = "acquire"
    BY <1>6, PlanAssumption DEF QueueArtifact, Artifacts
  <2>2. r \in Apply /\ r.pc = "acquire" /\ r.plan = app[a].plan
    BY <1>1, <2>1 DEF Apply
  <2>3. app' = [app EXCEPT ![a] = r]
    BY <1>6 DEF QueueArtifact, Become
  <2>4. app[a].plan \in Generations
    BY <2>1 DEF ApplyKnows
  <2>5. app' \in [Appliers -> Apply] /\ ApplyKnows' /\ ClaimsCounted' /\ CollectionKnows'
    BY <1>6, <2>1, <2>2, <2>3, <2>4, ApplyStep DEF QueueArtifact
  <2>6. entry' \in [Appliers -> [Artifacts -> EntryState]]
    BY <1>6, <2>1 DEF QueueArtifact, SetEntry, TypeOK, EntryState
  <2>7. QED
    BY <1>6, <2>5, <2>6 DEF TypeOK, QueueArtifact, disk
<1>7. ASSUME NEW i \in Artifacts, CopyArtifact(a, i) PROVE TypeInv'
  <2> DEFINE r == [app[a] EXCEPT !.pc = "persist", !.item = i]
  <2>1. app[a].pc = "acquire" /\ i \in 0..NumArtifacts
    BY <1>7, PlanAssumption DEF CopyArtifact, Artifacts
  <2>2. r \in Apply /\ r.pc = "persist" /\ r.plan = app[a].plan /\ r.item = i
    BY <1>1, <2>1 DEF Apply, Pc
  <2>3. app' = [app EXCEPT ![a] = r]
    BY <1>7 DEF CopyArtifact, Become
  <2>4. app[a].plan \in Generations
    BY <2>1 DEF ApplyKnows
  <2>5. app' \in [Appliers -> Apply] /\ ApplyKnows' /\ ClaimsCounted' /\ CollectionKnows'
    BY <1>7, <2>1, <2>2, <2>3, <2>4, ApplyStep DEF CopyArtifact, Holding
  <2>6. files' \in [Generations -> SUBSET Names] /\ made' \subseteq Generations
    BY <1>7, <2>4 DEF CopyArtifact, Plan, TypeOK, Names
  <2>7. QED
    BY <1>7, <2>5, <2>6 DEF TypeOK, CopyArtifact
<1>8. CASE PersistArtifact(a)
  <2> DEFINE i == app[a].item
             r == [app[a] EXCEPT !.pc = "acquire", !.active = @ \ {i}, !.placed = @ \cup {i}]
  <2>1. app[a].pc = "persist" /\ i \in Artifacts /\ app[a].plan \in Generations
    BY <1>8 DEF PersistArtifact, ApplyKnows
  <2>2. r \in Apply /\ r.pc = "acquire" /\ r.plan = app[a].plan
    BY <1>1, <2>1 DEF Apply, Pc
  <2>3. app' = [app EXCEPT ![a] = r]
    BY <1>8 DEF PersistArtifact, Become
  <2>4. app' \in [Appliers -> Apply] /\ ApplyKnows' /\ ClaimsCounted' /\ CollectionKnows'
    BY <1>8, <2>1, <2>2, <2>3, ApplyStep DEF PersistArtifact, Holding
  <2>5. entry' \in [Appliers -> [Artifacts -> EntryState]]
    BY <1>8, <2>1 DEF PersistArtifact, SetEntry, TypeOK, EntryState
  <2>6. files' \in [Generations -> SUBSET Names]
    BY <1>8, <2>1 DEF PersistArtifact, Plan, TypeOK, Names
  <2>7. QED
    BY <1>8, <2>4, <2>5, <2>6 DEF TypeOK, PersistArtifact
<1>9. CASE PersistFails(a)
  <2>1. app' \in [Appliers -> Apply] /\ ApplyKnows' /\ ClaimsCounted' /\ CollectionKnows'
    BY <1>9, GotoStep DEF PersistFails, Pc, Holding
  <2>2. files' \in [Generations -> SUBSET Names]
    BY <1>9 DEF PersistFails, TypeOK
  <2>3. QED
    BY <1>9, <2>1, <2>2 DEF TypeOK, PersistFails
<1>10. ASSUME NEW i \in Artifacts, RefuseArtifact(a, i) PROVE TypeInv'
  <2>1. app' \in [Appliers -> Apply] /\ ApplyKnows' /\ ClaimsCounted' /\ CollectionKnows'
    BY <1>10, GotoStep DEF RefuseArtifact, Pc, Holding
  <2>2. QED
    BY <1>10, <2>1 DEF TypeOK, RefuseArtifact, disk
<1>11. CASE AcquiredAll(a)
  <2>1. app' \in [Appliers -> Apply] /\ ApplyKnows' /\ ClaimsCounted' /\ CollectionKnows'
    BY <1>11, GotoStep DEF AcquiredAll, Pc, Holding
  <2>2. QED
    BY <1>11, <2>1 DEF TypeOK, AcquiredAll, disk
<1>12. CASE CancelActive(a)
  <2>1. app' \in [Appliers -> Apply] /\ ApplyKnows' /\ ClaimsCounted' /\ CollectionKnows'
    BY <1>12, GotoStep DEF CancelActive, Pc, Holding
  <2>2. \A s \in EntryState : Cancelling(s) \in EntryState
    BY DEF Cancelling, EntryState
  <2>3. entry' \in [Appliers -> [Artifacts -> EntryState]]
    BY <1>12, <2>2 DEF CancelActive, TypeOK
  <2>4. QED
    BY <1>12, <2>1, <2>3 DEF TypeOK, CancelActive, disk
<1>13. ASSUME NEW i \in Artifacts, RemoveActive(a, i) PROVE TypeInv'
  <2> DEFINE r == [app[a] EXCEPT !.active = @ \ {i}]
  <2>1. app[a].pc = "drain" /\ app[a].plan \in Generations
    BY <1>13 DEF RemoveActive, ApplyKnows
  <2>2. r \in Apply /\ r.pc = "drain" /\ r.plan = app[a].plan
    BY <1>1, <2>1 DEF Apply
  <2>3. app' = [app EXCEPT ![a] = r]
    BY <1>13 DEF RemoveActive, Become
  <2>4. app' \in [Appliers -> Apply] /\ ApplyKnows' /\ ClaimsCounted' /\ CollectionKnows'
    BY <1>13, <2>1, <2>2, <2>3, ApplyStep DEF RemoveActive
  <2>5. entry' \in [Appliers -> [Artifacts -> EntryState]]
    BY <1>13 DEF RemoveActive, SetEntry, TypeOK, EntryState
  <2>6. QED
    BY <1>13, <2>4, <2>5 DEF TypeOK, RemoveActive, disk
<1>14. CASE Drained(a)
  <2>1. app' \in [Appliers -> Apply] /\ ApplyKnows' /\ ClaimsCounted' /\ CollectionKnows'
    BY <1>14, GotoStep DEF Drained, Pc, Holding
  <2>2. QED
    BY <1>14, <2>1 DEF TypeOK, Drained, disk
<1>15. CASE WriteRecord(a)
  <2>1. app' \in [Appliers -> Apply] /\ ApplyKnows' /\ ClaimsCounted' /\ CollectionKnows'
    BY <1>15, GotoStep DEF WriteRecord, Pc, Holding
  <2>2. app[a].plan \in Generations
    BY <1>15 DEF WriteRecord, Goto, ApplyKnows
  <2>3. QED
    BY <1>15, <2>1, <2>2 DEF TypeOK, WriteRecord, Plan
<1>16. CASE RefuseRequest(a)
  <2>1. app' \in [Appliers -> Apply] /\ ApplyKnows' /\ ClaimsCounted' /\ CollectionKnows'
    BY <1>16, GotoStep DEF RefuseRequest, Pc, Holding
  <2>2. QED
    BY <1>16, <2>1 DEF TypeOK, RefuseRequest, disk
<1>17. QED
  BY <1>2, <1>3, <1>4, <1>5, <1>6, <1>7, <1>8, <1>9, <1>10, <1>11, <1>12, <1>13, <1>14,
     <1>15, <1>16 DEF Publishing, Advancing

(* Steps that leave every apply and every claim where they are keep what   *)
(* is known of both.                                                       *)
LEMMA AppliesRest ==
  ASSUME TypeInv, UNCHANGED <<app, claims>>
  PROVE  ApplyKnows' /\ ClaimsCounted'
  BY DEF TypeInv, ApplyKnows, ClaimsCounted, Holders

(* The queue's own steps, and the calls that cancel transfers.             *)
LEMMA QueueTypes ==
  ASSUME TypeInv,
         \/ \E a \in Appliers, i \in Artifacts : Transferring(a, i)
         \/ CancelAll
  PROVE  TypeInv'
<1>1. \A s \in EntryState : Cancelling(s) \in EntryState
  BY DEF Cancelling, EntryState
<1>2. entry' \in [Appliers -> [Artifacts -> EntryState]]
  <2>1. entry \in [Appliers -> [Artifacts -> EntryState]]
    BY DEF TypeInv, TypeOK
  <2>2. ASSUME NEW a \in Appliers, NEW i \in Artifacts, NEW s \in EntryState, SetEntry(a, i, s)
        PROVE  entry' \in [Appliers -> [Artifacts -> EntryState]]
    BY <2>1, <2>2 DEF SetEntry
  <2>3. ASSUME NEW a \in Appliers, NEW i \in Artifacts, Transferring(a, i)
        PROVE  \E s \in EntryState : SetEntry(a, i, s)
    BY <2>3 DEF Transferring, StartTransfer, SettleTransfer, EntryState
  <2>4. CASE CancelAll
    BY <1>1, <2>1, <2>4 DEF CancelAll
  <2>5. QED
    BY <2>2, <2>3, <2>4
<1>3. UNCHANGED <<disk, claims, app, janitor>>
  BY DEF Transferring, StartTransfer, SettleTransfer, CancelAll
<1>4. CollectionKnows'
  BY <1>3 DEF TypeInv, CollectionKnows
<1>5. QED
  BY <1>2, <1>3, <1>4, AppliesRest DEF TypeInv, TypeOK, disk

(* The steps of a collection. *)
LEMMA RetainTypes ==
  ASSUME TypeInv, (\E live \in SUBSET Generations : Retain(live)) \/ Retaining
  PROVE  TypeInv'
<1> USE DEF TypeInv, TypeOK, CollectionKnows
<1>1. Resting \in Collection /\ Resting.pc = "idle"
  BY DEF Resting, Collection
<1>2. ASSUME NEW live \in SUBSET Generations, Retain(live) PROVE TypeInv'
  <2>1. janitor' \in Collection /\ janitor'.pc = "next"
    BY <1>1, <1>2 DEF Retain, Resting, Collection
  <2>2. QED
    BY <1>2, <2>1, AppliesRest DEF Retain, disk
<1>3. ASSUME NEW g \in Generations, KeepGeneration(g) PROVE TypeInv'
  <2>1. janitor' \in Collection /\ janitor'.pc = "next"
    BY <1>3 DEF KeepGeneration, Collection
  <2>2. QED
    BY <1>3, <2>1, AppliesRest DEF KeepGeneration, disk
<1>4. ASSUME NEW g \in Generations, CollectGeneration(g) PROVE TypeInv'
  <2>1. janitor' \in Collection /\ janitor'.id = g
    BY <1>4 DEF CollectGeneration, Collection
  <2>2. QED
    BY <1>4, <2>1, AppliesRest DEF CollectGeneration, disk
<1>5. CASE RemoveRecord
  <2>1. janitor' \in Collection /\ janitor'.id = janitor.id
    BY <1>5 DEF RemoveRecord, Collection
  <2>2. QED
    BY <1>5, <2>1, AppliesRest DEF RemoveRecord
<1>6. CASE OpenDir
  <2>1. janitor.id \in Generations
    BY <1>6 DEF OpenDir
  <2>2. janitor' \in Collection /\ (janitor'.pc = "next" \/ janitor'.id = janitor.id)
    BY <1>6, <2>1 DEF OpenDir, Collection
  <2>3. QED
    BY <1>6, <2>1, <2>2, AppliesRest DEF OpenDir, disk
<1>7. ASSUME NEW name \in Names, UnlinkFile(name) PROVE TypeInv'
  <2>1. janitor.id \in Generations
    BY <1>7 DEF UnlinkFile
  <2>2. janitor' \in Collection /\ janitor'.id = janitor.id
    BY <1>7 DEF UnlinkFile, Collection
  <2>3. files' \in [Generations -> SUBSET Names]
    BY <1>7, <2>1 DEF UnlinkFile
  <2>4. QED
    BY <1>7, <2>1, <2>2, <2>3, AppliesRest DEF UnlinkFile
<1>8. CASE RemoveDir
  <2>1. janitor' \in Collection /\ janitor'.pc \in {"next", "idle"}
    BY <1>1, <1>8 DEF RemoveDir, Collection
  <2>2. made' \subseteq Generations
    BY <1>8 DEF RemoveDir
  <2>3. QED
    BY <1>8, <2>1, <2>2, AppliesRest DEF RemoveDir
<1>9. CASE RetainFails \/ RetainDone
  BY <1>1, <1>9, AppliesRest DEF RetainFails, RetainDone, disk
<1>10. QED
  BY <1>2, <1>3, <1>4, <1>5, <1>6, <1>7, <1>8, <1>9 DEF Retaining

(* After a crash nobody holds a claim. *)
LEMMA CrashTypes ==
  ASSUME TypeInv, Crash
  PROVE  TypeInv'
<1>1. 0 \in 0..Cardinality(Appliers) /\ 0 \in 0..NumArtifacts /\ 1 \in 1..(NumArtifacts + 1)
  BY AppliersAssumption, PlanAssumption, FS_CardinalityType
<1>2. Idle \in Apply /\ Idle.pc = "idle"
  BY <1>1 DEF Idle, Apply, Pc
<1>3. Resting \in Collection /\ Resting.pc = "idle"
  BY DEF Resting, Collection
<1>4. TypeOK'
  BY <1>1, <1>2, <1>3 DEF TypeInv, TypeOK, Crash, EntryState, disk
<1>5. \A g \in Generations : Holders(g)' = {}
  BY <1>2 DEF Crash, Holders, Holding
<1>6. ClaimsCounted'
  BY <1>5, FS_EmptySet DEF Crash, ClaimsCounted
<1>7. ApplyKnows' /\ CollectionKnows'
  BY <1>2, <1>3 DEF Crash, ApplyKnows, CollectionKnows
<1>8. QED
  BY <1>4, <1>6, <1>7 DEF TypeInv

(* Every step keeps the types and the count of claims. *)
LEMMA TypeStep == TypeInv /\ [Next]_vars => TypeInv'
<1> SUFFICES ASSUME TypeInv, [Next]_vars PROVE TypeInv'
  OBVIOUS
<1>1. ASSUME NEW a \in Appliers, NEW g \in Generations, Begin(a, g) PROVE TypeInv'
  <2> DEFINE r == [Idle EXCEPT !.pc = "resolve", !.plan = g]
  <2>1. 0 \in 0..NumArtifacts /\ 1 \in 1..(NumArtifacts + 1)
    BY PlanAssumption
  <2>2. r \in Apply /\ r.pc = "resolve" /\ r.plan = g
    BY <2>1 DEF Idle, Apply, Pc
  <2>3. app' = [app EXCEPT ![a] = r] /\ app[a].pc = "idle"
    BY <1>1 DEF Begin, Become
  <2>4. app' \in [Appliers -> Apply] /\ ApplyKnows' /\ ClaimsCounted' /\ CollectionKnows'
    BY <1>1, <2>2, <2>3, ApplyStep DEF Begin, Holding
  <2>5. QED
    BY <1>1, <2>4 DEF TypeInv, TypeOK, Begin, disk
<1>2. ASSUME NEW a \in Appliers, Publishing(a) PROVE TypeInv'
  BY <1>2, ClaimTypes, ReleaseTypes, PublishingTypes
<1>3. CASE UNCHANGED vars
  BY <1>3, AppliesRest DEF vars, TypeInv, TypeOK, CollectionKnows
<1>4. QED
  BY <1>1, <1>2, <1>3, QueueTypes, RetainTypes, CrashTypes DEF Next

(* TypeOK, for every number of applies, generations and artifacts: every   *)
(* variable keeps its type and no claim outlives its apply (Publishing,    *)
(* released through the error paths of publish too).                       *)
THEOREM InstallTypes == Spec => []TypeOK
<1>1. TypeInv => TypeOK
  BY DEF TypeInv
<1>2. QED
  BY <1>1, TypeInit, TypeStep, PTL DEF Spec

(***************************************************************************)
(* Slots.                                                                  *)
(***************************************************************************)

(* A step of one apply that frees an entry when it stops tracking it.      *)
LEMMA TrackingStep ==
  ASSUME SlotInv, NEW a \in Appliers, NEW r,
         app' = [app EXCEPT ![a] = r],
         r.pc \notin {"acquire", "persist", "cancel", "drain"} => r.active = {},
         \A b \in Appliers \ {a} : entry'[b] = entry[b],
         \A i \in Artifacts : entry'[a][i] # "free" => i \in r.active
  PROVE  NothingTracked' /\ SlotsAreTracked'
<1>1. \A b \in Appliers : app'[b] = IF b = a THEN r ELSE app[b]
  BY DEF SlotInv, TypeInv, TypeOK
<1>2. NothingTracked'
  BY <1>1 DEF SlotInv, NothingTracked
<1>3. SlotsAreTracked'
  BY <1>1 DEF SlotInv, SlotsAreTracked
<1>4. QED
  BY <1>2, <1>3

(* A step that only moves an apply on, or ends it with nothing tracked,    *)
(* leaves its slots to it.                                                 *)
LEMMA TrackingKept ==
  ASSUME SlotInv, NEW a \in Appliers, NEW r, UNCHANGED entry,
         app' = [app EXCEPT ![a] = r], r.active = app[a].active,
         r.pc \notin {"acquire", "persist", "cancel", "drain"} => app[a].active = {}
  PROVE  NothingTracked' /\ SlotsAreTracked'
<1>1. \A i \in Artifacts : entry'[a][i] # "free" => i \in r.active
  BY DEF SlotInv, SlotsAreTracked
<1>2. QED
  BY <1>1, TrackingStep

(* The steps of an apply. *)
LEMMA PublishingTracks ==
  ASSUME SlotInv, NEW a \in Appliers, Publishing(a)
  PROVE  NothingTracked' /\ SlotsAreTracked'
<1>1. /\ app[a] \in Apply /\ entry \in [Appliers -> [Artifacts -> EntryState]]
      /\ app[a].pc \notin {"acquire", "persist", "cancel", "drain"} => app[a].active = {}
      /\ \A i \in Artifacts : entry[a][i] # "free" => i \in app[a].active
  BY DEF SlotInv, TypeInv, TypeOK, NothingTracked, SlotsAreTracked
<1>2. ASSUME NEW from, NEW to, Goto(a, from, to), UNCHANGED entry,
             to \notin {"acquire", "persist", "cancel", "drain"} => app[a].active = {}
      PROVE  NothingTracked' /\ SlotsAreTracked'
  <2> DEFINE r == [app[a] EXCEPT !.pc = to]
  <2>1. r.pc = to /\ r.active = app[a].active
    BY <1>1 DEF Apply
  <2>2. app' = [app EXCEPT ![a] = r]
    BY <1>2 DEF Goto
  <2>3. QED
    BY <1>2, <2>1, <2>2, TrackingKept
<1>3. CASE ResolveMissing(a)
  BY <1>1, <1>2, <1>3 DEF ResolveMissing, Goto
<1>4. CASE MakeDir(a) \/ AcquiredAll(a) \/ WriteRecord(a) \/ Drained(a)
  BY <1>1, <1>2, <1>4 DEF MakeDir, AcquiredAll, WriteRecord, Drained, Goto
<1>5. CASE PublishFails(a)
  <2>1. Goto(a, app[a].pc, "refused") /\ app[a].active = {} /\ UNCHANGED entry
    BY <1>1, <1>5 DEF PublishFails, Goto
  <2>2. QED
    BY <1>2, <2>1
<1>6. CASE PersistFails(a) \/ RefuseRequest(a)
  BY <1>1, <1>2, <1>6 DEF PersistFails, RefuseRequest
<1>7. ASSUME NEW i \in Artifacts, RefuseArtifact(a, i) PROVE NothingTracked' /\ SlotsAreTracked'
  BY <1>1, <1>2, <1>7 DEF RefuseArtifact
<1>8. CASE ResolveInstalled(a) \/ ReleaseClaim(a)
  <2>1. app[a].active = {} /\ UNCHANGED entry /\ Become(a, Idle) /\ Idle.active = {}
    BY <1>1, <1>8 DEF ResolveInstalled, ReleaseClaim, Idle
  <2>2. QED
    BY <2>1, TrackingKept DEF Become
<1>9. CASE QueueArtifact(a)
  <2> DEFINE i == app[a].next
             r == [app[a] EXCEPT !.next = i + 1, !.active = @ \cup {i}]
  <2>1. r.pc = "acquire" /\ r.active = app[a].active \cup {i} /\ i \in Artifacts
    BY <1>1, <1>9 DEF QueueArtifact, Apply
  <2>2. app' = [app EXCEPT ![a] = r] /\ entry' = [entry EXCEPT ![a][i] = "Pending"]
    BY <1>9 DEF QueueArtifact, Become, SetEntry
  <2>3. \A b \in Appliers \ {a} : entry'[b] = entry[b]
    BY <1>1, <2>2
  <2>4. \A j \in Artifacts : entry'[a][j] # "free" => j \in r.active
    BY <1>1, <2>1, <2>2
  <2>5. QED
    BY <2>1, <2>2, <2>3, <2>4, TrackingStep
<1>10. ASSUME NEW i \in Artifacts, CopyArtifact(a, i) PROVE NothingTracked' /\ SlotsAreTracked'
  <2> DEFINE r == [app[a] EXCEPT !.pc = "persist", !.item = i]
  <2>1. r.pc = "persist" /\ r.active = app[a].active
    BY <1>1 DEF Apply
  <2>2. app' = [app EXCEPT ![a] = r] /\ UNCHANGED entry
    BY <1>10 DEF CopyArtifact, Become
  <2>3. QED
    BY <2>1, <2>2, TrackingKept
<1>11. CASE PersistArtifact(a)
  <2> DEFINE i == app[a].item
             r == [app[a] EXCEPT !.pc = "acquire", !.active = @ \ {i}, !.placed = @ \cup {i}]
  <2>1. r.pc = "acquire" /\ r.active = app[a].active \ {i}
    BY <1>1 DEF Apply
  <2>2. app' = [app EXCEPT ![a] = r] /\ entry' = [entry EXCEPT ![a][i] = "free"]
    BY <1>11 DEF PersistArtifact, Become, SetEntry
  <2>3. \A b \in Appliers \ {a} : entry'[b] = entry[b]
    BY <1>1, <2>2
  <2>4. \A j \in Artifacts : entry'[a][j] # "free" => j \in r.active
    BY <1>1, <2>1, <2>2
  <2>5. QED
    BY <2>1, <2>2, <2>3, <2>4, TrackingStep
<1>12. CASE CancelActive(a)
  <2> DEFINE r == [app[a] EXCEPT !.pc = "drain"]
  <2>1. r.pc = "drain" /\ r.active = app[a].active
    BY <1>1 DEF Apply
  <2>2. app' = [app EXCEPT ![a] = r]
    BY <1>12 DEF CancelActive, Goto
  <2>3. /\ \A b \in Appliers \ {a} : entry'[b] = entry[b]
        /\ \A i \in Artifacts : entry'[a][i] = Cancelling(entry[a][i])
    BY <1>1, <1>12 DEF CancelActive
  <2>4. Cancelling("free") = "free"
    BY DEF Cancelling
  <2>5. \A i \in Artifacts : entry'[a][i] # "free" => i \in r.active
    BY <1>1, <2>1, <2>3, <2>4
  <2>6. QED
    BY <2>1, <2>2, <2>3, <2>5, TrackingStep
<1>13. ASSUME NEW i \in Artifacts, RemoveActive(a, i) PROVE NothingTracked' /\ SlotsAreTracked'
  <2> DEFINE r == [app[a] EXCEPT !.active = @ \ {i}]
  <2>1. r.pc = "drain" /\ r.active = app[a].active \ {i}
    BY <1>1, <1>13 DEF RemoveActive, Apply
  <2>2. app' = [app EXCEPT ![a] = r] /\ entry' = [entry EXCEPT ![a][i] = "free"]
    BY <1>13 DEF RemoveActive, Become, SetEntry
  <2>3. \A b \in Appliers \ {a} : entry'[b] = entry[b]
    BY <1>1, <2>2
  <2>4. \A j \in Artifacts : entry'[a][j] # "free" => j \in r.active
    BY <1>1, <2>1, <2>2
  <2>5. QED
    BY <2>1, <2>2, <2>3, <2>4, TrackingStep
<1>14. CASE Claim(a)
  <2> DEFINE r == [app[a] EXCEPT !.pc = "mkdir", !.late = Collecting(app[a].plan)]
  <2>1. r.pc = "mkdir" /\ r.active = app[a].active /\ app[a].active = {}
    BY <1>1, <1>14 DEF Claim, Apply
  <2>2. app' = [app EXCEPT ![a] = r] /\ UNCHANGED entry
    BY <1>14 DEF Claim, Become, Plan
  <2>3. QED
    BY <2>1, <2>2, TrackingKept
<1>15. QED
  BY <1>3, <1>4, <1>5, <1>6, <1>7, <1>8, <1>9, <1>10, <1>11, <1>12, <1>13, <1>14
  DEF Publishing, Advancing

(* Every step leaves each slot in use to an apply that tracks it. *)
LEMMA TrackingNext ==
  ASSUME SlotInv, [Next]_vars
  PROVE  NothingTracked' /\ SlotsAreTracked'
<1>1. entry \in [Appliers -> [Artifacts -> EntryState]]
  BY DEF SlotInv, TypeInv, TypeOK
<1>2. ASSUME UNCHANGED app, \A a \in Appliers, i \in Artifacts :
                              entry[a][i] = "free" => entry'[a][i] = "free"
      PROVE  NothingTracked' /\ SlotsAreTracked'
  BY <1>2 DEF SlotInv, NothingTracked, SlotsAreTracked
<1>3. ASSUME NEW a \in Appliers, NEW g \in Generations, Begin(a, g)
      PROVE  NothingTracked' /\ SlotsAreTracked'
  <2> DEFINE r == [Idle EXCEPT !.pc = "resolve", !.plan = g]
  <2>1. r.pc = "resolve" /\ r.active = {}
    BY DEF Idle
  <2>2. app[a].active = {}
    BY <1>3 DEF Begin, SlotInv, NothingTracked
  <2>3. QED
    BY <1>3, <2>1, <2>2, TrackingKept DEF Begin, Become
<1>4. ASSUME NEW a \in Appliers, NEW i \in Artifacts, Transferring(a, i)
      PROVE  NothingTracked' /\ SlotsAreTracked'
  BY <1>1, <1>2, <1>4 DEF Transferring, StartTransfer, SettleTransfer, SetEntry
<1>5. CASE CancelAll
  BY <1>2, <1>5 DEF CancelAll, Cancelling
<1>6. CASE UNCHANGED <<app, entry>>
  BY <1>2, <1>6
<1>7. CASE Crash
  BY <1>7 DEF Crash, NothingTracked, SlotsAreTracked, Idle
<1>8. QED
  BY <1>3, <1>4, <1>5, <1>6, <1>7, PublishingTracks
  DEF Next, vars, Retain, Retaining, KeepGeneration, CollectGeneration,
      RemoveRecord, OpenDir, UnlinkFile, RemoveDir, RetainFails, RetainDone

(* No slot is leaked (Acquisition::drop), for any number of applies,       *)
(* artifacts and slots: SlotsAreTracked.                                   *)
THEOREM NoSlotLeaked == Spec => []SlotsAreTracked
<1>1. Init => SlotInv
  BY TypeInit DEF SlotInv, Init, NothingTracked, SlotsAreTracked, Idle
<1>2. SlotInv /\ [Next]_vars => SlotInv'
  BY TypeStep, TrackingNext DEF SlotInv
<1>3. SlotInv => SlotsAreTracked
  BY DEF SlotInv
<1>4. QED
  BY <1>1, <1>2, <1>3, PTL DEF Spec

(***************************************************************************)
(* Whole generations.                                                      *)
(***************************************************************************)

(* An apply only ever adds artifacts to a generation, and directories.     *)
LEMMA PublishingAdds ==
  ASSUME TypeInv, NEW a \in Appliers, Publishing(a)
  PROVE  /\ made \subseteq made'
         /\ \A g \in Generations : files[g] \cap Artifacts \subseteq files'[g]
<1>1. files \in [Generations -> SUBSET Names] /\ a \notin Artifacts
  BY NamesAssumption DEF TypeInv, TypeOK
<1>2. ASSUME NEW i \in Artifacts, CopyArtifact(a, i)
      PROVE  \A g \in Generations : files[g] \cap Artifacts \subseteq files'[g]
  BY <1>1, <1>2 DEF CopyArtifact
<1>3. CASE PersistArtifact(a)
  BY <1>1, <1>3 DEF PersistArtifact
<1>4. CASE PersistFails(a)
  BY <1>1, <1>4 DEF PersistFails
<1>5. QED
  BY <1>2, <1>3, <1>4
  DEF Publishing, Advancing, ResolveInstalled,
      ResolveMissing, Claim, MakeDir, PublishFails, QueueArtifact,
      CopyArtifact, PersistArtifact, PersistFails, RefuseRequest, AcquiredAll, CancelActive,
      Drained, WriteRecord, ReleaseClaim, RefuseArtifact, RemoveActive, disk

(* An apply changes nobody else, and not the janitor. *)
LEMMA PublishingAlone ==
  ASSUME TypeInv, NEW a \in Appliers, Publishing(a)
  PROVE  /\ \A b \in Appliers \ {a} : app'[b] = app[b]
         /\ UNCHANGED janitor
<1>1. app \in [Appliers -> Apply]
  BY DEF TypeInv, TypeOK
<1>2. UNCHANGED janitor
  BY DEF Publishing, Advancing, ResolveInstalled,
      ResolveMissing, Claim, MakeDir, PublishFails, QueueArtifact,
      CopyArtifact, PersistArtifact, PersistFails, RefuseRequest, AcquiredAll, CancelActive,
      Drained, WriteRecord, ReleaseClaim, RefuseArtifact, RemoveActive
<1>3. \E r : app' = [app EXCEPT ![a] = r]
  BY DEF Publishing, Advancing, ResolveInstalled,
      ResolveMissing, Claim, MakeDir, PublishFails, QueueArtifact,
      CopyArtifact, PersistArtifact, PersistFails, RefuseRequest, AcquiredAll, CancelActive,
      Drained, WriteRecord, ReleaseClaim, RefuseArtifact, RemoveActive, Goto, Become
<1>4. QED
  BY <1>1, <1>2, <1>3

(* An apply keeps what it has placed and accounts for what it has not.     *)
LEMMA PublishingKeeps ==
  ASSUME WholeInv, NEW a \in Appliers, Publishing(a)
  PROVE  Kept(a)'
<1>1. /\ app[a] \in Apply /\ app \in [Appliers -> Apply]
      /\ files \in [Generations -> SUBSET Names] /\ a \notin Artifacts
      /\ app[a].placed \subseteq Artifacts /\ Kept(a)
      /\ app[a].pc # "idle" => app[a].plan \in Generations
  BY NamesAssumption
  DEF WholeInv, SlotInv, TypeInv, TypeOK, PlacedIsKept, Kept, Apply, ApplyKnows
<1>2. /\ made \subseteq made'
      /\ \A g \in Generations : files[g] \cap Artifacts \subseteq files'[g]
  BY PublishingAdds DEF WholeInv, SlotInv
<1>3. ASSUME NEW from, NEW to, Goto(a, from, to), to \notin Acquiring,
             to \in {"claim", "mkdir"} => from \in {"resolve", "claim"}, to # "resolve"
      PROVE  Kept(a)'
  BY <1>1, <1>3 DEF Goto, Kept, Acquiring
<1>4. CASE ResolveMissing(a) \/ Claim(a)
  <2>1. CASE ResolveMissing(a)
    BY <1>3, <2>1 DEF ResolveMissing, Acquiring
  <2>2. CASE Claim(a)
    BY <1>1, <2>2 DEF Claim, Become, Kept, Acquiring, Apply
  <2>3. QED
    BY <1>4, <2>1, <2>2
<1>5. CASE PersistFails(a) \/ RefuseRequest(a) \/ CancelActive(a) \/ Drained(a)
  BY <1>3, <1>5 DEF PersistFails, RefuseRequest, CancelActive, Drained, Acquiring
<1>6. ASSUME NEW i \in Artifacts, RefuseArtifact(a, i) PROVE Kept(a)'
  BY <1>3, <1>6 DEF RefuseArtifact, Acquiring
<1>7. CASE PublishFails(a)
  BY <1>1, <1>7 DEF PublishFails, Kept, Acquiring
<1>8. CASE ResolveInstalled(a) \/ ReleaseClaim(a)
  <2>1. Become(a, Idle)
    BY <1>8 DEF ResolveInstalled, ReleaseClaim
  <2>2. QED
    BY <1>1, <2>1 DEF Become, Idle, Kept, Acquiring
<1>9. CASE MakeDir(a)
  <2>1. app[a].next = 1 /\ app[a].placed = {} /\ app[a].plan \in Generations
    BY <1>1, <1>9 DEF MakeDir, Goto, Kept
  <2>2. QED
    BY <1>1, <1>2, <1>9, <2>1 DEF MakeDir, Goto, Kept, Acquiring, Plan, Artifacts
<1>10. CASE QueueArtifact(a)
  BY <1>1, <1>10, PlanAssumption
  DEF QueueArtifact, Become, Kept, Acquiring, Apply, Artifacts, disk
<1>11. ASSUME NEW i \in Artifacts, CopyArtifact(a, i) PROVE Kept(a)'
  BY <1>1, <1>2, <1>11 DEF CopyArtifact, Become, Kept, Acquiring, Plan, Apply
<1>12. CASE PersistArtifact(a)
  BY <1>1, <1>2, <1>12 DEF PersistArtifact, Become, Kept, Acquiring, Plan, Apply
<1>13. ASSUME NEW i \in Artifacts, RemoveActive(a, i) PROVE Kept(a)'
  BY <1>1, <1>13 DEF RemoveActive, Become, Kept, Acquiring, Apply
<1>14. CASE AcquiredAll(a)
  <2>1. \A i \in Artifacts : i < app[a].next
    BY <1>1, <1>14, PlanAssumption DEF AcquiredAll, Apply, Artifacts
  <2>2. app[a].pc = "acquire" /\ app[a].active = {}
    BY <1>14 DEF AcquiredAll, Goto
  <2>3. Artifacts \subseteq app[a].placed
    BY <1>1, <2>1, <2>2 DEF Kept, Acquiring
  <2>4. QED
    BY <1>1, <1>14, <2>2, <2>3 DEF AcquiredAll, Goto, Kept, Acquiring, disk
<1>15. CASE WriteRecord(a)
  BY <1>1, <1>15 DEF WriteRecord, Goto, Kept, Acquiring
<1>16. QED
  BY <1>4, <1>5, <1>6, <1>7, <1>8, <1>9, <1>10, <1>11, <1>12, <1>13, <1>14, <1>15
  DEF Publishing, Advancing

LEMMA PublishingKept ==
  ASSUME WholeInv, NEW a \in Appliers, Publishing(a)
  PROVE  PlacedIsKept'
<1>1. /\ made \subseteq made'
      /\ \A g \in Generations : files[g] \cap Artifacts \subseteq files'[g]
      /\ \A b \in Appliers \ {a} : app'[b] = app[b]
  BY PublishingAdds, PublishingAlone DEF WholeInv, SlotInv
<1>2. ASSUME NEW b \in Appliers \ {a} PROVE Kept(b)'
  <2>1. /\ Kept(b) /\ app'[b] = app[b] /\ app[b].placed \subseteq Artifacts
        /\ app[b].pc # "idle" => app[b].plan \in Generations
    BY <1>1 DEF WholeInv, SlotInv, TypeInv, TypeOK, PlacedIsKept, Apply, ApplyKnows
  <2>2. QED
    BY <1>1, <2>1 DEF Kept, Acquiring
<1>3. QED
  BY <1>2, PublishingKeeps DEF PlacedIsKept

(* An apply comes to hold a generation by claiming it, and records the one *)
(* it holds.                                                               *)
LEMMA PublishingHolds ==
  ASSUME WholeInv, NEW a \in Appliers, Publishing(a)
  PROVE  /\ app'[a].pc \in Holding =>
              /\ app'[a].plan = app[a].plan
              /\ (app[a].pc \in Holding /\ app'[a].late = app[a].late) \/ Claim(a)
         /\ UNCHANGED <<record, doubted>> \/ WriteRecord(a)
<1>1. app[a] \in Apply /\ app \in [Appliers -> Apply]
  BY DEF WholeInv, SlotInv, TypeInv, TypeOK
<1>2. UNCHANGED <<record, doubted>> \/ WriteRecord(a)
  BY DEF Publishing, Advancing, ResolveInstalled,
      ResolveMissing, Claim, MakeDir, PublishFails, QueueArtifact,
      CopyArtifact, PersistArtifact, PersistFails, RefuseRequest, AcquiredAll, CancelActive,
      Drained, ReleaseClaim, RefuseArtifact, RemoveActive, disk
<1> SUFFICES app'[a].pc \in Holding =>
               /\ app'[a].plan = app[a].plan
               /\ (app[a].pc \in Holding /\ app'[a].late = app[a].late) \/ Claim(a)
  BY <1>2
<1>3. ASSUME NEW from \in Holding, NEW to, Goto(a, from, to)
      PROVE  app'[a].plan = app[a].plan /\ app'[a].late = app[a].late /\ app[a].pc \in Holding
  BY <1>1, <1>3 DEF Goto, Apply
<1>4. CASE ResolveMissing(a)
  BY <1>1, <1>4 DEF ResolveMissing, Goto, Holding, Apply
<1>5. CASE Claim(a)
  BY <1>1, <1>5 DEF Claim, Become, Apply
<1>6. CASE \/ MakeDir(a) \/ PersistFails(a) \/ RefuseRequest(a) \/ AcquiredAll(a)
           \/ CancelActive(a) \/ Drained(a) \/ WriteRecord(a)
           \/ \E i \in Artifacts : RefuseArtifact(a, i)
  BY <1>3, <1>6
  DEF MakeDir, PersistFails, RefuseRequest, AcquiredAll, CancelActive, Drained, WriteRecord,
      RefuseArtifact, Holding
<1>7. CASE PublishFails(a)
  BY <1>1, <1>7 DEF PublishFails, Apply, Holding
<1>8. CASE QueueArtifact(a) \/ PersistArtifact(a)
  <2>1. CASE QueueArtifact(a)
    BY <1>1, <2>1 DEF QueueArtifact, Become, Apply, Holding
  <2>2. CASE PersistArtifact(a)
    BY <1>1, <2>2 DEF PersistArtifact, Become, Apply, Holding
  <2>3. QED
    BY <1>8, <2>1, <2>2
<1>9. ASSUME NEW i \in Artifacts, CopyArtifact(a, i) \/ RemoveActive(a, i)
      PROVE  app'[a].plan = app[a].plan /\ app'[a].late = app[a].late /\ app[a].pc \in Holding
  <2>1. CASE CopyArtifact(a, i)
    BY <1>1, <2>1 DEF CopyArtifact, Become, Apply, Holding
  <2>2. CASE RemoveActive(a, i)
    BY <1>1, <2>2 DEF RemoveActive, Become, Apply, Holding
  <2>3. QED
    BY <1>9, <2>1, <2>2
<1>10. CASE Become(a, Idle)
  BY <1>1, <1>10 DEF Become, Idle, Holding
<1>11. QED
  BY <1>2, <1>4, <1>5, <1>6, <1>7, <1>8, <1>9, <1>10 DEF Publishing, Advancing, ResolveInstalled, ReleaseClaim

(* An apply that claims what is being collected is late, and so is what    *)
(* it records.                                                             *)
LEMMA PublishingSpares ==
  ASSUME WholeInv, NEW a \in Appliers, Publishing(a)
  PROVE  CollectedIsLate'
<1> SUFFICES ASSUME NEW g \in Generations, Collecting(g)'
             PROVE  /\ \A b \in Holders(g)' : app'[b].late
                    /\ janitor'.pc # "unrecord" => g \notin record' \ doubted'
  BY DEF CollectedIsLate
<1>1. UNCHANGED janitor /\ \A b \in Appliers \ {a} : app'[b] = app[b]
  BY PublishingAlone DEF WholeInv, SlotInv
<1>2. /\ Collecting(g) /\ \A b \in Holders(g) : app[b].late
      /\ janitor.pc # "unrecord" => g \notin record \ doubted
  BY <1>1 DEF Collecting, WholeInv, CollectedIsLate
<1>3. ASSUME NEW b \in Holders(g)' PROVE app'[b].late
  <2>1. b \in Appliers /\ app'[b].pc \in Holding /\ app'[b].plan = g
    BY <1>3 DEF Holders
  <2>2. CASE b # a
    BY <1>1, <1>2, <2>1, <2>2 DEF Holders
  <2>3. CASE b = a /\ Claim(a)
    <3>1. app[a] \in Apply /\ app \in [Appliers -> Apply] /\ app[a].plan = g
      BY <2>1, <2>3, PublishingHolds DEF WholeInv, SlotInv, TypeInv, TypeOK
    <3>2. QED
      BY <1>2, <2>3, <3>1 DEF Claim, Become, Plan, Apply
  <2>4. CASE b = a /\ ~Claim(a)
    BY <1>2, <2>1, <2>4, PublishingHolds DEF Holders
  <2>5. QED
    BY <2>2, <2>3, <2>4
<1>4. janitor'.pc # "unrecord" => g \notin record' \ doubted'
  <2>1. CASE UNCHANGED <<record, doubted>>
    BY <1>1, <1>2, <2>1
  <2>2. CASE WriteRecord(a)
    <3>1. app[a].pc \in Holding
      BY <2>2 DEF WriteRecord, Goto, Holding
    <3>2. app[a].plan = g => app[a].late
      BY <1>2, <3>1 DEF Holders
    <3>3. QED
      BY <1>1, <1>2, <2>2, <3>2 DEF WriteRecord, Plan
  <2>3. QED
    BY <2>1, <2>2, PublishingHolds
<1>5. QED
  BY <1>3, <1>4

(* What an apply records is whole, and it takes nothing away. *)
LEMMA PublishingWhole ==
  ASSUME WholeInv, NEW a \in Appliers, Publishing(a)
  PROVE  RecordedIsWhole'
<1>1. /\ made \subseteq made'
      /\ \A g \in Generations : files[g] \cap Artifacts \subseteq files'[g]
      /\ record \subseteq Generations /\ RecordedIsWhole
  BY PublishingAdds DEF WholeInv, SlotInv, TypeInv, TypeOK
<1>2. CASE UNCHANGED <<record, doubted>>
  BY <1>1, <1>2 DEF RecordedIsWhole
<1>3. CASE WriteRecord(a)
  <2>1. app[a].pc = "placed" /\ app[a].plan \in Generations /\ Kept(a)
    BY <1>3 DEF WriteRecord, Goto, WholeInv, SlotInv, TypeInv, ApplyKnows, PlacedIsKept
  <2>2. ~app[a].late => app[a].plan \in made /\ Artifacts \subseteq files[app[a].plan]
    BY <2>1 DEF Kept, Acquiring
  <2>3. /\ UNCHANGED <<made, files>> /\ record' = record \cup {app[a].plan}
        /\ doubted' = IF app[a].late THEN doubted \cup {app[a].plan}
                      ELSE doubted \ {app[a].plan}
    BY <1>3 DEF WriteRecord, Plan
  <2>4. QED
    BY <1>1, <2>2, <2>3 DEF RecordedIsWhole
<1>4. QED
  BY <1>2, <1>3, PublishingHolds

(* A collection touches nothing but a generation that only late applies    *)
(* hold.                                                                   *)
LEMMA RetainingWhole ==
  ASSUME WholeInv, Retaining
  PROVE  PlacedIsKept' /\ CollectedIsLate' /\ RecordedIsWhole'
<1>1. /\ files \in [Generations -> SUBSET Names] /\ record \subseteq Generations
      /\ PlacedIsKept /\ CollectedIsLate /\ RecordedIsWhole /\ ClaimsCounted
      /\ \A a \in Appliers : app[a].pc # "idle" => app[a].plan \in Generations
      /\ CollectionKnows
  BY DEF WholeInv, SlotInv, TypeInv, TypeOK, ApplyKnows
<1>2. UNCHANGED app /\ record' \ doubted' \subseteq record \ doubted
  BY DEF Retaining, KeepGeneration, CollectGeneration, RemoveRecord, OpenDir, UnlinkFile,
         RemoveDir, RetainFails, RetainDone, disk
<1>3. \A g \in Generations :
        \/ files'[g] = files[g] /\ (g \in made => g \in made')
        \/ Collecting(g) /\ janitor.pc # "unrecord"
  <2>1. CASE UNCHANGED <<made, files>>
    BY <2>1
  <2>2. ASSUME NEW name \in Names, UnlinkFile(name)
        PROVE  /\ janitor.pc = "unlink" /\ UNCHANGED made
               /\ \A g \in Generations : g # janitor.id => files'[g] = files[g]
    BY <1>1, <2>2 DEF UnlinkFile
  <2>3. CASE RemoveDir
    BY <2>3 DEF RemoveDir, Collecting
  <2>4. QED
    BY <2>1, <2>2, <2>3
    DEF Retaining, KeepGeneration, CollectGeneration, RemoveRecord, OpenDir, RetainFails,
        RetainDone, disk, Collecting
<1>4. PlacedIsKept'
  <2> SUFFICES ASSUME NEW a \in Appliers PROVE Kept(a)'
    BY DEF PlacedIsKept
  <2>1. Kept(a)
    BY <1>1 DEF PlacedIsKept
  <2>2. ASSUME app[a].pc \in Acquiring, ~app[a].late
        PROVE  files'[app[a].plan] = files[app[a].plan]
               /\ (app[a].plan \in made => app[a].plan \in made')
    <3>1. app[a].plan \in Generations /\ a \in Holders(app[a].plan)
      BY <1>1, <2>2 DEF Acquiring, Holders, Holding
    <3>2. QED
      BY <1>1, <1>3, <2>2, <3>1 DEF CollectedIsLate
  <2>3. QED
    BY <1>2, <2>1, <2>2 DEF Kept
<1>5. CollectedIsLate'
  <2> SUFFICES ASSUME NEW g \in Generations, Collecting(g)'
               PROVE  /\ \A a \in Holders(g)' : app'[a].late
                      /\ janitor'.pc # "unrecord" => g \notin record' \ doubted'
    BY DEF CollectedIsLate
  <2>1. Holders(g)' = Holders(g)
    BY <1>2 DEF Holders
  <2>2. \/ janitor'.pc = "unrecord" /\ claims[g] = 0
        \/ Collecting(g) /\ (g \notin record' \ doubted' \/ janitor.pc # "unrecord")
    <3>1. CASE \E name \in Names : UnlinkFile(name)
      BY <3>1 DEF UnlinkFile, Collecting
    <3>2. ASSUME NEW h \in Generations, KeepGeneration(h) PROVE FALSE
      BY <3>2 DEF KeepGeneration, Collecting
    <3>3. ASSUME NEW h \in Generations, CollectGeneration(h)
          PROVE  janitor'.pc = "unrecord" /\ claims[g] = 0
      BY <3>3 DEF CollectGeneration, Collecting
    <3>4. CASE RemoveRecord
      BY <3>4 DEF RemoveRecord, Collecting
    <3>5. CASE OpenDir \/ RemoveDir \/ RetainFails \/ RetainDone
      <4>1. janitor \in Collection
        BY DEF WholeInv, SlotInv, TypeInv, TypeOK
      <4>2. CASE OpenDir
        BY <4>1, <4>2 DEF OpenDir, Collecting, Collection
      <4>3. CASE RemoveDir
        <5> DEFINE passed == [janitor EXCEPT !.pc = "next", !.id = NoGen, !.listed = {}]
        <5>1. janitor' = Resting \/ janitor' = passed
          BY <4>3 DEF RemoveDir
        <5>2. Resting.pc = "idle" /\ passed.pc = "next"
          BY <4>1 DEF Collection, Resting
        <5>3. QED
          BY <5>1, <5>2 DEF Collecting
      <4>4. CASE RetainFails \/ RetainDone
        BY <4>4 DEF RetainFails, RetainDone, Collecting, Resting
      <4>5. QED
        BY <3>5, <4>2, <4>3, <4>4
    <3>6. QED
      BY <3>1, <3>2, <3>3, <3>4, <3>5 DEF Retaining
  <2>3. claims[g] = 0 => Holders(g) = {}
    <3>1. IsFiniteSet(Holders(g)) /\ claims[g] = Cardinality(Holders(g))
      BY <1>1, ApplierSets DEF Holders, ClaimsCounted
    <3>2. QED
      BY <3>1, FS_EmptySet
  <2>4. QED
    BY <1>1, <1>2, <2>1, <2>2, <2>3 DEF CollectedIsLate
<1>6. RecordedIsWhole'
  BY <1>1, <1>2, <1>3 DEF RecordedIsWhole, CollectedIsLate
<1>7. QED
  BY <1>4, <1>5, <1>6

(* A step that leaves the directories and records alone, and moves no      *)
(* apply but to its start and no janitor into a collection.                *)
LEMMA WholeRests ==
  ASSUME WholeInv, UNCHANGED disk,
         \A g \in Generations : Collecting(g)' => Collecting(g) /\ UNCHANGED janitor,
         \A a \in Appliers :
           \/ app'[a] = app[a]
           \/ app'[a].pc = "idle"
           \/ app'[a].pc = "resolve" /\ app'[a].next = 1 /\ app'[a].placed = {}
  PROVE  PlacedIsKept' /\ CollectedIsLate' /\ RecordedIsWhole'
<1>1. UNCHANGED <<made, files, record, doubted>>
  BY DEF disk
<1>2. PlacedIsKept'
  BY <1>1 DEF WholeInv, PlacedIsKept, Kept, Acquiring
<1>3. \A g \in Generations : \A a \in Holders(g)' : a \in Holders(g) /\ app'[a] = app[a]
  BY DEF Holders, Holding
<1>4. CollectedIsLate'
  BY <1>1, <1>3 DEF WholeInv, CollectedIsLate
<1>5. RecordedIsWhole'
  BY <1>1 DEF WholeInv, RecordedIsWhole
<1>6. QED
  BY <1>2, <1>4, <1>5

LEMMA WholeNext ==
  ASSUME WholeInv, [Next]_vars
  PROVE  PlacedIsKept' /\ CollectedIsLate' /\ RecordedIsWhole'
<1>1. ASSUME NEW a \in Appliers, Publishing(a)
      PROVE  PlacedIsKept' /\ CollectedIsLate' /\ RecordedIsWhole'
  BY <1>1, PublishingKept, PublishingSpares, PublishingWhole
<1>2. ASSUME NEW a \in Appliers, NEW g \in Generations, Begin(a, g)
      PROVE  PlacedIsKept' /\ CollectedIsLate' /\ RecordedIsWhole'
  <2>1. app \in [Appliers -> Apply]
    BY DEF WholeInv, SlotInv, TypeInv, TypeOK
  <2>2. /\ app'[a].pc = "resolve" /\ app'[a].next = 1 /\ app'[a].placed = {}
        /\ \A b \in Appliers \ {a} : app'[b] = app[b]
    BY <1>2, <2>1 DEF Begin, Become, Idle
  <2>3. QED
    BY <1>2, <2>2, WholeRests DEF Begin, Collecting
<1>3. CASE UNCHANGED <<disk, app, janitor>>
  BY <1>3, WholeRests DEF Collecting
<1>4. ASSUME NEW a \in Appliers, NEW i \in Artifacts, Transferring(a, i)
      PROVE  UNCHANGED <<disk, app, janitor>>
  BY <1>4 DEF Transferring, StartTransfer, SettleTransfer
<1>5. CASE CancelAll \/ UNCHANGED vars
  BY <1>3, <1>5 DEF CancelAll, vars, disk
<1>6. ASSUME NEW live, Retain(live)
      PROVE  PlacedIsKept' /\ CollectedIsLate' /\ RecordedIsWhole'
  BY <1>6, WholeRests DEF Retain, Collecting, Resting
<1>7. CASE Crash
  BY <1>7, WholeRests DEF Crash, Collecting, Resting, Idle
<1>8. QED
  BY <1>1, <1>2, <1>3, <1>4, <1>5, <1>6, <1>7, RetainingWhole DEF Next

(* RecordedIsWhole, for any number of applies and artifacts: a record that *)
(* was not written by an apply which claimed inside a collection never     *)
(* stands for a generation that is not whole (publish writes the record    *)
(* last; retain spares what is claimed and drops the record first).        *)
THEOREM RecordedWhole == Spec => []RecordedIsWhole
<1>1. Init => WholeInv
  BY TypeInit
  DEF WholeInv, SlotInv, Init, NothingTracked, SlotsAreTracked, PlacedIsKept, Kept, Acquiring,
      CollectedIsLate, Collecting, RecordedIsWhole, Idle, Resting
<1>2. WholeInv /\ [Next]_vars => WholeInv'
  BY TypeStep, TrackingNext, WholeNext DEF WholeInv, SlotInv
<1>3. WholeInv => RecordedIsWhole
  BY DEF WholeInv
<1>4. QED
  BY <1>1, <1>2, <1>3, PTL DEF Spec
=============================================================================
