--------------------------- MODULE SurfacesProofs ----------------------------
(***************************************************************************)
(* Proofs about what crosses to the UI: the rows on screen are those of    *)
(* the front, and the trace is as loud as the samples it was made of, for  *)
(* any songs, windows, captures, budgets and heights.                      *)
(***************************************************************************)
EXTENDS Surfaces, WellFoundedInduction, TLAPS
LOCAL INSTANCE FiniteSetsExt

(* The cells are counted on both sides, and the UI is never ahead. *)
CountsInv ==
  /\ front.cellsRev \in Nat /\ ui.cellsRev \in Nat
  /\ ui.cellsRev <= front.cellsRev

(* What was painted is what the polled cursor shows of the grid that had   *)
(* that count of cells.                                                    *)
PaintInv ==
  ~ui.stale /\ ui.cellsRev = front.cellsRev => ui.painted = Rows(ui, front.grid)

Fields == {"at", "cellsRev", "row", "has", "rev", "shown", "size", "seen", "stale", "painted"}
FrontFields == {"grid", "cellsRev", "row", "has", "trace", "level", "rev"}

RecordsInv ==
  /\ DOMAIN ui = Fields /\ ui = [f \in Fields |-> ui[f]]
  /\ DOMAIN front = FrontFields /\ front = [f \in FrontFields |-> front[f]]
  /\ ui.stale \in BOOLEAN

SurfacesInv == CountsInv /\ PaintInv /\ RecordsInv

LEMMA SameRows ==
  ASSUME NEW a, NEW b, NEW grid, a.has = b.has, a.row = b.row
  PROVE  Rows(a, grid) = Rows(b, grid)
  BY DEF Rows

LEMMA InitPainted ==
  ASSUME Init
  PROVE  SurfacesInv
<1>1. RecordsInv /\ CountsInv
  BY DEF Init, NewFront, RecordsInv, CountsInv, Fields, FrontFields
<1>2. PaintInv
  BY DEF Init, NewFront, PaintInv, Rows
<1>3. QED
  BY <1>1, <1>2 DEF SurfacesInv

(* A song that is replaced, and a window with other cells, count. *)
LEMMA ReplaceKeeps ==
  ASSUME SurfacesInv, NEW song, ReplaceSong(song)
  PROVE  SurfacesInv'
<1>1. /\ ui' = ui /\ front'.cellsRev = front.cellsRev + 1
      /\ DOMAIN front' = FrontFields /\ front' = [f \in FrontFields |-> front'[f]]
  BY DEF ReplaceSong, Works, SurfacesInv, RecordsInv, FrontFields
<1>2. QED
  BY <1>1 DEF SurfacesInv, RecordsInv, CountsInv, PaintInv

LEMMA CaptureKeeps ==
  ASSUME SurfacesInv, NEW window, NEW row, NEW samples, Capture(window, row, samples)
  PROVE  SurfacesInv'
<1>1. /\ ui' = ui
      /\ \/ front'.cellsRev = front.cellsRev + 1
         \/ front'.cellsRev = front.cellsRev /\ front'.grid = front.grid
      /\ DOMAIN front' = FrontFields /\ front' = [f \in FrontFields |-> front'[f]]
  BY DEF Capture, Works, SurfacesInv, RecordsInv, FrontFields
<1>2. QED
  BY <1>1 DEF SurfacesInv, RecordsInv, CountsInv, PaintInv

(* A document has nothing to do with the pattern. *)
LEMMA DocumentKeeps ==
  ASSUME SurfacesInv, (\E length : WriteDocument(length)) \/ BumpRevision
                        \/ ReadDocument \/ RereadDocument
  PROVE  SurfacesInv'
<1>1. CASE (\E length : WriteDocument(length)) \/ BumpRevision
  BY <1>1 DEF SurfacesInv, RecordsInv, CountsInv, PaintInv, WriteDocument, BumpRevision,
              Works, FrontFields
<1>2. CASE ReadDocument \/ RereadDocument
  <2>1. /\ front' = front /\ ui'.cellsRev = ui.cellsRev /\ ui'.row = ui.row
        /\ ui'.has = ui.has /\ ui'.stale = ui.stale /\ ui'.painted = ui.painted
        /\ DOMAIN ui' = Fields /\ ui' = [f \in Fields |-> ui'[f]]
    BY <1>2 DEF SurfacesInv, RecordsInv, ReadDocument, RereadDocument, UiStep, Fields
  <2>2. Rows(ui', front.grid) = Rows(ui, front.grid)
    BY <2>1, SameRows
  <2>3. QED
    BY <2>1, <2>2 DEF SurfacesInv, RecordsInv, CountsInv, PaintInv
<1>3. QED
  BY <1>1, <1>2

(* A poll that finds anything changed asks for a repaint; a repaint shows  *)
(* the front as it is, which may be newer than what was polled.            *)
LEMMA PollKeeps ==
  ASSUME SurfacesInv, Poll
  PROVE  SurfacesInv'
<1>1. /\ front' = front /\ ui'.cellsRev = front.cellsRev /\ ui'.painted = ui.painted
      /\ DOMAIN ui' = Fields /\ ui' = [f \in Fields |-> ui'[f]] /\ ui'.stale \in BOOLEAN
      /\ ~ui'.stale => /\ ~ui.stale /\ front.cellsRev = ui.cellsRev
                       /\ ui'.row = ui.row /\ ui'.has = ui.has
  BY DEF SurfacesInv, RecordsInv, Poll, UiStep, Fields
<1>2. ~ui'.stale => Rows(ui', front.grid) = Rows(ui, front.grid)
  BY <1>1, SameRows
<1>3. QED
  BY <1>1, <1>2 DEF SurfacesInv, RecordsInv, CountsInv, PaintInv

LEMMA PaintKeeps ==
  ASSUME SurfacesInv, Paint
  PROVE  SurfacesInv'
<1>1. /\ front' = front /\ ui'.cellsRev = ui.cellsRev
      /\ ui'.painted = Rows(ui, front.grid) /\ ui'.row = ui.row /\ ui'.has = ui.has
      /\ DOMAIN ui' = Fields /\ ui' = [f \in Fields |-> ui'[f]] /\ ui'.stale \in BOOLEAN
  BY DEF SurfacesInv, RecordsInv, Paint, UiStep, Fields
<1>2. Rows(ui', front.grid) = Rows(ui, front.grid)
  BY <1>1, SameRows
<1>3. QED
  BY <1>1, <1>2 DEF SurfacesInv, RecordsInv, CountsInv, PaintInv

LEMMA PaintedStep ==
  ASSUME SurfacesInv, [Next]_vars
  PROVE  SurfacesInv'
<1>1. CASE Work
  BY <1>1, ReplaceKeeps, CaptureKeeps, DocumentKeeps DEF Work
<1>2. CASE Show
  BY <1>2, PollKeeps, PaintKeeps, DocumentKeeps DEF Show
<1>3. CASE UNCHANGED vars
  BY <1>3 DEF vars, SurfacesInv, RecordsInv, CountsInv, PaintInv
<1>4. QED
  BY <1>1, <1>2, <1>3 DEF Next

(* The glyphs on screen are those of the pattern: whatever is mounted,     *)
(* captured and polled in between, once the UI has polled what the front   *)
(* holds and painted, painting again would change nothing.                 *)
THEOREM PaintedIsCurrentHolds == Spec => []PaintedIsCurrent
<1>1. Init => SurfacesInv
  BY InitPainted
<1>2. SurfacesInv /\ [Next]_vars => SurfacesInv'
  BY PaintedStep
<1>3. SurfacesInv => PaintedIsCurrent
  BY SameRows DEF SurfacesInv, PaintInv, PaintedIsCurrent
<1>4. QED
  BY <1>1, <1>2, <1>3, PTL DEF Spec

-----------------------------------------------------------------------------
(* Numbers. *)

(* A set of numbers that is not empty has a least. *)
LEMMA NatMin ==
  ASSUME NEW T \in SUBSET Nat, T # {}
  PROVE  \E n \in T : \A m \in T : n <= m
<1> DEFINE R == OpToRel(<, Nat)
<1>1. IsWellFoundedOn(R, Nat)
  BY NatLessThanWellFounded
<1>2. \A x, y \in Nat : x < y => <<x, y>> \in R
  BY Zenon DEF OpToRel
<1> HIDE DEF R
<1>3. PICK x \in T : \A y \in T : ~ (<<y, x>> \in R)
  BY <1>1, WFMin, Zenon
<1>4. \A y \in T : ~ (y < x)
  BY <1>2, <1>3
<1>5. QED
  BY <1>4

(* A set that holds 0, and the successor of each number it holds, holds    *)
(* every number.                                                           *)
LEMMA NatClosed ==
  ASSUME NEW S, 0 \in S, \A n \in Nat : n \in S => n + 1 \in S
  PROVE  Nat \subseteq S
<1> SUFFICES ASSUME Nat \ S # {} PROVE FALSE
  OBVIOUS
<1>1. PICK n \in Nat \ S : \A m \in Nat \ S : n <= m
  BY NatMin
<1>2. n - 1 \in Nat /\ n - 1 \in S
  BY <1>1
<1>3. QED
  BY <1>1, <1>2

(* What a division returns. *)
LEMMA DivFact ==
  ASSUME NEW a \in Nat, NEW n \in Nat \ {0}
  PROVE  a \div n \in Nat /\ n * (a \div n) <= a /\ a < n * (a \div n) + n
  OBVIOUS

(* It is determined by that. *)
LEMMA DivIs ==
  ASSUME NEW a \in Nat, NEW n \in Nat \ {0}, NEW q \in Nat, n * q <= a, a < n * q + n
  PROVE  a \div n = q
  OBVIOUS

LEMMA DivGrows ==
  ASSUME NEW a \in Nat, NEW b \in Nat, NEW n \in Nat \ {0}, a <= b
  PROVE  /\ a \div n <= b \div n
         /\ a + n <= b => a \div n < b \div n
  OBVIOUS

-----------------------------------------------------------------------------
(* The trace. *)

(* The samples before the end of a bucket. *)
Cut(length, points, i) == (i * length) \div points

(* A bucket is not empty and lies within the capture, and every sample has *)
(* one: nothing that a division leaves over goes unheard.                  *)
LEMMA CutFact ==
  ASSUME NEW length \in Nat, NEW points \in Nat \ {0}, points <= length
  PROVE  /\ Cut(length, points, 0) = 0 /\ Cut(length, points, points) = length
         /\ \A i \in 1..points :
              /\ Cut(length, points, i - 1) \in Nat /\ Cut(length, points, i) \in Nat
              /\ Cut(length, points, i - 1) < Cut(length, points, i)
              /\ Cut(length, points, i) <= length
              /\ Bucket(length, points, i) =
                   (Cut(length, points, i - 1) + 1)..Cut(length, points, i)
<1>1. Cut(length, points, 0) = 0
  <2>1. 0 * length = 0 /\ 0 \div points = 0
    BY DivIs
  <2>2. QED
    BY <2>1 DEF Cut
<1>2. Cut(length, points, points) = length
  <2>1. points * length \in Nat
    OBVIOUS
  <2>2. QED
    BY <2>1, DivIs DEF Cut
<1>3. ASSUME NEW i \in 1..points
      PROVE  /\ Cut(length, points, i - 1) \in Nat /\ Cut(length, points, i) \in Nat
             /\ Cut(length, points, i - 1) < Cut(length, points, i)
             /\ Cut(length, points, i) <= length
             /\ Bucket(length, points, i) =
                  (Cut(length, points, i - 1) + 1)..Cut(length, points, i)
  <2> DEFINE a == (i - 1) * length
             b == i * length
             c == points * length
  <2>1. a \in Nat /\ b \in Nat /\ c \in Nat /\ b = a + length /\ b <= c
    OBVIOUS
  <2>2. c \div points = length
    BY <1>2 DEF Cut
  <2> HIDE DEF a, b, c
  <2>3. /\ a \div points \in Nat /\ b \div points \in Nat
        /\ a \div points < b \div points /\ b \div points <= length
    BY <2>1, <2>2, DivFact, DivGrows
  <2>4. Bucket(length, points, i) = (a \div points + 1)..(b \div points)
    BY <2>3 DEF Bucket, Greatest, a, b
  <2>5. QED
    BY <2>3, <2>4 DEF a, b, Cut
<1>4. QED
  BY <1>1, <1>2, <1>3

LEMMA BucketsCover ==
  ASSUME NEW length \in Nat, NEW points \in Nat \ {0}, points <= length
  PROVE  UNION {Bucket(length, points, i) : i \in 1..points} = 1..length
<1> DEFINE cut(i) == Cut(length, points, i)
<1>1. /\ cut(0) = 0 /\ cut(points) = length
      /\ \A i \in 1..points :
           /\ cut(i - 1) \in Nat /\ cut(i) \in Nat /\ cut(i - 1) < cut(i) /\ cut(i) <= length
           /\ Bucket(length, points, i) = (cut(i - 1) + 1)..cut(i)
  BY CutFact
<1> HIDE DEF cut
<1>2. ASSUME NEW p \in 1..length
      PROVE  \E i \in 1..points : p \in Bucket(length, points, i)
  <2> DEFINE T == {i \in 1..points : p <= cut(i)}
  <2>1. points \in T /\ T \in SUBSET Nat
    BY <1>1
  <2>2. PICK i \in T : \A j \in T : i <= j
    <3> HIDE DEF T
    <3>1. QED
      BY <2>1, NatMin
  <2>3. cut(i - 1) < p
    <3>1. CASE i = 1
      BY <1>1, <3>1
    <3>2. CASE i # 1
      <4>1. i - 1 \in 1..points /\ i - 1 \notin T
        BY <2>2, <3>2
      <4>2. QED
        BY <1>1, <4>1
    <3>3. QED
      BY <3>1, <3>2
  <2>4. QED
    BY <1>1, <2>2, <2>3
<1>3. ASSUME NEW i \in 1..points
      PROVE  Bucket(length, points, i) \subseteq 1..length
  BY <1>1
<1>4. QED
  BY <1>2, <1>3

(* What Max returns of a set that has a largest member. *)
LEMMA MaxFact ==
  ASSUME NEW S \in SUBSET Int, NEW m \in S, \A n \in S : n <= m
  PROVE  Max(S) = m
<1> DEFINE Tops(x) == \A y \in S : x >= y
<1>1. Tops(m)
  OBVIOUS
<1>2. Max(S) \in S /\ Tops(Max(S))
  BY <1>1 DEF Max
<1>3. Max(S) \in Int /\ m \in Int /\ Max(S) <= m /\ Max(S) >= m
  BY <1>2
<1>4. QED
  BY <1>3

(* One of finitely many samples is as loud as any. *)
LEMMA LoudestExists ==
  ASSUME NEW samples \in Seq(Int), NEW lo \in Nat, NEW hi \in Nat,
         lo < hi, hi <= Len(samples)
  PROVE  \E p \in (lo + 1)..hi : \A q \in (lo + 1)..hi : Abs(samples[q]) <= Abs(samples[p])
<1> DEFINE Tops(n, p) == /\ p \in (lo + 1)..(lo + n + 1)
                         /\ \A q \in (lo + 1)..(lo + n + 1) :
                              Abs(samples[q]) <= Abs(samples[p])
           H == {n \in Nat : lo + n + 1 <= hi => \E p : Tops(n, p)}
<1>1. \A p \in (lo + 1)..hi : samples[p] \in Int /\ Abs(samples[p]) \in Nat
  BY DEF Abs
<1>2. 0 \in H
  <2>1. Tops(0, lo + 1)
    BY <1>1
  <2>2. QED
    BY <2>1
<1>3. ASSUME NEW n \in Nat, n \in H
      PROVE  n + 1 \in H
  <2> SUFFICES ASSUME lo + (n + 1) + 1 <= hi
               PROVE  \E p : Tops(n + 1, p)
    OBVIOUS
  <2>1. PICK p : Tops(n, p)
    BY <1>3
  <2> DEFINE last == lo + (n + 1) + 1
  <2>2. /\ last \in (lo + 1)..hi /\ p \in (lo + 1)..hi
        /\ \A q \in (lo + 1)..last : q \in (lo + 1)..hi
                                   /\ (q = last \/ q \in (lo + 1)..(lo + n + 1))
    BY <2>1
  <2>3. CASE Abs(samples[last]) <= Abs(samples[p])
    <3>1. Tops(n + 1, p)
      BY <2>1, <2>2, <2>3
    <3>2. QED
      BY <3>1
  <2>4. CASE ~(Abs(samples[last]) <= Abs(samples[p]))
    <3>1. Abs(samples[p]) < Abs(samples[last])
      BY <1>1, <2>2, <2>4
    <3>2. ASSUME NEW q \in (lo + 1)..last
          PROVE  Abs(samples[q]) <= Abs(samples[last])
      <4>1. CASE q = last
        BY <1>1, <2>2, <4>1
      <4>2. CASE q \in (lo + 1)..(lo + n + 1)
        <5>1. Abs(samples[q]) <= Abs(samples[p])
          BY <2>1, <4>2
        <5>2. /\ Abs(samples[q]) \in Nat /\ Abs(samples[p]) \in Nat
              /\ Abs(samples[last]) \in Nat
          BY <1>1, <2>2
        <5>3. QED
          BY <3>1, <5>1, <5>2
      <4>3. QED
        BY <2>2, <4>1, <4>2
    <3>3. Tops(n + 1, last)
      BY <2>2, <3>2
    <3>4. QED
      BY <3>3
  <2>5. QED
    BY <2>3, <2>4
<1>4. hi - lo - 1 \in H
  <2> HIDE DEF H
  <2>1. hi - lo - 1 \in Nat /\ Nat \subseteq H
    BY <1>2, <1>3, NatClosed
  <2>2. QED
    BY <2>1
<1>5. PICK p : Tops(hi - lo - 1, p)
  <2> HIDE DEF Tops
  <2>1. QED
    BY <1>4
<1>6. QED
  BY <1>5

(* A point is as loud as the loudest sample of its bucket. *)
LEMMA LoudestFact ==
  ASSUME NEW samples \in Seq(Int), NEW lo \in Nat, NEW hi \in Nat,
         lo < hi, hi <= Len(samples)
  PROVE  /\ Loudest(samples, (lo + 1)..hi) \in Int
         /\ \A q \in (lo + 1)..hi : Abs(samples[q]) <= Abs(Loudest(samples, (lo + 1)..hi))
         /\ \E p \in (lo + 1)..hi : Abs(samples[p]) = Abs(Loudest(samples, (lo + 1)..hi))
<1> DEFINE places == (lo + 1)..hi
           peak   == Max({Abs(samples[p]) : p \in places})
<1>1. \A p \in places : samples[p] \in Int /\ Abs(samples[p]) \in Nat
  BY DEF Abs
<1>2. PICK p \in places : \A q \in places : Abs(samples[q]) <= Abs(samples[p])
  BY LoudestExists
<1>3. peak = Abs(samples[p])
  <2>1. /\ {Abs(samples[q]) : q \in places} \in SUBSET Int
        /\ Abs(samples[p]) \in {Abs(samples[q]) : q \in places}
        /\ \A n \in {Abs(samples[q]) : q \in places} : n <= Abs(samples[p])
    BY <1>1, <1>2
  <2>2. QED
    BY <2>1, MaxFact
<1> DEFINE First(f) == /\ f \in places /\ Abs(samples[f]) = peak
                       /\ \A q \in places : q < f => Abs(samples[q]) < peak
<1>4. \E f : First(f)
  <2> DEFINE T == {f \in places : Abs(samples[f]) = peak}
  <2>1. p \in T /\ T \in SUBSET Nat
    BY <1>3
  <2>2. PICK f \in T : \A q \in T : f <= q
    <3> HIDE DEF T
    <3>1. QED
      BY <2>1, NatMin
  <2>3. ASSUME NEW q \in places, q < f
        PROVE  Abs(samples[q]) < peak
    <3>1. q \notin T
      BY <2>2, <2>3
    <3>2. Abs(samples[q]) # peak /\ Abs(samples[q]) <= peak
      BY <1>2, <1>3, <3>1
    <3>3. Abs(samples[q]) \in Nat /\ peak \in Nat
      BY <1>1, <1>3
    <3>4. QED
      BY <3>2, <3>3
  <2>4. First(f)
    BY <2>2, <2>3
  <2>5. QED
    BY <2>4
<1> HIDE DEF peak
<1>5. CASE peak = 0
  <2>1. Loudest(samples, places) = 0
    BY <1>5 DEF Loudest, peak
  <2>2. QED
    BY <1>2, <1>3, <1>5, <2>1 DEF Abs
<1>6. CASE peak # 0
  <2>1. PICK f : First(f) /\ Loudest(samples, places) = samples[f]
    BY <1>4, <1>6 DEF Loudest, peak
  <2>2. QED
    BY <1>1, <1>2, <1>3, <2>1
<1>7. QED
  BY <1>5, <1>6

(* Clipping does not tell two samples of one magnitude apart. *)
LEMMA ClampFact ==
  ASSUME NEW n \in Int
  PROVE  /\ Clamped(n, -Full, Full) \in Int
         /\ Abs(Clamped(n, -Full, Full)) = Clamped(Abs(n), 0, Full)
  BY ScaleAssumption DEF Clamped, Abs, Least, Greatest

LEMMA ClampGrows ==
  ASSUME NEW a \in Int, NEW b \in Int, a <= b
  PROVE  Clamped(a, 0, Full) \in Nat /\ Clamped(a, 0, Full) <= Clamped(b, 0, Full)
  BY ScaleAssumption DEF Clamped, Least, Greatest

(* A trace is as loud as the capture it was made of. *)
LEMMA TraceFact ==
  ASSUME NEW samples \in Seq(Int), samples # <<>>
  PROVE  /\ FillTrace(samples) # <<>>
         /\ Max({0} \cup {Abs(FillTrace(samples)[i]) : i \in DOMAIN FillTrace(samples)})
              = Peak(samples)
         /\ UNION {Bucket(Len(samples), Len(FillTrace(samples)), i) :
                     i \in DOMAIN FillTrace(samples)} = DOMAIN samples
<1> DEFINE length == Len(samples)
           n      == Least(length, Capacity)
           trace  == FillTrace(samples)
           point(i) == Loudest(samples, Bucket(length, n, i))
<1>1. length \in Nat \ {0} /\ n \in Nat \ {0} /\ n <= length
  BY BuffersAssumption DEF Least
<1>2. /\ trace = [i \in 1..n |-> Clamped(point(i), -Full, Full)]
      /\ DOMAIN trace = 1..n /\ Len(trace) = n
  <2>1. trace = [i \in 1..n |-> Clamped(point(i), -Full, Full)]
    BY DEF FillTrace
  <2>2. QED
    BY <1>1, <2>1
<1>3. UNION {Bucket(length, n, i) : i \in 1..n} = 1..length
  BY <1>1, BucketsCover
<1>4. ASSUME NEW i \in 1..n
      PROVE  /\ point(i) \in Int
             /\ \A q \in Bucket(length, n, i) : Abs(samples[q]) <= Abs(point(i))
             /\ \E p \in Bucket(length, n, i) : Abs(samples[p]) = Abs(point(i))
  <2> DEFINE lo == Cut(length, n, i - 1)
             hi == Cut(length, n, i)
  <2>1. /\ lo \in Nat /\ hi \in Nat /\ lo < hi /\ hi <= length
        /\ Bucket(length, n, i) = (lo + 1)..hi
    BY <1>1, CutFact
  <2> HIDE DEF lo, hi
  <2>2. QED
    BY <2>1, LoudestFact
<1>5. PICK top \in 1..length : \A q \in 1..length : Abs(samples[q]) <= Abs(samples[top])
  <2>1. 1..length = (0 + 1)..length
    OBVIOUS
  <2>2. /\ samples \in Seq(Int) /\ 0 \in Nat /\ length \in Nat /\ 0 < length
        /\ length <= Len(samples)
    BY <1>1
  <2>3. \E p \in (0 + 1)..length :
          \A q \in (0 + 1)..length : Abs(samples[q]) <= Abs(samples[p])
    <3> HIDE DEF length
    <3>1. QED
      BY <2>2, LoudestExists
  <2>4. QED
    BY <2>1, <2>3
<1>6. \A q \in 1..length : samples[q] \in Int /\ Abs(samples[q]) \in Nat
  BY DEF Abs
<1> DEFINE loud == Clamped(Abs(samples[top]), 0, Full)
<1>7. loud \in Nat /\ Peak(samples) = loud
  <2> DEFINE S == {0} \cup {Abs(samples[i]) : i \in DOMAIN samples}
  <2>1. /\ S \in SUBSET Int /\ Abs(samples[top]) \in S
        /\ \A k \in S : k <= Abs(samples[top])
    <3>1. DOMAIN samples = 1..length
      OBVIOUS
    <3>2. QED
      BY <1>5, <1>6, <3>1
  <2>2. Max(S) = Abs(samples[top])
    <3> HIDE DEF S
    <3>1. QED
      BY <2>1, MaxFact
  <2>3. QED
    <3>1. Abs(samples[top]) \in Int /\ Abs(samples[top]) <= Abs(samples[top])
      BY <1>6
    <3>2. QED
      BY <2>2, <3>1, ClampGrows DEF Peak
<1> HIDE DEF length, n, trace, point, loud
<1>8. ASSUME NEW i \in 1..n
      PROVE  /\ Abs(trace[i]) = Clamped(Abs(point(i)), 0, Full)
             /\ Abs(trace[i]) \in Nat /\ Abs(trace[i]) <= loud
  <2>1. trace[i] = Clamped(point(i), -Full, Full)
    BY <1>2
  <2>2. Abs(trace[i]) = Clamped(Abs(point(i)), 0, Full)
    BY <1>4, <2>1, ClampFact
  <2>3. PICK p \in 1..length : Abs(samples[p]) = Abs(point(i))
    BY <1>3, <1>4
  <2>4. Abs(point(i)) \in Int /\ Abs(point(i)) <= Abs(samples[top]) /\ Abs(samples[top]) \in Int
    BY <1>5, <1>6, <2>3
  <2>5. QED
    BY <2>2, <2>4, ClampGrows DEF loud
<1>9. PICK i \in 1..n : Abs(trace[i]) = loud
  <2>1. PICK i \in 1..n : top \in Bucket(length, n, i)
    BY <1>3
  <2>2. Abs(samples[top]) <= Abs(point(i))
    BY <1>4, <2>1
  <2>3. PICK p \in 1..length : Abs(samples[p]) = Abs(point(i))
    BY <1>3, <1>4
  <2>4. Abs(point(i)) = Abs(samples[top])
    <3>1. /\ Abs(samples[p]) <= Abs(samples[top])
          /\ Abs(samples[p]) \in Nat /\ Abs(samples[top]) \in Nat
      BY <1>5, <1>6, <2>3
    <3>2. QED
      BY <2>2, <2>3, <3>1
  <2>5. QED
    BY <1>8, <2>4 DEF loud
<1>10. Max({0} \cup {Abs(trace[k]) : k \in DOMAIN trace}) = loud
  <2> DEFINE S == {0} \cup {Abs(trace[k]) : k \in DOMAIN trace}
  <2>1. S \in SUBSET Int /\ loud \in S /\ \A k \in S : k <= loud
    BY <1>2, <1>7, <1>8, <1>9
  <2>2. Max(S) = loud
    <3> HIDE DEF S
    <3>1. QED
      BY <2>1, MaxFact
  <2>3. QED
    BY <2>2
<1>11. QED
  <2>1. trace # <<>>
    BY <1>1, <1>2
  <2>2. DOMAIN samples = 1..length
    BY DEF length
  <2>3. Max({0} \cup {Abs(trace[k]) : k \in DOMAIN trace}) = Peak(samples)
    BY <1>7, <1>10
  <2>4. UNION {Bucket(length, Len(trace), k) : k \in DOMAIN trace} = DOMAIN samples
    BY <1>2, <1>3, <2>2
  <2>5. QED
    BY <2>1, <2>3, <2>4 DEF trace, length

-----------------------------------------------------------------------------

WorkerFields == {"song", "grid", "samples", "trace", "level"}

(* The trace on both sides is that of the last capture, once there is one. *)
TraceInv ==
  /\ DOMAIN worker = WorkerFields /\ worker = [f \in WorkerFields |-> worker[f]]
  /\ DOMAIN front = FrontFields /\ front = [f \in FrontFields |-> front[f]]
  /\ front.trace = worker.trace
  /\ worker.samples \in Seq(Int)
  /\ \/ worker.trace = <<>> /\ worker.samples = <<>>
     \/ worker.trace = FillTrace(worker.samples)

LEMMA TraceStep ==
  ASSUME TraceInv, [Next]_vars
  PROVE  TraceInv'
<1>1. ASSUME NEW song, ReplaceSong(song)
      PROVE  TraceInv'
  <2>1. /\ DOMAIN worker' = WorkerFields /\ worker' = [f \in WorkerFields |-> worker'[f]]
        /\ worker'.samples = <<>> /\ worker'.trace = <<>>
    BY <1>1 DEF ReplaceSong, WorkerFields
  <2>2. /\ DOMAIN front' = FrontFields /\ front' = [f \in FrontFields |-> front'[f]]
        /\ front'.trace = <<>>
    BY <1>1 DEF TraceInv, ReplaceSong, FrontFields
  <2>3. QED
    BY <2>1, <2>2 DEF TraceInv
<1>2. ASSUME NEW window, NEW row, NEW samples \in Captures, Capture(window, row, samples)
      PROVE  TraceInv'
  <2>1. /\ DOMAIN worker' = WorkerFields /\ worker' = [f \in WorkerFields |-> worker'[f]]
        /\ worker'.samples = samples /\ worker'.trace = FillTrace(samples)
    BY <1>2 DEF TraceInv, Capture, WorkerFields
  <2>2. /\ DOMAIN front' = FrontFields /\ front' = [f \in FrontFields |-> front'[f]]
        /\ front'.trace = FillTrace(samples)
    BY <1>2 DEF TraceInv, Capture, FrontFields
  <2>3. QED
    BY <2>1, <2>2, CapturesAssumption DEF TraceInv
<1>3. CASE (\E length : WriteDocument(length)) \/ BumpRevision
  BY <1>3 DEF TraceInv, WriteDocument, BumpRevision, WorkerFields, FrontFields
<1>4. CASE Show
  BY <1>4 DEF TraceInv, Show, Poll, ReadDocument, RereadDocument, Paint, UiStep
<1>5. CASE UNCHANGED vars
  BY <1>5 DEF TraceInv, vars
<1>6. QED
  BY <1>1, <1>2, <1>3, <1>4, <1>5 DEF Next, Work

(* No transient is lost: the trace is as loud as the capture it was made   *)
(* of, and every sample has a bucket, for any length, capacity and scale.  *)
THEOREM TransientsShowHolds == Spec => []TransientsShow
<1>1. Init => TraceInv
  BY DEF Init, NewFront, TraceInv, WorkerFields, FrontFields
<1>2. TraceInv /\ [Next]_vars => TraceInv'
  BY TraceStep
<1>3. TraceInv => TransientsShow
  <2> SUFFICES ASSUME TraceInv
               PROVE  TransientsShow
    OBVIOUS
  <2>1. Max({0}) = 0
    BY MaxFact
  <2>2. CASE worker.samples # <<>>
    <3>1. worker.trace = FillTrace(worker.samples) /\ worker.samples \in Seq(Int)
      BY <2>2 DEF TraceInv
    <3>2. front.trace = FillTrace(worker.samples)
      BY <3>1 DEF TraceInv
    <3> DEFINE samples == worker.samples
               trace   == FillTrace(samples)
    <3>3. /\ trace # <<>>
          /\ Max({0} \cup {Abs(trace[i]) : i \in DOMAIN trace}) = Peak(samples)
          /\ UNION {Bucket(Len(samples), Len(trace), i) : i \in DOMAIN trace} = DOMAIN samples
      BY <2>2, <3>1, TraceFact
    <3>4. worker.trace = trace /\ front.trace = trace
      BY <3>1, <3>2
    <3> HIDE DEF trace
    <3>5. QED
      BY <3>3, <3>4 DEF TransientsShow
  <2>3. CASE worker.samples = <<>>
    <3>1. Peak(worker.samples) = 0
      <4>1. {0} \cup {Abs(worker.samples[i]) : i \in DOMAIN worker.samples} = {0}
        BY <2>3
      <4>2. QED
        BY <2>1, <4>1, ScaleAssumption DEF Peak, Clamped, Least, Greatest
    <3>2. front.trace = <<>> \/ front.trace = <<0, 0>>
      BY <2>3 DEF TraceInv, FillTrace
    <3>3. {0} \cup {Abs(front.trace[i]) : i \in DOMAIN front.trace} = {0}
      BY <3>2 DEF Abs
    <3>4. QED
      BY <2>1, <2>3, <3>1, <3>3 DEF TransientsShow
  <2>4. QED
    BY <2>2, <2>3
<1>4. QED
  BY <1>1, <1>2, <1>3, PTL DEF Spec

=============================================================================
