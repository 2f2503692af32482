------------------------------ MODULE Surfaces -------------------------------
(***************************************************************************)
(* What crosses from the audio worker to the UI, and how the UI keeps up:  *)
(* the presentation buffers (crates/present), the front and the documents  *)
(* the bridge publishes, and the shim's session and pattern item that read *)
(* them.  The worker captures frames into buffers of its own and copies    *)
(* them to the front under its lock; a document is written under one lock  *)
(* and its revision bumped under another.  The UI polls the front, re-reads *)
(* a document whose revision moved, in up to two calls, and paints.        *)
(*                                                                         *)
(* A pattern cell is the song, the pattern and the row it belongs to.      *)
(* Samples and levels are integers of which Full is full scale.            *)
(***************************************************************************)
EXTENDS Integers, Sequences
LOCAL INSTANCE FiniteSetsExt

CONSTANTS
  Songs,      \* songs that may be mounted
  Windows,    \* pattern windows a decoder publishes: [pattern, lo, hi]
  Captures,   \* scope samples of a capture
  Capacity,   \* points of a trace
  RowBudget,  \* rows of a grid
  Full,       \* full scale
  Fall,       \* what a level falls by in a capture
  Height,     \* rows the UI paints
  Lengths,    \* lengths a document may have
  MaxSteps    \* mounts, captures and publications of the worker (bound)

ASSUME BuffersAssumption == Capacity \in Nat \ {0, 1} /\ RowBudget \in Nat \ {0}
ASSUME ScaleAssumption   == Full \in Nat \ {0} /\ Fall \in Nat
ASSUME CapturesAssumption == \A samples \in Captures : samples \in Seq(Int)

VARIABLES
  worker,  \* the worker's song, grid, trace and level
  front,   \* what the worker last copied out
  docs,    \* the document's text
  writing, \* whether a document is written and its revision not yet bumped
  ui,      \* what the UI has polled, read and painted
  steps    \* worker steps so far

vars == <<worker, front, docs, writing, ui, steps>>

NoSong   == "no song"
NoWindow == [pattern |-> "no pattern", lo |-> 0, hi |-> 0]
Blank    == <<"blank">>

Least(a, b)    == IF a < b THEN a ELSE b
Greatest(a, b) == IF a < b THEN b ELSE a
Abs(n) == IF n < 0 THEN -n ELSE n
Clamped(n, lo, hi) == Greatest(lo, Least(n, hi))

-----------------------------------------------------------------------------
(* The oscilloscope trace: buckets of samples, the loudest of each kept,   *)
(* and a flat line for silence.                                            *)
(* Seeded fault: what a division leaves over goes unheard. *)
BucketShort(length, points, i) ==
  LET width == Greatest(length \div points, 1)
  IN  ((i - 1) * width + 1)..(i * width)

Bucket(length, points, i) ==
  LET lo == ((i - 1) * length) \div points
      hi == Greatest((i * length) \div points, lo + 1)
  IN  (lo + 1)..hi

(* The first sample of the largest magnitude; 0 when there is only silence. *)
Loudest(samples, places) ==
  LET peak == Max({Abs(samples[p]) : p \in places})
  IN  IF peak = 0 THEN 0
      ELSE samples[CHOOSE p \in places :
                     Abs(samples[p]) = peak /\ \A q \in places : q < p => Abs(samples[q]) < peak]

FillTrace(samples) ==
  LET n == Least(Len(samples), Capacity)
  IN  IF samples = <<>> THEN <<0, 0>>
      ELSE [i \in 1..n |-> Clamped(Loudest(samples, Bucket(Len(samples), n, i)), -Full, Full)]

(* The meter rises to a louder reading at once and falls from a quieter.   *)
Peak(samples) == Clamped(Max({0} \cup {Abs(samples[i]) : i \in DOMAIN samples}), 0, Full)
TickLevel(level, reading) ==
  IF reading >= level THEN reading ELSE Greatest(level - Fall, reading)

-----------------------------------------------------------------------------
(* The pattern grid: a window of rows, the cells they were taken from, and *)
(* the key that says which window that was.                                *)
NoKey == NoWindow
EmptyGrid == [key |-> NoKey, lo |-> 0, cells |-> <<>>]

CellsOf(song, window) ==
  [i \in 1..Least(window.hi - window.lo, RowBudget) |->
     <<song, window.pattern, window.lo + i - 1>>]

FillGrid(grid, song, window) ==
  IF window = NoWindow THEN [grid EXCEPT !.cells = <<>>, !.key = NoKey]
  ELSE IF grid.key = window THEN grid
  ELSE [key |-> window, lo |-> window.lo, cells |-> CellsOf(song, window)]

(* Whether the cells were replaced. *)
GridChanged(grid, window) ==
  IF window = NoWindow THEN grid.cells # <<>> ELSE grid.key # window

(* Whole rows, blank outside the window. *)
CopyRows(grid, lo, hi) ==
  [i \in 1..(hi - lo) |->
     LET index == lo + i - 1 - grid.lo
     IN  IF index \in 0..(Len(grid.cells) - 1) THEN grid.cells[index + 1] ELSE Blank]

-----------------------------------------------------------------------------
(* The worker. *)

NewFront == [grid |-> EmptyGrid, cellsRev |-> 0, row |-> 0, has |-> FALSE,
             trace |-> <<>>, level |-> 0, rev |-> 0]

Init ==
  /\ worker = [song |-> NoSong, grid |-> EmptyGrid, samples |-> <<>>, trace |-> <<>>, level |-> 0]
  /\ front = NewFront
  /\ docs = [version |-> 0, length |-> 0]
  /\ writing = FALSE
  /\ ui = [at |-> "idle", cellsRev |-> 0, row |-> 0, has |-> FALSE, rev |-> 0,
           shown |-> 0, size |-> 1, seen |-> 0, stale |-> FALSE, painted |-> <<>>]
  /\ steps = 0

Works == /\ ~writing /\ steps < MaxSteps
         /\ steps' = steps + 1
         /\ UNCHANGED ui

(* A mount and an unmount start from empty buffers; the cells are replaced. *)
ReplaceSong(song) ==
  /\ Works /\ (song # NoSong \/ worker.song # NoSong)
  /\ worker' = [song |-> song, grid |-> EmptyGrid, samples |-> <<>>, trace |-> <<>>, level |-> 0]
  /\ front' = [front EXCEPT !.grid = EmptyGrid, !.cellsRev = @ + 1, !.has = FALSE, !.row = 0,
                            !.trace = <<>>, !.level = 0]
  /\ UNCHANGED <<docs, writing>>

Capture(window, row, samples) ==
  LET grid  == FillGrid(worker.grid, worker.song, window)
      level == TickLevel(worker.level, Peak(samples))
  IN  /\ Works /\ worker.song # NoSong
      /\ worker' = [worker EXCEPT !.grid = grid, !.samples = samples,
                                  !.trace = FillTrace(samples), !.level = level]
      /\ front' = [front EXCEPT
                     !.grid = IF GridChanged(worker.grid, window) THEN grid ELSE @,
                     !.cellsRev = IF GridChanged(worker.grid, window) THEN @ + 1 ELSE @,
                     !.has = window # NoWindow, !.row = row,
                     !.trace = FillTrace(samples), !.level = level]
      /\ UNCHANGED <<docs, writing>>

(* The text first, under its own lock; then the revision. *)
WriteDocument(length) ==
  /\ Works
  /\ docs' = [version |-> docs.version + 1, length |-> length]
  /\ writing' = TRUE
  /\ UNCHANGED <<worker, front>>

(* Seeded fault: the revision says only that there is a document. *)
BumpFirst ==
  /\ writing /\ writing' = FALSE
  /\ front' = [front EXCEPT !.rev = 1]
  /\ UNCHANGED <<worker, docs, ui, steps>>

BumpRevision ==
  /\ writing /\ writing' = FALSE
  /\ front' = [front EXCEPT !.rev = @ + 1]
  /\ UNCHANGED <<worker, docs, ui, steps>>

-----------------------------------------------------------------------------
(* The UI's thread.  What could not be read whole does not parse.          *)

Garbled == 99

UiStep == UNCHANGED <<worker, front, docs, writing, steps>>

(* Seeded fault: only the cursor is watched. *)
PollCursor ==
  /\ ui.at = "idle"
  /\ ui' = [ui EXCEPT
              !.at = IF front.rev # ui.rev THEN "read" ELSE "idle",
              !.cellsRev = front.cellsRev, !.row = front.row, !.has = front.has,
              !.rev = front.rev,
              !.stale = @ \/ front.row # ui.row \/ front.has # ui.has]
  /\ UiStep

Poll ==
  /\ ui.at = "idle"
  /\ ui' = [ui EXCEPT
              !.at = IF front.rev # ui.rev THEN "read" ELSE "idle",
              !.cellsRev = front.cellsRev, !.row = front.row, !.has = front.has,
              !.rev = front.rev,
              !.stale = \/ @ \/ front.cellsRev # ui.cellsRev
                        \/ front.row # ui.row \/ front.has # ui.has]
  /\ UiStep

(* The first call tells the length: a longer document is asked for again,  *)
(* in a buffer of that length.                                             *)
ReadDocument ==
  /\ ui.at = "read"
  /\ ui' = IF docs.length + 1 > ui.size
           THEN [ui EXCEPT !.at = "reread", !.size = docs.length + 1]
           ELSE [ui EXCEPT !.at = "idle", !.shown = docs.version]
  /\ UiStep

RereadDocument ==
  /\ ui.at = "reread"
  /\ ui' = [ui EXCEPT !.at = "idle",
                      !.shown = IF docs.length + 1 > ui.size THEN Garbled ELSE docs.version]
  /\ UiStep

(* The rows around the polled cursor, read from the front as it is now.    *)
Rows(state, grid) ==
  IF ~state.has THEN <<>>
  ELSE LET first == state.row - Height \div 2
           lo    == Greatest(first, 0)
       IN  [i \in 1..(lo - first) |-> Blank] \o CopyRows(grid, lo, first + Height)

Paint ==
  /\ ui.stale
  /\ ui' = [ui EXCEPT !.stale = FALSE, !.painted = Rows(ui, front.grid)]
  /\ UiStep

Work ==
  \/ \E song \in Songs \cup {NoSong} : ReplaceSong(song)
  \/ \E samples \in Captures :
       \/ Capture(NoWindow, 0, samples)
       \/ \E window \in Windows : \E row \in window.lo..(window.hi - 1) :
            Capture(window, row, samples)
  \/ \E length \in Lengths : WriteDocument(length)
  \/ BumpRevision

Show == Poll \/ ReadDocument \/ RereadDocument \/ Paint

Next == Work \/ Show

Spec == Init /\ [][Next]_vars

(* The UI's timer goes on, and a bumped revision follows its document.     *)
FairSpec == Spec /\ WF_vars(Poll) /\ WF_vars(ReadDocument) /\ WF_vars(RereadDocument)
                 /\ WF_vars(Paint) /\ WF_vars(BumpRevision)

-----------------------------------------------------------------------------

(* A transient stays visible however many samples share a point: the       *)
(* trace is as loud as the capture, and every sample has a bucket.         *)
TransientsShow ==
  /\ Max({0} \cup {Abs(front.trace[i]) : i \in DOMAIN front.trace}) =
       (IF front.trace = <<>> THEN 0 ELSE Peak(worker.samples))
  /\ worker.samples # <<>> =>
       UNION {Bucket(Len(worker.samples), Len(worker.trace), i) : i \in DOMAIN worker.trace}
         = DOMAIN worker.samples

(* The glyphs on screen are those of the pattern: once the UI has polled   *)
(* what the front holds and painted, painting again would change nothing.  *)
PaintedIsCurrent ==
  /\ ~ui.stale /\ ui.cellsRev = front.cellsRev /\ ui.row = front.row /\ ui.has = front.has
  => ui.painted = Rows(front, front.grid)

(* The UI catches up with a worker that has come to rest.                  *)
UiCatchesUp ==
  (steps = MaxSteps) ~> (ui.shown = docs.version /\ ui.painted = Rows(front, front.grid))
=============================================================================
