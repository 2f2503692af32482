CONSTANTS
  s1 = s1
  s2 = s2
  Songs <- MCSongs
  Windows <- MCWindows
  Captures <- MCCaptures
  Capacity = 3
  RowBudget = 2
  Full = 2
  Fall = 1
  Height = 3
  Lengths = {0, 2, 4}
  MaxSteps = 4

SPECIFICATION FairSpec

INVARIANT TransientsShow
INVARIANT PaintedIsCurrent

PROPERTY UiCatchesUp

CHECK_DEADLOCK FALSE
