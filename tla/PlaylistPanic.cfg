CONSTANTS
  MaxId = 5
  Songs <- MCSongs
  Broken <- MCBroken
  Names <- MCNames
  Documents <- MCDocuments
  MaxCalls = 4

SPECIFICATION Spec

INVARIANT TargetIsAnItem

CHECK_DEADLOCK FALSE
