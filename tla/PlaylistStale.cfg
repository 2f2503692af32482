CONSTANTS
  MaxId = 5
  Songs <- MCSongs
  Broken <- MCBroken
  Names <- MCNames
  Documents <- MCDocuments
  MaxCalls = 4

SPECIFICATION Spec

INVARIANT CleanIsHeld

CHECK_DEADLOCK FALSE
