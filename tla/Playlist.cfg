CONSTANTS
  MaxId = 5
  Songs <- MCSongs
  Broken <- MCBroken
  Names <- MCNames
  Documents <- MCDocuments
  MaxCalls = 4

SPECIFICATION FairSpec

INVARIANT IdsAreUnique
INVARIANT CursorIsTrue
INVARIANT CleanIsStored

PROPERTY RevisionsTell
PROPERTY BrokenListEnds

CHECK_DEADLOCK FALSE
