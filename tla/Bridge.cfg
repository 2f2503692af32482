CONSTANTS
  MaxId = 50
  Paths <- MCPaths
  Broken <- MCBroken
  NotSongs <- MCNotSongs
  Files <- MCFiles
  Asked <- MCAsked
  MaxSent = 3
  Buffered = 2
  LowWater = 1
  ScanWater = 1
  MaxFrames = 2
  MayFail = TRUE

SPECIFICATION FairSpec

INVARIANT StatusIsTrue
INVARIANT SilentAtRest
INVARIANT DocsAreCurrent

PROPERTY DropReturns

CHECK_DEADLOCK FALSE
