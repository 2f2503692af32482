SPECIFICATION FairSpec
CONSTANTS
  g1 = g1
  g2 = g2
  g3 = g3
  Generations <- MCGenerations
  Broken <- MCBroken
  Unloadable <- MCUnloadable
  Interval = 1
  RetryBase = 2
  MaxShift = 0
  MaxFailures = 2
  AutoApply = TRUE
  MaxReleases = 2
  MaxFaults = 1
  MaxRestarts = 1
  MayFail = TRUE
INVARIANT LoadedIsResident
INVARIANT FallbackIsKept
INVARIANT BootTriesAll
PROPERTY SongKeepsItsSet
PROPERTY ChannelIsAskedAgain
