SPECIFICATION FairSpec
CONSTANTS
  MaxVersion = 3
  MaxReleases = 2
  MaxTime = 1
  TimestampDays = 1
  LongDays = 2
  MaxFaults = 1
INVARIANT HostKeepsItsChain
PROPERTY ClientNeverGoesBack
PROPERTY ReleasesOnlyAdvance
PROPERTY ClientCatchesUp
CHECK_DEADLOCK FALSE
