SPECIFICATION Spec
CONSTANTS
  MaxVersion = 3
  MaxReleases = 2
  MaxTime = 1
  TimestampDays = 1
  LongDays = 2
  MaxFaults = 1
INVARIANT HostServesAChain
CHECK_DEADLOCK FALSE
