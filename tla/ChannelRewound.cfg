SPECIFICATION Spec
CONSTANTS
  MaxVersion = 4
  MaxReleases = 2
  MaxTime = 0
  TimestampDays = 1
  LongDays = 2
  MaxFaults = 1
INVARIANT RecoveryIsForward
CHECK_DEADLOCK FALSE
