CONSTANTS
  QueueMax = 2
  NumWorkers = 1
  Times <- TwoTimes
  MaxBytes = 0
  MaxSubmissions = 3
  HookMayPanic = FALSE
  SpawnMayFail = FALSE
  Calls = {"cancel", "pause", "resume", "remove", "drop"}

SPECIFICATION FairSpec

INVARIANT PreemptionReachesTransfer

PROPERTY ImplementsLifecycle
PROPERTY PendingIsServed
PROPERTY PreemptedResumes
PROPERTY DropReturns
