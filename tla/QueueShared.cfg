CONSTANTS
  QueueMax = 4
  NumWorkers = 2
  Times <- OneTime
  MaxBytes = 0
  MaxSubmissions = 4
  HookMayPanic = FALSE
  SpawnMayFail = FALSE
  Calls = {"drop"}
SPECIFICATION Spec
INVARIANT PreemptionReachesTransfer
