CONSTANTS
  QueueMax = 3
  NumWorkers = 2
  Times <- OneTime
  MaxBytes = 0
  MaxSubmissions = 3
  HookMayPanic = TRUE
  SpawnMayFail = TRUE
  Calls = {"cancel", "remove", "drop"}

SPECIFICATION Spec

INVARIANT TypeOK
INVARIANT SlotKeptUnderWorker
INVARIANT DownloadingIsHeld
INVARIANT PreemptedIsSwept
INVARIANT CancelHonoured
INVARIANT DropReachesTransfers
