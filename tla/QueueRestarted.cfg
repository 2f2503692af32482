CONSTANTS
  QueueMax = 3
  NumWorkers = 2
  Times <- OneTime
  MaxBytes = 0
  MaxSubmissions = 4
  HookMayPanic = FALSE
  SpawnMayFail = FALSE
  Calls = {"cancel", "drop"}

SPECIFICATION Spec

PROPERTY ImplementsLifecycle
