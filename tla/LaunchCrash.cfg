SPECIFICATION CrashSpec
CONSTANTS
  claude = claude
  pi = pi
  None = None
  Launches = {claude}
  Claude = {claude}
  Grouped = {claude}
  Moved = {claude}
  SpawnAttempts = 3
  PromptAttempts = 5
  MaxCrashes = 2
INVARIANTS
  WorkerOwnsRunning
  FailedWasExhausted
  RunningWasSeated
PROPERTIES
  OnlyRestartsOrphan
  ProgressIsMonotone
  RegistrationReconciles
