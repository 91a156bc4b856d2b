SPECIFICATION FairSpec
CONSTANTS
  claude = claude
  pi = pi
  None = None
  Launches = {claude, pi}
  Claude = {claude}
  Grouped = {claude}
  Moved = {}
  SpawnAttempts = 2
  PromptAttempts = 1
  MaxCrashes = 0
PROPERTIES
  StopHolds
  EveryLaunchSettles
