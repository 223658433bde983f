SPECIFICATION FairSpec
CONSTANTS
  MaxTasks = 3
  PriorityLevels = 3
  BoostInterval = 3
  NoTask = NoTask
  MaxIds = 3
  SpawnPriorities = {1}
  Calls = {"yield", "join"}
  AllocMayFail = FALSE
  IrqWakes = FALSE
PROPERTY BoostPreventsStarvation
