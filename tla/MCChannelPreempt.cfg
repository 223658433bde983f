SPECIFICATION ChanSpec
CONSTANTS
  MaxTasks = 3
  PriorityLevels = 3
  BoostInterval = 3
  NoTask = NoTask
  MaxIds = 3
  SpawnPriorities = {1}
  Calls = {}
  AllocMayFail = FALSE
  IrqWakes = FALSE
  Capacity = 2
  Callers = {"thread"}
INVARIANT NoLostWakeup
