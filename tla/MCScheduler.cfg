SPECIFICATION Spec
CONSTANTS
  MaxTasks = 4
  PriorityLevels = 3
  BoostInterval = 2
  NoTask = NoTask
  MaxIds = 4
  SpawnPriorities = {1}
  Calls = {"yield", "block", "wake", "exit", "exec", "join", "thread"}
  AllocMayFail = TRUE
  IrqWakes = TRUE
INVARIANTS
  TypeOK
  OneRunning
  ReadyIsFiled
  OnlyReadyQueued
PROPERTIES
  NoRevival
  SwitchToHighest
