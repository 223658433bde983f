SPECIFICATION WaitFairSpec
CONSTANTS
  MaxTasks = 3
  PriorityLevels = 3
  BoostInterval = 2
  NoTask = NoTask
  MaxIds = 3
  SpawnPriorities = {1}
  Calls = {"yield", "exit", "join"}
  AllocMayFail = FALSE
  IrqWakes = TRUE
  Capacity = 2
  Callers = {"thread", "user"}
  KeyboardBufferSize = 3
  ReadCounts = {1, 2}
  Readers = {1}
INVARIANTS
  NoLostWakeupInSyscall
  FlagWillBeSeen
  ConsumerWokenOnTop
PROPERTIES
  CallsComplete
  NoStarvation
  ReadReturns
