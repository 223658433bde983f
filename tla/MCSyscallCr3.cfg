SPECIFICATION MCSpec
CONSTANTS
  MaxTasks = 3
  PriorityLevels = 2
  BoostInterval = 2
  NoTask = NoTask
  MaxIds = 3
  SpawnPriorities = {1}
  Calls = {"yield", "block", "wake", "exit", "exec", "join"}
  AllocMayFail = FALSE
  IrqWakes = TRUE
  MaxImages = 2
  MAX_LINES = 4
  MAX_LINE_LEN = 3
  TextRows = 2
  Newline = "n"
  EditorChars = {"a"}
  LoadedFiles <- MCFiles
  Clips <- MCClips
  MouseRows <- MCRows
  MouseCols = {2}
  MaxKeys = 5
  HistorySize = 2
  MaxLine = 2
  Space = " "
  ShellChars = {"a", "b", " "}
  Endings <- MCEndings
  MaxFiled = 3
INVARIANT OwnAddressSpace
