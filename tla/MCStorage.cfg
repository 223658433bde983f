SPECIFICATION MCSpec
CONSTANTS
  Names = {"home", "homes", "d", "s", "bin"}
  MaxParts = 4
  FileTasks = {1, 2}
  UserPaths <- MCPaths
  HomeNames <- MCHome
  NoSuffix = "-"
  Tar <- MCTar
  Counts = {0, 1, 2}
  Offsets = {0, 1, 3}
  MaxFds = 2
  MaxLen = 3
  MaxCalls = 4
  MaxEntries = 3
  PageEntries = 2
  SetupSizes = {0, 2, 9}
  IdxMod = 4
  Owner = 1
  Requests <- MCRequests
  FixedTables <- MCTables
  Buffers = {0}
  MaxPush = 4
  FsPaths = {"/a", "/b", "/a/c"}
  Parent <- MCParent
  Data <- MCData
  HashOf <- MCHash
  MaxBytes = 2
  Users = {1, 2}
  Rights <- MCRights
  RingSlots = 1
  MaxTokens = 3
  MaxRequests = 2
  MaxOps = 4
  SectorSize = 4
  SectorsPerCluster = 2
  FatStart = 10
  DataStart = 18
  RootCluster = 2
  FatEoc = 90
  Fats <- MCFats
  DirSectors <- MCSectors
  FatPaths <- MCFatPaths
  SlotKinds <- MCSlots
  MaxSlots = 4
  ReadSizes = {1, 3, 5, 9, 24}
  SeekOffsets = {0, 3, 8, 13, 21, 22}
INVARIANTS
  ComponentsAreKept
  CursorWithinFile
  RunOnce
  AnswersInOrder
  StoreExact
  PathsAgree
  PathHashCurrent
  FatReadsFile
  EntriesNamedByOwnFragments
PROPERTIES
  AnsweredIfDistinct
CHECK_DEADLOCK FALSE
