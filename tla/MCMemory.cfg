SPECIFICATION MCSpec
CONSTANTS
  MaxPages = 27
  NoPage = NoPage
  UsableEntries <- MCEntries
  Reserved = {0, 1, 5}
  RunLengths = {0, 2, 3}
  Lbas = {0, 1}
  SectorData = {1, 2}
  HeapSize = 12
  HeaderSize = 2
  SplitSlack = 2
  Layouts <- MCLayouts
  NTasks = 2
  Radix = 3
  Ram <- MCRam
  HeapFrame = 2
  Dev = 30
  KernelRoot = 0
  KernelPdpt = 1
  Guard = 0
  Image = 1
  Stack = 2
  HeapStart = 3
  UringAt = 6
  IpcAt = 8
  MmioAt = 9
  FbAt = 18
  PageBytes = 2
  MaxHeap = 4
  MaxRings = 1
  MaxCalls = 5
  MaxBreak = 12
  BreakChoices = {2, 6, 9, 12}
  Buffers = {1, 3}
  PhysChoices = {12}
  Dests = {2}
  Promised = {9}
INVARIANTS
  FramesPartition
  HeapDisjoint
  OneUsePerPage
  DirectMapIntact
  DmaInOwnPages
  AnswerIsTheSector
PROPERTIES
  BelowBreakKept
CHECK_DEADLOCK FALSE
