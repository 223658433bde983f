SPECIFICATION MCSpec
CONSTANTS
  N = 2
  Width = 8
  Msgs = {a, b}
  None = None
  MaxTasks = 3
  NoTask = NoTask
  Threads = {t1, t2}
  Locks = {SCHEDULER, KEYBOARD_BUFFER, VFS}
  Irq = Irq
  NoLock = NoLock
  Free = Free
  MaxDepth = 3
INVARIANT NoHandlerDeadlock
