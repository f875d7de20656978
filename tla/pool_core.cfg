CONSTANTS
  urgent = t3
  Tasks = {t1, t2, t3}
  Priority <- MCPriority
  Clients = {a, b}
  MaxThreads = 3
  InitThreads = 0
  ReserveSizes = {0, 1, 3}
  Waiters = {b}
  Stoppers = {a}
  Destroyers = {a}
  Cancellable = {t1}
  None = None
SPECIFICATION Spec
INVARIANTS TasksKept NoMissedWakeup Quiescent
PROPERTIES WaitMeansDone CentralQueueSpec
CHECK_DEADLOCK FALSE
