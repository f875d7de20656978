CONSTANTS
  urgent = t3
  Tasks = {t1, t2, t3}
  Priority <- MCPriority
  Clients = {a, b}
  MaxThreads = 2
  InitThreads = 2
  ReserveSizes = {}
  Waiters = {b}
  Stoppers = {a, b}
  Destroyers = {a}
  Cancellable = {}
  None = None
SPECIFICATION FairSpec
PROPERTIES TaskServed CallsReturn
CHECK_DEADLOCK FALSE
