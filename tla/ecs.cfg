CONSTANTS
  Parts = {"component", "ids", "handles", "jar", "array", "tree"}
  Entities = {x, y}  NullEntity = null  Values = {v, w}  Absent = absent  MaxUsers = 1  MaxFailures = 1
  Clients = {a}  MaxEntities = 3  MaxAsked = 2  MaxEntityId = 2  MaxHandleId = 4  MaxFreed = 3
  Threads = {s, t}  InvalidCookie = 3  MaxThrows = 1
  Default = v  Marked = {w}  SegmentSize = 4  MaxNodes = 6  MaxInsert = 3  MaxSize = 7
  Ranks = {1, 2}  MaxTreeNodes = 4  MaxHigh = 1  MaxSkips = 2  MaxCount = 4
SPECIFICATION EcsSpec
INVARIANTS IndicesAgree JarSafe TreeSafe
PROPERTIES ComponentSafe IdsSafe QueuedDestroyed ArraySafe
CHECK_DEADLOCK FALSE
