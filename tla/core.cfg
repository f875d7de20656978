CONSTANTS
  Parts = {"wait", "spin", "pointers", "shared", "pinned", "vector", "settings"}
  Threads = {a, b, c}  Nobody = Nobody  Spinlock = FALSE  MaxCalls = 2
  Objects = {x, y}  Pointers = {p, q}  WeakPointers = {v, w}
  First = a  Pinners = {a, b}  Two = {a, b}
  MaxLost = 1  DefaultGapSize = 2  NearnessFactor = 1  Reservations = {5}
  Values = {i, j}  MaxInsert = 2  MaxEach = 3  MaxSize = 4
  Keys = {1, 2}  MaxChanges = 2  MaxRuns = 1  MaxDepth = 2
SPECIFICATION CoreSpec
SYMMETRY Symmetry
INVARIANTS RefsSafe SharedSafe VectorSafe SettingsSafe
PROPERTIES RecursiveLockSpec VectorSpec
CHECK_DEADLOCK FALSE
