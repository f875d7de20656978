CONSTANTS
  Parts = {"vector"}
  Threads = {a, b, c}  Nobody = Nobody  Spinlock = FALSE  MaxCalls = 3
  Objects = {x, y}  Pointers = {p, q}  WeakPointers = {v, w}
  First = a  Pinners = {a, b}  Two = {a, b}
  MaxLost = 1  DefaultGapSize = 2  NearnessFactor = 1  Reservations = {6}
  Values = {i, j}  MaxInsert = 3  MaxEach = 1  MaxSize = 5
  Keys = {1, 2}  MaxChanges = 2  MaxRuns = 1  MaxDepth = 2
SPECIFICATION CoreSpec
PROPERTY VectorSpec
CHECK_DEADLOCK FALSE
