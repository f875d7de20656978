CONSTANTS
  Parts = {"both", "one", "all", "thread", "system", "mutex"}
  Waiters = {a, b, c}  Timed = {b, c}  Kinds = {"one", "all"}  Resets = FALSE  MaxSignals = 4
  Callers = {a, b}  MaxCalls = 3  Width = 6  Nobody = Nobody
SPECIFICATION ThreadFairSpec
INVARIANTS NotSleptThrough ThreadSafe SystemSafe
PROPERTIES SignalsTaken ReleasedByAll ThreadsGoOn
CHECK_DEADLOCK FALSE
