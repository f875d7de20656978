CONSTANTS
  Parts = {"apply", "queue", "timer"}
  a = a  b = b  s1 = s1  s2 = s2  s3 = s3  s4 = s4  c1 = c1  c2 = c2  c3 = c3  c4 = c4
  first = first  second = second  third = third  None = None
  Threads = {a, b}  Sizes = {0, 1, 2, 5}  Minimum = 1  MaxStops = 1
  Calls = {c1, c2, c3, c4}  Single = {c1, c2}  Holdable = {}
  EventNames = {first, second, third}  SlotNames = {s1, s2, s3, s4}  Prior = {s2}  Remotes = {s2}
  SubscribesTo <- MCSubscribesTo  Emitted <- MCEmitted
  QueueSlots <- MCSlots  QueueEvents = {first}  QueueEventOf <- MCEventOf
  CalledSlot <- MCCalledSlot  Address <- MCAddress  TimerNames = {a, b}
  MaxTriggers = 2  MaxDepth = 2  SliceExpires = FALSE  MaxThrows = 0
SPECIFICATION TaskFairSpec
PROPERTIES CallQueueSpec Delivered Served ApplyReturns
CHECK_DEADLOCK FALSE
