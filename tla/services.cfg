CONSTANTS
  Parts = {"services", "log", "packets", "strings", "http", "json"}
  Threads = {t1, t2, t3, s}  Setter = s
  Loggers = {t1, main}  Main = main  LoggingThread = service  MaxMessages = 2
  Packets = {x, y}  NoPacket = NoPacket  MaxOpens = 2  MaxArrivals = 1  MaxDepth = 2
  StreamLetters = {a, b}  CR = cr  LF = lf  MaxStream = 5  MaxRead = 3
  MaxRequests = 3  MaxBody = 2
  MaxNesting = 2
SPECIFICATION MCSpec
INVARIANTS OneService LogSafe ConnectionSafe RequestsSafe InputParsed
PROPERTIES NothingHangs
CHECK_DEADLOCK FALSE
