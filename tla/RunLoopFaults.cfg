SPECIFICATION Spec
CONSTANTS
  Infos = {c1, c2}
  ReqLen = 1
  RspLen = 2
  BufLen = 1
  RcvBuf = 2
  MaxExtra = 1
  Backend = "epoll"
  Faults = {"refuse", "connect", "fatal", "wait", "fin", "reset", "extra"}
  MaxCreate = 1
  IsShutdown = TRUE
  RequestCount = 1
  Counters = {"attempted", "read", "hangup", "hangup2", "pipeline", "unknown"}
  CounterMax = 1
  SizeMax = 7
SYMMETRY Symmetry
INVARIANTS
  TypeOK
  PoolConsistent
  NeverOutOfMemory
  EventsFresh
  Accounting
