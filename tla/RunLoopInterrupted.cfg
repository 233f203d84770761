SPECIFICATION Spec
CONSTANTS
  Infos = {c1, c2}
  ReqLen = 2
  RspLen = 2
  BufLen = 2
  RcvBuf = 3
  MaxExtra = 0
  Backend = "epoll"
  Faults = {"wait"}
  MaxCreate = 1
  IsShutdown = FALSE
  RequestCount = 1
  Counters = {}
  CounterMax = 1
  SizeMax = 7
SYMMETRY Symmetry
INVARIANTS
  OnlyReturnedEvents
