SPECIFICATION FairSpec
CONSTANTS
  Infos = {c1}
  ReqLen = 2
  RspLen = 2
  BufLen = 2
  RcvBuf = 3
  MaxExtra = 0
  Backend = "epoll"
  Faults = {}
  MaxCreate = 1
  IsShutdown = FALSE
  RequestCount = 2
  Counters = {"sent"}
  CounterMax = 3
  SizeMax = 7
PROPERTIES
  EndsAtRequestCount
