SPECIFICATION FairSpec
CONSTANTS
  Infos = {c1, c2}
  ReqLen = 2
  RspLen = 2
  BufLen = 1
  RcvBuf = 1
  MaxExtra = 0
  Backend = "epoll"
  Faults = {"refuse", "fin", "reset", "partial"}
  MaxCreate = 1
  IsShutdown = FALSE
  RequestCount = 1
  Counters = {"sent", "recved"}
  CounterMax = 1
  SizeMax = 7
INVARIANTS
  StreamAligned
  InterestMatches
PROPERTIES
  RefinesRequestCycle
  KeepsReceiving
  DataIsRead
  FinIsClosed
