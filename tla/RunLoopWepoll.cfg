SPECIFICATION Spec
CONSTANTS
  Infos = {c1, c2}
  ReqLen = 2
  RspLen = 2
  BufLen = 1
  RcvBuf = 2
  MaxExtra = 0
  Backend = "wepoll"
  Faults = {"fin", "reset", "refuse"}
  MaxCreate = 1
  IsShutdown = FALSE
  RequestCount = 1
  Counters = {}
  CounterMax = 1
  SizeMax = 7
INVARIANTS
  ParserReady
PROPERTIES
  ReadOutBeforeClose
