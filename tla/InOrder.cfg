\* Blocks of up to two instructions over three lines of one set of two ways; memory answers before the latency of the cache is over.
SPECIFICATION MCInOrderSpec
CONSTANTS
  Sets = 2
  Ways = 2
  ClSize = 2
  TagSpace = 4
  Requests = {r1, r2}
  DataAddrs = {4, 5, 8, 12}
  HitLatency = 3
  InRequestBufferSize = 1
  BusSpeed = 2
  MemLatency = 2
  Mlp = 1
  UninitRes = {"SUCCESS", "FAIL"}
  Addresses = {4, 5, 8, 12}
  TraceLen = 5
  NULL = NULL
  FePipeDepth = 2
  FePipeWidth = 2
  MaxSteps = 26
INVARIANTS FetchOutstanding FetchPaced LinesListedOnce
PROPERTIES InOrderPipe TraceConsumed
