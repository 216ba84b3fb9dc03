\* Four requests at a time for two lines of one set of one way, a slow bus and two answers of memory at a time.
SPECIFICATION MCHierSpec
CONSTANTS
  Sets = 2
  Ways = 1
  ClSize = 2
  TagSpace = 2
  Requests = {r1, r2, r3, r4}
  DataAddrs = {0, 4}
  HitLatency = 2
  InRequestBufferSize = 2
  BusSpeed = 2
  MemLatency = 6
  Mlp = 2
  UninitRes = {"SUCCESS", "FAIL"}
  MaxSteps = 11
SYMMETRY RequestSymmetry
INVARIANTS HierTypeOK CompletionsDistinct
PROPERTIES CacheAnswers MemoryAnswers
