\* Sets of two ways that overflow, one port, L2 without a limit, so that several lines come in a cycle.
SPECIFICATION MCSpec
CONSTANTS
  Sets = 2
  Ways = 2
  ClSize = 2
  TagSpace = 4
  Lines = {0, 2, 4}
  HitRequestBw = 1
  MissLatency = 2
  MissByteBw <- NoLimit
  InRequestBufferSize = 1
  MaxSteps = 9
  MaxFetches = 2
INVARIANTS TypeOK MshrCoherent NoOverdueMiss FetchBackedByMiss SetCoherent WaysNotShared
PROPERTY FetchesInOrder
