\* Up to four requests on a cache of one way; several lines may come from L2 in one cycle.
SPECIFICATION MCPoolSpec
CONSTANTS
  Sets = 2
  Ways = 1
  ClSize = 2
  TagSpace = 4
  Lines = {0, 2}
  HitRequestBw = 1
  MissLatency = 2
  MissByteBw <- NoLimit
  InRequestBufferSize = 1
  MaxSteps = 6
  MaxRequests = 4
INVARIANTS RequestsIntact FreedOnce OnlyDroppedLost
