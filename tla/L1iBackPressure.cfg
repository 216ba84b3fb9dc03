\* A prefetch queue of one entry.
SPECIFICATION MCSpec
CONSTANTS
  Sets = 2
  Ways = 1
  ClSize = 2
  TagSpace = 4
  Lines = {1, 2, 4}
  HitRequestBw <- NoLimit
  MissLatency = 3
  MissByteBw = 1
  InRequestBufferSize = 1
  MaxSteps = 6
  MaxFetches = 2
PROPERTY QueuedPrefetchKept
