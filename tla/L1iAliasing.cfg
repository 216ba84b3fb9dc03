\* More sets than a line has bytes.
SPECIFICATION MCSpec
CONSTANTS
  Sets = 4
  Ways = 1
  ClSize = 2
  TagSpace = 4
  Lines = {0, 2, 4}
  HitRequestBw <- NoLimit
  MissLatency = 3
  MissByteBw = 1
  InRequestBufferSize = 2
  MaxSteps = 6
  MaxFetches = 2
INVARIANTS WaysNotShared
