\* The whole simulator, with each predictor.
SPECIFICATION ReportSpec
CONSTANTS
  Sets = 2
  Ways = 1
  ClSize = 2
  TagSpace = 4
  Lines = {2, 4}
  HitRequestBw = 1
  MissLatency = 2
  MissByteBw = 1
  InRequestBufferSize = 1
  Addresses = {4, 8}
  TraceLen = 5
  NULL = NULL
  Fallible = {"taken", "not_taken"}
  Prefetch = TRUE
  PrefetchType = "BR_PREDICTOR"
  pf_pipe_width = 1
  fe_pipe_width = 4
  pd_pipe_width = 2
  d_pipe_width = 1
  f_buffer_size = 2
  iq_buffer_size = 2
  RetireLimit = 4
  UninitValues = {7}
  PredTypes = {"NONE", "TWO_LEVEL", "PERFECT", "EXACT", "DISABLED"}
  ExactReferencesPerMiss = 2
  BtbSetBits = 1
  BtbTagMask = {}
  CallStackSize = 1
  UninitCallStack = {0, 2}
  I = 0
  J = 0
  K = 1
  S = 0
  InitVal = 1
  IntBits = 2
INVARIANTS FetchRequestsCounted MissesCostStalls FlushesCostCycles
