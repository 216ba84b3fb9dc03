\* An instruction queue smaller than a fetch block.
SPECIFICATION SimSpec
CONSTANTS
  Sets = 2
  Ways = 1
  ClSize = 2
  TagSpace = 4
  Lines = {2, 4}
  HitRequestBw = 1
  MissLatency = 2
  MissByteBw = 1
  InRequestBufferSize = 1
  Addresses = {4, 8}
  TraceLen = 5
  NULL = NULL
  Fallible = {"taken", "not_taken"}
  Prefetch = TRUE
  PrefetchType = "BR_PREDICTOR"
  pf_pipe_width = 1
  fe_pipe_width = 4
  pd_pipe_width = 2
  d_pipe_width = 1
  f_buffer_size = 2
  iq_buffer_size = 1
  RetireLimit = 4
  UninitValues = {7}
INVARIANTS FetchBlockFits
