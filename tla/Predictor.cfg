\* Every configuration, over code of every kind; an as predictor: pattern tables in two sets, two history registers of two bits in a three-bit int.
SPECIFICATION MCPredictorSpec
CHECK_DEADLOCK FALSE
CONSTANTS
  Instructions <- MixedCode
  PredTypes = {"NONE", "TWO_LEVEL", "PERFECT", "EXACT", "DISABLED"}
  ExactReferencesPerMiss = 3
  BtbSetBits = 2
  BtbTagMask = {0}
  CallStackSize = 2
  UninitCallStack = {0, 3}
  I = 1
  J = 2
  K = 2
  S = 1
  InitVal = 1
  IntBits = 3
  MaxPredictions = 7
INVARIANTS PredictorTypeOK MispredictionsAddUp ReturnsBacked ExactSpacing BtbHoldsLast LearnsSteadyBranch
PROPERTY ImplementsHistory
