\* Four sets, and so one bit of tag.
SPECIFICATION MCPredictorSpec
CHECK_DEADLOCK FALSE
CONSTANTS
  Instructions <- MixedCode
  PredTypes = {"TWO_LEVEL"}
  ExactReferencesPerMiss = 3
  BtbSetBits = 2
  BtbTagMask = {0}
  CallStackSize = 2
  UninitCallStack = {0, 1, 3}
  I = 1
  J = 0
  K = 1
  S = 1
  InitVal = 1
  IntBits = 3
  MaxPredictions = 5
INVARIANTS BtbTagsUnique
