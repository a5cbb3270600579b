SPECIFICATION Spec
CONSTANTS
  Grammars <- TwoWaysOnly
  Requests <- RequestsOf
  StartAt <- StartSetOf
  TargetFrom <- TargetOf
  FullStart <- FullStartSetOf
  InFullContext <- PredictionInFull
  ExecATN <- ExecuteATN
  MaxPredictions = 1
  MaxLookahead = 2
INVARIANT
  AssertionsHold
CHECK_DEADLOCK FALSE
