SPECIFICATION MCSpec
CONSTANTS
  Grammars <- WithTwoWays
  Requests <- RequestsOf
  StartAt <- StartSetOf
  TargetFrom <- TargetOf
  FullStart <- FullStartSetOf
  InFullContext <- PredictionInFull
  ExecATN <- ExecuteATN
  MaxPredictions = 2
  MaxLookahead = 2
INVARIANTS
  TypeOK
  CacheIsSound
  AnswersAreUncached
  GraphsAreStackSets
  FormulasKeepTheirMeaning
  PathsAreKept
PROPERTIES
  CacheOnlyGrows
  PredictionsEnd
CHECK_DEADLOCK FALSE
