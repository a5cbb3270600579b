SPECIFICATION Spec
CONSTANTS
  Grammars <- AllGrammars
  Sentences <- AllSentences
  NextTokensInContext <- LookaheadInContext
  Predict <- Prediction
  MaxTokens <- FewTokens
  MaxContexts = 20
  Courses <- AgainOrFallBack
INVARIANTS
  TypeOK
  ContextsAreCalls
  LeavesAreInput
  ReportsAdvance
  NodesSpanLeaves
  AcceptsSentences
  OperatorsBind
  ParsesAreRepeatable
PROPERTY
  Terminates
CHECK_DEADLOCK FALSE
