SPECIFICATION Spec
CONSTANTS
  Grammars <- SetOnly
  Sentences <- AllSentences
  NextTokensInContext <- LookaheadInContext
  Predict <- Prediction
  MaxTokens <- FewTokens
  MaxContexts = 20
  Courses <- JustOnce
PROPERTY
  SetMatchesItsTokens
CHECK_DEADLOCK FALSE
