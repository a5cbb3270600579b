SPECIFICATION Spec
CONSTANTS
  Grammars <- OptionalOnly
  Sentences <- AllSentences
  NextTokensInContext <- LookaheadInContext
  Predict <- Prediction
  MaxTokens <- FewTokens
  MaxContexts = 20
  Courses <- JustOnce
INVARIANT
  ExpectedTokensFollow
CHECK_DEADLOCK FALSE
