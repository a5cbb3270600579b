SPECIFICATION Spec
CONSTANTS
  Grammars <- CallersOnly
  Sentences <- AllSentences
  NextTokensInContext <- LookaheadInContext
  Predict <- Prediction
  MaxTokens <- FewTokens
  MaxContexts = 20
  Courses <- JustOnce
PROPERTY
  InsertsWhatIsMissing
CHECK_DEADLOCK FALSE
