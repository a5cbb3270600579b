CONSTANTS
  Reachable <- SomeConfigurations
  StopStates <- OneStop
  MaxObjects = 4
  MaxStates = 3
SPECIFICATION MCSpec
INVARIANTS
  SetsAreMerged
  StatesNeverChange
  BufferIsPrefix
  EditsAreCarriedOut
  CodePointsAreDecoded
  EndIsPlaced
  OperationsAreOnSets
  QueriesAnswerContent
  ListsAreCanonical
  ListsAreSequences
PROPERTIES
  ListsAreSets
  ElementsAreInterned
CHECK_DEADLOCK FALSE
