SPECIFICATION SimulatorSpec
CONSTANTS
  Grammars <- AllLexers
  Inputs <- AllTexts
  Candidates <- ReferenceMatches
  Reaches <- ReferenceReach
  StartState <- ComputeStartState
  ReachableSet <- GetReachableConfigSet
  MaxLength <- FewCharacters
  MaxPasses <- FewPasses
  MaxEOFs = 2
INVARIANTS
  TypeOK
  SpansTile
  PositionsAreTrue
  SameTokensAgain
  CacheIsTransparent
PROPERTY
  ImplementsLexer
CHECK_DEADLOCK FALSE
