SPECIFICATION SimulatorSpec
CONSTANTS
  Grammars <- MidActionOnly
  Inputs <- AllTexts
  Candidates <- ReferenceMatches
  Reaches <- ReferenceReach
  StartState <- ComputeStartState
  ReachableSet <- GetReachableConfigSet
  MaxLength <- FewCharacters
  MaxPasses <- FewPasses
  MaxEOFs = 2
INVARIANT ActionsRunInPlace
CHECK_DEADLOCK FALSE
