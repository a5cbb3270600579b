CONSTANTS
  MaxTokens = 3
  Sources <- MCSources
  Filtering = TRUE
  Channel = 0
  SeekTargets <- MCSeekTargets
  Lookaheads = {1, 2, 3}
  MaxFaults = 1
SPECIFICATION Spec
INVARIANTS TypeOK BufferIsPrefix CursorOnSymbol HiddenRunsAreWhole
PROPERTY ImplementsTokenStream
