CONSTANTS
  MaxTokens = 3
  Sources <- MCSources
  Filtering = TRUE
  Channel = 0
  SeekTargets <- MCSeekTargets
  Lookaheads = {1, 2}
  MaxFaults = 0
SPECIFICATION Spec
INVARIANT GetTextIsWhole
