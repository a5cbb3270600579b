--------------------------- MODULE MCTokenStream ---------------------------
(* Small instances of BufferedTokenStream: every input of up to MaxTokens  *)
(* visible and hidden tokens before EOF, and two with tokens hidden on     *)
(* channels of their own.                                                  *)
EXTENDS BufferedTokenStream, TokenInputs, TLC

CONSTANT MaxTokens

MCSources == Inputs(MaxTokens)
MCSeekTargets == -1..MaxTokens + 1
MCSeekInside  == 0..MaxTokens

============================================================================
