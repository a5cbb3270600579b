----------------------------- MODULE TokenInputs -----------------------------
(* The inputs the token streams are run with: tokens that a filtering      *)
(* stream shows and tokens hidden on one or two channels, before EOF.      *)
EXTENDS Integers, Sequences

Visible == [type |-> 1, channel |-> 0]
Hidden  == [type |-> 2, channel |-> 1]
Comment == [type |-> 2, channel |-> 2]
EndOfInput == [type |-> -1, channel |-> 0]

Inputs(most) ==
  UNION {{Append(body, EndOfInput) : body \in [1..n -> {Visible, Hidden}]} : n \in 0..most}
    \cup {<<Visible, Hidden, Comment, EndOfInput>>, <<Comment, Hidden, Visible, EndOfInput>>}
=============================================================================
