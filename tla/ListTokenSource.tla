--------------------------- MODULE ListTokenSource ---------------------------
(***************************************************************************)
(* ListTokenSource.ts: a token source that hands out the tokens of a list, *)
(* and an EOF token it makes up when the list has none at its end.  What   *)
(* it says of its place, before and after the end, is worked out from the  *)
(* tokens.                                                                 *)
(*                                                                         *)
(* Of a character it matters whether it ends a line, and whether it takes  *)
(* one UTF-16 unit or two.                                                 *)
(***************************************************************************)
EXTENDS Integers, Sequences
LOCAL INSTANCE SequencesExt

CONSTANTS
  MaxTokens,    \* bounds the tokens of a list
  MaxText,      \* bounds the characters of a token
  MaxCalls      \* bounds the calls of nextToken

VARIABLES
  tokens,       \* the list, which no step changes
  i,            \* the index of the next token; in TLA+ it is tokens[i + 1]
  eofToken,     \* Nothing, or the EOF token
  handed,       \* history: what nextToken returned
  text          \* history: the text that the tokens are of, or Unknown

vars == <<tokens, i, eofToken, handed, text>>

Nothing == <<>>
Unknown == <<"unknown">>
Characters == {"letter", "astral", "newline"}
EOF == -1

NewLines(s) == Len(SelectSeq(s, LAMBDA c : c = "newline"))
LastNewLine(s) == SelectLastInSeq(s, LAMBDA c : c = "newline")
Units(s) == Len(s) + Len(SelectSeq(s, LAMBDA c : c = "astral"))
LastOf(s) == s[Len(s)]

-----------------------------------------------------------------------------
(* The place of the source: that of the next token, of EOF, or of the end  *)
(* of the last token.                                                      *)

Line ==
  IF i < Len(tokens) THEN tokens[i + 1].line
  ELSE IF eofToken # Nothing THEN eofToken.line
  ELSE IF tokens # <<>> THEN LastOf(tokens).line + NewLines(LastOf(tokens).text)
  ELSE 1

(* A mutant of ColumnBehind that does not see the end of a line. *)
ColumnOnTheLine(t) == t.column + t.stop - t.start + 1

(* The column behind a token: in units of the text after its last newline, *)
(* or in code points from where it starts.                                 *)
ColumnBehind(t) ==
  LET n == LastNewLine(t.text) IN
  IF n > 0 THEN Units(SubSeq(t.text, n + 1, Len(t.text)))
  ELSE t.column + t.stop - t.start + 1

CharPositionInLine ==
  IF i < Len(tokens) THEN tokens[i + 1].column
  ELSE IF eofToken # Nothing THEN eofToken.column
  ELSE IF tokens # <<>> THEN ColumnBehind(LastOf(tokens))
  ELSE 0

InputStream ==
  IF i < Len(tokens) THEN tokens[i + 1].stream
  ELSE IF eofToken # Nothing THEN eofToken.stream
  ELSE IF tokens # <<>> THEN LastOf(tokens).stream
  ELSE Nothing

-----------------------------------------------------------------------------
(* Lists: of the tokens a lexer cuts a text into, EOF among them or not;   *)
(* the last may be one without a place, as the tags of a tree pattern are. *)

Token(type, start, line, column, pieces) ==
  [type |-> type, start |-> start, stop |-> start + Len(pieces) - 1, line |-> line,
   column |-> column, text |-> pieces, stream |-> <<"text">>]
Tag == [type |-> 1, start |-> -1, stop |-> -1, line |-> 0, column |-> -1,
        text |-> <<"letter">>, stream |-> Nothing]

(* The token that the piece of a text behind some other text is. *)
TokenBehind(before, type, piece) ==
  Token(type, Len(before), 1 + NewLines(before), Len(before) - LastNewLine(before), piece)

Lexed(pieces) ==
  [n \in DOMAIN pieces |-> TokenBehind(FlattenSeq(SubSeq(pieces, 1, n - 1)), 1, pieces[n])]

Init ==
  /\ \E pieces \in BoundedSeq(BoundedSeq(Characters, MaxText) \ {<<>>}, MaxTokens) :
       LET whole == FlattenSeq(pieces) IN
       \/ tokens = Lexed(pieces) /\ text = whole
       \/ tokens = Append(Lexed(pieces), TokenBehind(whole, EOF, <<>>)) /\ text = whole
       \/ tokens = Append(Lexed(pieces), Tag) /\ text = Unknown
  /\ i = 0
  /\ eofToken = Nothing
  /\ handed = <<>>

MadeUp ==
  LET start == IF tokens = <<>> \/ LastOf(tokens).stop = -1 THEN -1 ELSE LastOf(tokens).stop + 1
  IN [type |-> EOF, start |-> start, stop |-> IF start - 1 > -1 THEN start - 1 ELSE -1,
      line |-> Line, column |-> CharPositionInLine, text |-> <<>>, stream |-> InputStream]

NextToken ==
  /\ Len(handed) < MaxCalls
  /\ IF i >= Len(tokens)
     THEN /\ eofToken' = IF eofToken = Nothing THEN MadeUp ELSE eofToken
          /\ i' = i
          /\ handed' = Append(handed, eofToken')
     ELSE /\ eofToken' = IF i = Len(tokens) - 1 /\ tokens[i + 1].type = EOF
                         THEN tokens[i + 1] ELSE eofToken
          /\ i' = i + 1
          /\ handed' = Append(handed, tokens[i + 1])
  /\ UNCHANGED <<tokens, text>>

Next == NextToken

Spec == Init /\ [][Next]_vars

-----------------------------------------------------------------------------
(* Where a lexer that reads a text is at its end. *)
EndOf(whole) ==
  [start |-> Len(whole), line |-> 1 + NewLines(whole), column |-> Len(whole) - LastNewLine(whole)]

(* The list, then one EOF, for ever; and the EOF a list has not got is     *)
(* where a lexer that reads the text of the tokens would put it, as is     *)
(* what the source says of its place when it is asked before: unless its   *)
(* last token ends a line and goes on with a character of two units, which *)
(* is taken for two columns (ListTokenSource.ts:94); and an empty list has *)
(* its EOF nowhere.                                                        *)
EndIsPlaced ==
  LET ends == handed # <<>> /\ LastOf(handed).type = EOF
      astral == /\ tokens # <<>>
                /\ LET t == LastOf(tokens).text IN
                   \E a \in DOMAIN t : t[a] = "astral" /\ a > LastNewLine(t) /\ LastNewLine(t) > 0
  IN /\ \A n \in DOMAIN handed :
          handed[n] = IF n <= Len(tokens) THEN tokens[n] ELSE LastOf(handed)
     /\ ends => \A n \in DOMAIN handed : handed[n].type = EOF => handed[n] = LastOf(handed)
     /\ i = Len(tokens) /\ text # Unknown =>
          /\ Line = EndOf(text).line
          /\ astral \/ CharPositionInLine = EndOf(text).column
          /\ ends /\ tokens # <<>> =>
               /\ LastOf(handed).start = EndOf(text).start
               /\ LastOf(handed).stop = EndOf(text).start - 1
=============================================================================
