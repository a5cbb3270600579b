-------------------------------- MODULE Lexer --------------------------------
(***************************************************************************)
(* Lexer.ts: nextToken() over an ideal simulator.  What the simulator      *)
(* matches at a place is one of a set of matches, which are a parameter;   *)
(* of those the lexer promises the longest, and of the longest the one of  *)
(* the rule that comes first.  LexerATNSimulator is how the code finds it, *)
(* a character at a time, with a cache.                                    *)
(*                                                                         *)
(* A match is a record [rule, stop, actions, prompt]: the rule of the      *)
(* token, the index behind the text, the lexer actions met on the way, and *)
(* whether it passed a non-greedy decision.  An action is a record with a  *)
(* `kind', one for each of the lexer actions of the code, and an `offset'  *)
(* when it has to run at a certain place.                                  *)
(***************************************************************************)
EXTENDS ATN

CONSTANTS
  Grammars,                 \* the ATNs of lexers
  Inputs(_),                \* the texts read with one
  Candidates(_, _, _, _),   \* grammar, mode, text, index -> the matches there
  Reaches(_, _, _, _),      \* and the index up to which a rule could go on
  MaxPasses,                \* per grammar, how often a lexer starts on an input
  MaxEOFs                   \* and how often EOF is asked for

VARIABLES
  g,          \* the ATN, which no step changes
  input,      \* the text, a sequence of characters
  lexer,      \* the lexer's fields (Fresh)
  earlier     \* the inputs read before, with what came out of them

lexerVars == <<g, input, lexer, earlier>>

INVALID_TYPE == 0
MORE == -2
SKIP == -3
DEFAULT_MODE == 0
DEFAULT_CHANNEL == 0
NEWLINE == 1            \* the character that ends a line
NoOffset == -1          \* an action whose place is not fixed

(* What comes out of a text, besides tokens and what is skipped.           *)
ERROR_TEXT == -4        \* reported as an error, and dropped
LOST_TEXT == -5         \* matched, but an action threw

TokenTypes == Nat \cup {EOF}

(* What comes out of the ANTLR tool and the deserializer: there is a first *)
(* mode, rules have types of tokens, and characters are not EOF.           *)
ASSUME LexersAreWellFormed ==
  \A h \in Grammars :
    /\ DEFAULT_MODE \in DOMAIN h.modeToStartState
    /\ \A s \in DOMAIN h.type :
         h.type[s] = "RULE_STOP" => h.ruleToTokenType[h.rule[s]] \in TokenTypes
    /\ Inputs(h) \subseteq Seq(Nat)

Fresh ==
  [index |-> 0, line |-> 1, column |-> 0,          \* the stream, the simulator
   mode |-> DEFAULT_MODE, modeStack |-> <<>>, hitEOF |-> FALSE,
   start |-> [index |-> 0, line |-> 1, column |-> 0],
   type |-> INVALID_TYPE, channel |-> DEFAULT_CHANNEL,
   calling |-> "no",    \* where nextToken is: in the inner loop, or to go on
   thrown |-> FALSE,
   out |-> <<>>,        \* all that came out so far, in order
   ran |-> <<>>]        \* the custom actions run, and where the stream was

-----------------------------------------------------------------------------
(* Characters and positions. *)

LA(l) == IF l.index < Len(input) THEN input[l.index + 1] ELSE EOF

(* LexerATNSimulator.consume. *)
ConsumeChar(l) ==
  [l EXCEPT !.index = @ + 1,
            !.line = IF LA(l) = NEWLINE THEN @ + 1 ELSE @,
            !.column = IF LA(l) = NEWLINE THEN 0 ELSE @ + 1]

(* Mutants of Recover: one stops in front of the character that does not   *)
(* fit, one drops a character at the end of the text.                      *)
RecoverNothing(l) == l
RecoverAlways(l) == ConsumeChar(l)

(* Lexer.recover: the character that does not fit is dropped too.          *)
Recover(l) == IF LA(l) = EOF THEN l ELSE ConsumeChar(l)

(* Where index i is: the line, and the column within it. *)
NewlinesBefore(i) == {k \in 1 .. i : input[k] = NEWLINE}
LineAt(i) == 1 + Cardinality(NewlinesBefore(i))
ColumnAt(i) ==
  IF NewlinesBefore(i) = {} THEN i
  ELSE i - (CHOOSE k \in NewlinesBefore(i) : \A m \in NewlinesBefore(i) : m <= k)
At(l, i) == [l EXCEPT !.index = i, !.line = LineAt(i), !.column = ColumnAt(i)]

-----------------------------------------------------------------------------
(* The lexer actions (Lexer*Action.ts).  A custom action is the user's:    *)
(* what it finds is the stream's index.                                    *)

(* An action with what it needs, as the deserializer makes them. *)
IsAction(h, a) ==
  /\ a.kind \in {"skip", "more", "type", "channel", "mode", "pushMode", "popMode", "custom"}
  /\ "offset" \in DOMAIN a /\ a.offset \in Nat \cup {NoOffset}
  /\ a.kind = "type" => a.type \in TokenTypes
  /\ a.kind = "channel" => a.channel \in Nat
  /\ a.kind \in {"mode", "pushMode"} => a.mode \in DOMAIN h.modeToStartState

Perform(l, a) ==
  CASE a.kind = "skip" -> [l EXCEPT !.type = SKIP]
    [] a.kind = "more" -> [l EXCEPT !.type = MORE]
    [] a.kind = "type" -> [l EXCEPT !.type = a.type]
    [] a.kind = "channel" -> [l EXCEPT !.channel = a.channel]
    [] a.kind = "mode" -> [l EXCEPT !.mode = a.mode]
    [] a.kind = "pushMode" -> [l EXCEPT !.modeStack = <<l.mode>> \o @, !.mode = a.mode]
    [] a.kind = "popMode" /\ l.modeStack = <<>> -> [l EXCEPT !.thrown = TRUE]
    [] a.kind = "popMode" /\ l.modeStack # <<>> ->
         [l EXCEPT !.mode = Head(l.modeStack), !.modeStack = Tail(@)]
    [] a.kind = "custom" -> [l EXCEPT !.ran = Append(@, [id |-> a.id, at |-> l.index])]

(* All actions of a match, each where it stands in the text, up to one     *)
(* that throws.                                                            *)
PerformInPlace(l, actions) ==
  LET One(m, a) ==
        IF m.thrown THEN m
        ELSE [Perform([m EXCEPT !.index = IF a.offset = NoOffset THEN m.index ELSE a.offset], a)
                EXCEPT !.index = l.index]
      after[k \in 0 .. Len(actions)] ==
        IF k = 0 THEN l ELSE One(after[k - 1], actions[k])
  IN after[Len(actions)]

-----------------------------------------------------------------------------
(* nextToken. *)

Emit(l, type) ==
  [l EXCEPT !.out = Append(@, [type |-> type, channel |-> l.channel, at |-> l.start,
                               stop |-> l.index - 1])]

EmitEOF(l) ==
  [l EXCEPT !.calling = "no",
            !.out = Append(@, [type |-> EOF, channel |-> DEFAULT_CHANNEL,
                               at |-> [index |-> l.index, line |-> l.line, column |-> l.column],
                               stop |-> l.index - 1])]

BeginToken(l) ==
  [l EXCEPT !.calling = "match", !.type = INVALID_TYPE, !.channel = DEFAULT_CHANNEL,
            !.start = [index |-> l.index, line |-> l.line, column |-> l.column]]

(* After a match: the type it predicts stands unless an action set one.    *)
AfterMatch(l, ttype) ==
  LET type  == IF l.type = INVALID_TYPE THEN ttype ELSE l.type
      after == [l EXCEPT !.hitEOF = @ \/ LA(l) = EOF, !.type = type]
  IN CASE type = SKIP -> [Emit(after, SKIP) EXCEPT !.calling = "again"]
       [] type = MORE -> [after EXCEPT !.type = INVALID_TYPE]
       [] OTHER -> [Emit(after, type) EXCEPT !.calling = "no"]

(* After a token recognition error, the simulator having got to l.index.   *)
AfterError(l) ==
  LET r == Recover(l) IN
  [Emit(r, ERROR_TEXT) EXCEPT !.hitEOF = @ \/ LA(r) = EOF, !.type = SKIP,
                              !.calling = "again"]

(* An exception of an action leaves nextToken. *)
AfterThrow(l) == [Emit(l, LOST_TEXT) EXCEPT !.thrown = FALSE, !.calling = "no"]

(* A call of nextToken, or its outer loop once more after a skip. *)
EOFs == Cardinality({i \in DOMAIN lexer.out : lexer.out[i].type = EOF})
NextToken ==
  /\ lexer.calling = "again" \/ (lexer.calling = "no" /\ EOFs < MaxEOFs)
  /\ lexer' = IF lexer.hitEOF THEN EmitEOF(lexer) ELSE BeginToken(lexer)
  /\ UNCHANGED <<g, input, earlier>>

(* Of the matches there are, those of a rule that went through a           *)
(* non-greedy decision count only when they are the rule's shortest; of    *)
(* those that count the longest, and of them the first rule's, is best.    *)
Eligible(C) ==
  {c \in C : c.prompt => \A d \in C : d.rule = c.rule => c.stop <= d.stop}
Best(C) ==
  {c \in Eligible(C) : \A d \in Eligible(C) :
     d.stop < c.stop \/ (d.stop = c.stop /\ c.rule <= d.rule)}

MatchesHere == Candidates(g, lexer.mode, input, lexer.index)

MatchToken ==
  /\ lexer.calling = "match"
  /\ \E c \in Best(MatchesHere) :
       \E after \in {PerformInPlace(At(lexer, c.stop), c.actions)} :
         lexer' = IF after.thrown THEN AfterThrow(after)
                  ELSE AfterMatch(after, g.ruleToTokenType[c.rule])
  /\ UNCHANGED <<g, input, earlier>>

MatchEOF ==
  /\ lexer.calling = "match" /\ MatchesHere = {} /\ LA(lexer) = EOF
  /\ lexer' = AfterMatch(lexer, EOF)
  /\ UNCHANGED <<g, input, earlier>>

MatchNothing ==
  /\ lexer.calling = "match" /\ MatchesHere = {} /\ LA(lexer) # EOF
  /\ lexer' = AfterError(At(lexer, Reaches(g, lexer.mode, input, lexer.index)))
  /\ UNCHANGED <<g, input, earlier>>

(* A mutant of Clear that stays in the modes it is in. *)
ClearButModes(l) ==
  [l EXCEPT !.index = 0, !.line = 1, !.column = 0, !.hitEOF = FALSE,
            !.type = INVALID_TYPE, !.channel = DEFAULT_CHANNEL,
            !.start = [index |-> -1, line |-> -1, column |-> -1],
            !.out = <<>>, !.ran = <<>>]

(* reset, and the reset of the simulator; `out' and `ran' begin anew.      *)
Clear(l) ==
  [l EXCEPT !.index = 0, !.line = 1, !.column = 0, !.hitEOF = FALSE,
            !.mode = DEFAULT_MODE, !.modeStack = <<>>,
            !.type = INVALID_TYPE, !.channel = DEFAULT_CHANNEL,
            !.start = [index |-> -1, line |-> -1, column |-> -1],
            !.out = <<>>, !.ran = <<>>]

(* Between two calls the lexer is reset, or given another text.            *)
StartAgain(text) ==
  /\ lexer.calling = "no" /\ Len(earlier) + 1 < MaxPasses[g.name]
  /\ earlier' = Append(earlier, [input |-> input, out |-> lexer.out])
  /\ lexer' = Clear(lexer) /\ input' = text
  /\ UNCHANGED g
Reset == StartAgain(input)
SetInputStream == \E text \in Inputs(g) \ {input} : StartAgain(text)

Init ==
  /\ g \in Grammars
  /\ input \in Inputs(g)
  /\ lexer = Fresh
  /\ earlier = <<>>

Next == NextToken \/ MatchToken \/ MatchEOF \/ MatchNothing \/ Reset \/ SetInputStream

Spec == Init /\ [][Next]_lexerVars

-----------------------------------------------------------------------------
(* What the lexer has to do. *)

Indexes == 0 .. Len(input)
Position == [index : Indexes, line : Indexes \cup {Len(input) + 1}, column : Indexes]

(* The fields keep their types: every token begins and ends within the     *)
(* text, and the modes are modes of the grammar.                           *)
LexerTypeOK ==
  /\ lexer.index \in Indexes
  /\ lexer.mode \in DOMAIN g.modeToStartState
  /\ \A i \in DOMAIN lexer.modeStack : lexer.modeStack[i] \in DOMAIN g.modeToStartState
  /\ lexer.calling \in {"no", "match", "again"}
  /\ lexer.calling = "match" => lexer.start \in Position
  /\ lexer.calling # "match" => ~lexer.thrown
  /\ \A i \in DOMAIN lexer.out :
       /\ lexer.out[i].at \in Position
       /\ lexer.out[i].stop \in {-1} \cup (Indexes \ {Len(input)})

(* What comes out tiles the text: tokens, skipped text, text in error and  *)
(* text lost to an exception follow one another without gap or overlap,    *)
(* text in error is never empty, so that the lexer gets on,                *)
(* and between two matches the stream stands behind the last of them,      *)
(* however far the simulator had read ahead and wherever actions had moved *)
(* the stream to (LexerATNSimulator.accept, LexerActionExecutor.execute).  *)
SpansTile ==
  LET out == lexer.out IN
  /\ out # <<>> => out[1].at.index = 0
  /\ \A i \in 2 .. Len(out) : out[i].at.index = out[i - 1].stop + 1
  /\ \A i \in DOMAIN out : out[i].type = ERROR_TEXT => out[i].stop >= out[i].at.index
  /\ lexer.calling # "match" =>
       lexer.index = IF out = <<>> THEN 0 ELSE out[Len(out)].stop + 1

(* Line and column are those of the stream's index, and those of a token   *)
(* are those of its first character, although the simulator takes back     *)
(* characters read ahead and predicates are asked one character early.     *)
PositionsAreTrue ==
  /\ lexer.line = LineAt(lexer.index) /\ lexer.column = ColumnAt(lexer.index)
  /\ \A i \in DOMAIN lexer.out :
       LET at == lexer.out[i].at IN
       at.line = LineAt(at.index) /\ at.column = ColumnAt(at.index)

(* A lexer that is reset gives the same tokens for the same text again,    *)
(* whatever it read in between, in whichever mode it was left, and even if *)
(* an action threw (Lexer.reset, and the cache that outlives it).          *)
SameTokensAgain ==
  \A i \in DOMAIN earlier :
    earlier[i].input = input =>
      \A k \in DOMAIN lexer.out \cap DOMAIN earlier[i].out : lexer.out[k] = earlier[i].out[k]
=============================================================================
