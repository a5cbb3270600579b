------------------------------ MODULE LexerWalks ------------------------------
(***************************************************************************)
(* The sets of configurations that LexerATNSimulator meets in reading one  *)
(* token, as a walk from the start state on, and how they have to find the *)
(* matches of Lexer (SetsFindMatches).  That is what the refinement rests  *)
(* on; MCLexer has it evaluated for its lexers (MatchesAreFound).          *)
(***************************************************************************)
EXTENDS LexerATNSimulator

(* An action with its place in the text, one without at the end.           *)
PlacedAction(action, start, stop) ==
  [action EXCEPT !.offset = IF @ # NoOffset THEN start + @
                            ELSE IF action.kind = "custom" THEN stop ELSE @]
Placed(actions, start, stop) ==
  [k \in DOMAIN actions |-> PlacedAction(actions[k], start, stop)]

(* The sets met in reading a token at index i of the text w: each with the *)
(* index it is met at, and whether it ends a rule behind the end of the    *)
(* text, where execATN stops.  A set is met when it is in every family     *)
(* that has the beginning and with each set the next.                      *)
NewlinesIn(w, i) == {k \in 1 .. i : w[k] = NEWLINE}
ColumnOf(w, i) ==
  IF NewlinesIn(w, i) = {} THEN i
  ELSE i - (CHOOSE k \in NewlinesIn(w, i) : \A m \in NewlinesIn(w, i) : m <= k)
SymbolAt(w, i) == IF i < Len(w) THEN w[i + 1] ELSE EOF
EndsOf(h, configs) == {k \in DOMAIN configs : h.type[configs[k].state] = "RULE_STOP"}

Beginning(h, mode, w, i) ==
  [configs |-> StartState(h, mode, ColumnOf(w, i)).configs, at |-> i, over |-> FALSE]
After(h, w, i, x) ==
  LET symbol == SymbolAt(w, x.at)
      column == IF symbol = NEWLINE THEN 0 ELSE ColumnOf(w, x.at) + 1
      next   == ReachableSet(h, x.configs, symbol, column, x.at - i).configs
  IN [configs |-> next, at |-> IF symbol = EOF THEN x.at ELSE x.at + 1,
      over |-> symbol = EOF /\ EndsOf(h, next) # {}]

GoesOn(h, w, i, x) == ~x.over /\ After(h, w, i, x).configs # NoSet
IsWalk(h, w, i, family) ==
  \A x \in family : GoesOn(h, w, i, x) => After(h, w, i, x) \in family
Ahead(h, w, i, x, y) == \A family : x \in family /\ IsWalk(h, w, i, family) => y \in family
Met(h, mode, w, i, y) == Ahead(h, w, i, Beginning(h, mode, w, i), y)

(* The match that a set has found. *)
Finds(h, mode, w, i, x) ==
  LET matches == Eligible(Candidates(h, mode, w, i))
      end     == x.configs[MinimumOf(EndsOf(h, x.configs))]
  IN \E c \in matches :
       /\ c.stop = x.at /\ c.rule = h.rule[end.state]
       /\ c.actions = Placed(end.actions, i, x.at)
       /\ x.over \/ ~After(h, w, i, x).over =>
            \A d \in matches : d.stop = x.at => c.rule <= d.rule

(* What the refinement needs of the sets and of the matches: a set has an  *)
(* end where and only where a match ends that counts, the first end is of  *)
(* the first rule with a match there, unless the end of the text ends      *)
(* another, and without a match the sets end where the rules cannot go on. *)
SetsFindMatches ==
  \A h \in Grammars : \A mode \in DOMAIN h.modeToStartState :
    \A w \in Inputs(h) : \A i \in 0 .. Len(w) :
      /\ \A c \in Candidates(h, mode, w, i) : c.stop \in i .. Len(w)
      /\ \A d \in Eligible(Candidates(h, mode, w, i)) :
           \E x : Met(h, mode, w, i, x) /\ x.at = d.stop /\ EndsOf(h, x.configs) # {}
      /\ \A x : Met(h, mode, w, i, x) /\ EndsOf(h, x.configs) # {} => Finds(h, mode, w, i, x)
      /\ Candidates(h, mode, w, i) = {} =>
           \A x : Met(h, mode, w, i, x) /\ ~x.over /\ After(h, w, i, x).configs = NoSet =>
             Reaches(h, mode, w, i) = x.at
================================================================================
