-------------------------------- MODULE MCLexer --------------------------------
(* Small lexers for LexerATNSimulator, their ATNs as ANTLR lays them out.    *)
(* The characters are 1, the end of a line, and a, b, c.                     *)
EXTENDS LexerWalks, LexerConfigurations, SerializedATN, LexicalLanguage
LOCAL INSTANCE SequencesExt
LOCAL INSTANCE TLC

CONSTANT MaxLength      \* per grammar, the longest text read with it

a == 2
b == 3
c == 4

Do(act, s) == [kind |-> "action", action |-> act @@ [offset |-> NoOffset], target |-> s]
AtColumn(columns, s) == [kind |-> "predicate", columns |-> columns, target |-> s]
Skip == [kind |-> "skip"]
More == [kind |-> "more"]
Type(t) == [kind |-> "type", type |-> t]
Channel(n) == [kind |-> "channel", channel |-> n]
Mode(m) == [kind |-> "mode", mode |-> m]
PushMode(m) == [kind |-> "pushMode", mode |-> m]
PopMode == [kind |-> "popMode"]
Custom(id) == [kind |-> "custom", id |-> id]

(* KEYWORD : a b ;  ID : (a | b)+ ;  BOX : b \n b ;  NL : \n -> channel(1) ; *)
KeywordsATN == <<
  State("TOKEN_START", NoRule, <<To(2), To(6), To(13), To(18)>>),
  State("RULE_START", 1, <<To(3)>>),
  Basic(1, <<Token(a, 4)>>),
  Basic(1, <<Token(b, 5)>>),
  State("RULE_STOP", 1, <<>>),
  State("RULE_START", 2, <<To(7)>>),
  State("PLUS_BLOCK_START", 2, <<To(8)>>),
  Basic(2, <<OneOf({a, b}, 9)>>),
  State("BLOCK_END", 2, <<To(10)>>),
  State("PLUS_LOOP_BACK", 2, <<To(7), To(11)>>),
  State("LOOP_END", 2, <<To(12)>>),
  State("RULE_STOP", 2, <<>>),
  State("RULE_START", 3, <<To(14)>>),
  Basic(3, <<Token(b, 15)>>),
  Basic(3, <<Token(NEWLINE, 16)>>),
  Basic(3, <<Token(b, 17)>>),
  State("RULE_STOP", 3, <<>>),
  State("RULE_START", 4, <<To(19)>>),
  Basic(4, <<Token(NEWLINE, 20)>>),
  Basic(4, <<Do(Channel(1), 21)>>),
  State("RULE_STOP", 4, <<>>)>>

(* COMMENT : a .*? b -> skip ;  ABC : a b c ;  B : b -> type(9) ;            *)
CommentsATN == <<
  State("TOKEN_START", NoRule, <<To(2), To(13), To(18)>>),
  State("RULE_START", 1, <<To(3)>>),
  Basic(1, <<Token(a, 4)>>),
  State("STAR_LOOP_ENTRY", 1, <<To(9), To(5)>>),
  State("STAR_BLOCK_START", 1, <<To(6)>>),
  Basic(1, <<AnyToken(7)>>),
  State("BLOCK_END", 1, <<To(8)>>),
  State("STAR_LOOP_BACK", 1, <<To(4)>>),
  State("LOOP_END", 1, <<To(10)>>),
  Basic(1, <<Token(b, 11)>>),
  Basic(1, <<Do(Skip, 12)>>),
  State("RULE_STOP", 1, <<>>),
  State("RULE_START", 2, <<To(14)>>),
  Basic(2, <<Token(a, 15)>>),
  Basic(2, <<Token(b, 16)>>),
  Basic(2, <<Token(c, 17)>>),
  State("RULE_STOP", 2, <<>>),
  State("RULE_START", 3, <<To(19)>>),
  Basic(3, <<Token(b, 20)>>),
  Basic(3, <<Do(Type(9), 21)>>),
  State("RULE_STOP", 3, <<>>)>>

(* OPEN : a -> pushMode(1) ;  CLOSE : c -> popMode ;  B : b -> more, mode(2) ; *)
(* mode 1: IN : a* -> popMode ;  QUOTE : b -> more ;  DEEPER : c -> pushMode(1) ; *)
(* mode 2: LAST : b -> mode(0) ;                                               *)
ModesATN == <<
  State("TOKEN_START", NoRule, <<To(4), To(8), To(12)>>),
  State("TOKEN_START", NoRule, <<To(17), To(26), To(30)>>),
  State("TOKEN_START", NoRule, <<To(34)>>),
  State("RULE_START", 1, <<To(5)>>),
  Basic(1, <<Token(a, 6)>>),
  Basic(1, <<Do(PushMode(1), 7)>>),
  State("RULE_STOP", 1, <<>>),
  State("RULE_START", 2, <<To(9)>>),
  Basic(2, <<Token(c, 10)>>),
  Basic(2, <<Do(PopMode, 11)>>),
  State("RULE_STOP", 2, <<>>),
  State("RULE_START", 3, <<To(13)>>),
  Basic(3, <<Token(b, 14)>>),
  Basic(3, <<Do(More, 15)>>),
  Basic(3, <<Do(Mode(2), 16)>>),
  State("RULE_STOP", 3, <<>>),
  State("RULE_START", 4, <<To(18)>>),
  State("STAR_LOOP_ENTRY", 4, <<To(19), To(23)>>),
  State("STAR_BLOCK_START", 4, <<To(20)>>),
  Basic(4, <<Token(a, 21)>>),
  State("BLOCK_END", 4, <<To(22)>>),
  State("STAR_LOOP_BACK", 4, <<To(18)>>),
  State("LOOP_END", 4, <<To(24)>>),
  Basic(4, <<Do(PopMode, 25)>>),
  State("RULE_STOP", 4, <<>>),
  State("RULE_START", 5, <<To(27)>>),
  Basic(5, <<Token(b, 28)>>),
  Basic(5, <<Do(More, 29)>>),
  State("RULE_STOP", 5, <<>>),
  State("RULE_START", 6, <<To(31)>>),
  Basic(6, <<Token(c, 32)>>),
  Basic(6, <<Do(PushMode(1), 33)>>),
  State("RULE_STOP", 6, <<>>),
  State("RULE_START", 7, <<To(35)>>),
  Basic(7, <<Token(b, 36)>>),
  Basic(7, <<Do(Mode(0), 37)>>),
  State("RULE_STOP", 7, <<>>)>>

(* FIRST : {column 0}? a ;  A : a ;  BB : b {column 2}? b ;  B : b ;           *)
(* NL : \n -> skip ;  AB : a b {column 2}? ;                                   *)
PredicatesATN == <<
  State("TOKEN_START", NoRule, <<To(2), To(6), To(9), To(14), To(17), To(21)>>),
  State("RULE_START", 1, <<To(3)>>),
  Basic(1, <<AtColumn({0}, 4)>>),
  Basic(1, <<Token(a, 5)>>),
  State("RULE_STOP", 1, <<>>),
  State("RULE_START", 2, <<To(7)>>),
  Basic(2, <<Token(a, 8)>>),
  State("RULE_STOP", 2, <<>>),
  State("RULE_START", 3, <<To(10)>>),
  Basic(3, <<Token(b, 11)>>),
  Basic(3, <<AtColumn({2}, 12)>>),
  Basic(3, <<Token(b, 13)>>),
  State("RULE_STOP", 3, <<>>),
  State("RULE_START", 4, <<To(15)>>),
  Basic(4, <<Token(b, 16)>>),
  State("RULE_STOP", 4, <<>>),
  State("RULE_START", 5, <<To(18)>>),
  Basic(5, <<Token(NEWLINE, 19)>>),
  Basic(5, <<Do(Skip, 20)>>),
  State("RULE_STOP", 5, <<>>),
  State("RULE_START", 6, <<To(22)>>),
  Basic(6, <<Token(a, 23)>>),
  Basic(6, <<Token(b, 24)>>),
  Basic(6, <<AtColumn({2}, 25)>>),
  State("RULE_STOP", 6, <<>>)>>

(* WORD : D D b ;  fragment D : a E ;  fragment E : (c {...})? ;               *)
(* MID : b {...} b -> channel(2) ;  LAST : c EOF ;  C : c {...} ;              *)
CallsATN == <<
  State("TOKEN_START", NoRule, <<To(2), To(16), To(23), To(27)>>),
  State("RULE_START", 1, <<To(3)>>),
  Basic(1, <<Call(2, 7, 4, 0)>>),
  Basic(1, <<Call(2, 7, 5, 0)>>),
  Basic(1, <<Token(b, 6)>>),
  State("RULE_STOP", 1, <<>>),
  State("RULE_START", 2, <<To(8)>>),
  Basic(2, <<Token(a, 9)>>),
  Basic(2, <<Call(3, 11, 10, 0)>>),
  State("RULE_STOP", 2, <<>>),
  State("RULE_START", 3, <<To(12)>>),
  State("BLOCK_START", 3, <<To(13), To(14)>>),
  Basic(3, <<Token(c, 30)>>),
  State("BLOCK_END", 3, <<To(15)>>),
  State("RULE_STOP", 3, <<>>),
  State("RULE_START", 4, <<To(17)>>),
  Basic(4, <<Token(b, 18)>>),
  Basic(4, <<Do(Custom(1), 19)>>),
  Basic(4, <<Token(b, 20)>>),
  Basic(4, <<Do(Channel(2), 22)>>),
  Basic(6, <<Do(Custom(2), 29)>>),
  State("RULE_STOP", 4, <<>>),
  State("RULE_START", 5, <<To(24)>>),
  Basic(5, <<Token(c, 25)>>),
  Basic(5, <<Token(EOF, 26)>>),
  State("RULE_STOP", 5, <<>>),
  State("RULE_START", 6, <<To(28)>>),
  Basic(6, <<Token(c, 21)>>),
  State("RULE_STOP", 6, <<>>),
  Basic(3, <<Do(Custom(3), 14)>>)>>

(* X : a* {...} b ;  the action has no fixed place in the token.               *)
MidActionATN == <<
  State("TOKEN_START", NoRule, <<To(2)>>),
  State("RULE_START", 1, <<To(3)>>),
  State("STAR_LOOP_ENTRY", 1, <<To(4), To(8)>>),
  State("STAR_BLOCK_START", 1, <<To(5)>>),
  Basic(1, <<Token(a, 6)>>),
  State("BLOCK_END", 1, <<To(7)>>),
  State("STAR_LOOP_BACK", 1, <<To(3)>>),
  State("LOOP_END", 1, <<To(9)>>),
  Basic(1, <<Do(Custom(1), 10)>>),
  Basic(1, <<Token(b, 11)>>),
  State("RULE_STOP", 1, <<>>)>>

(* The ATN of a lexer: the start state of each mode, the non-greedy        *)
(* decisions and the token types, by rule.                                 *)
Prepared(name, states, starts, nonGreedy, types) ==
  [name |-> name, ruleToTokenType |-> types, nonGreedy |-> nonGreedy,
   modeToStartState |-> [m \in 0 .. Len(starts) - 1 |-> starts[m + 1]]]
    @@ Deserialize(states, {}, c)

Keywords(name) == Prepared(name, KeywordsATN, <<1>>, {}, <<1, 2, 3, 4>>)
Modes(name) == Prepared(name, ModesATN, <<1, 2, 3>>, {}, <<1, 2, 3, 4, 5, 6, 7>>)

AllLexers ==
  {Keywords("Keywords"), Keywords("KeywordsAgain"),
   Prepared("Comments", CommentsATN, <<1>>, {4}, <<1, 2, 3>>),
   Modes("Modes"), Modes("ModesAgain"),
   Prepared("Predicates", PredicatesATN, <<1>>, {}, <<1, 2, 3, 4, 5, 6>>),
   Prepared("Calls", CallsATN, <<1>>, {}, <<1, 0, 0, 2, 3, 4>>)}
MidActionOnly == {Prepared("MidAction", MidActionATN, <<1>>, {}, <<1>>)}

(* The characters that matter to a grammar. *)
Alphabet ==
  [Keywords |-> {NEWLINE, a, b, c}, KeywordsAgain |-> {NEWLINE, b},
   Comments |-> {a, b, c}, Modes |-> {a, b, c}, ModesAgain |-> {a, c},
   Predicates |-> {NEWLINE, a, b}, Calls |-> {a, b, c}, MidAction |-> {a, b}]
AllTexts(atn) == BoundedSeq(Alphabet[atn.name], MaxLength[atn.name])

ReferenceMatches(atn, mode, text, i) == MatchesAt(atn, NEWLINE, mode, text, i)
ReferenceReach(atn, mode, text, i) == ReachesFrom(atn, NEWLINE, mode, text, i)

FewCharacters ==
  [Keywords |-> 4, KeywordsAgain |-> 2, Comments |-> 5, Modes |-> 4, ModesAgain |-> 2,
   Predicates |-> 5, Calls |-> 5, MidAction |-> 4]
FewPasses ==
  [Keywords |-> 1, KeywordsAgain |-> 3, Comments |-> 1, Modes |-> 1, ModesAgain |-> 3,
   Predicates |-> 1, Calls |-> 1, MidAction |-> 1]

(* The sets that arise in the first symbols of a token, with the offsets   *)
(* they arise at, are sets of the ATN; and each leads to the same sets     *)
(* wherever it is, but in the lexer of the finding.                        *)
Columns == 0 .. 3
Symbols(atn) == Alphabet[atn.name] \cup {EOF}
RECURSIVE ArisingWithin(_, _)
ArisingWithin(atn, length) ==
  IF length = 0
  THEN {<<StartState(atn, mode, column).configs, 0>> :
          mode \in DOMAIN atn.modeToStartState, column \in Columns}
  ELSE LET shorter == ArisingWithin(atn, length - 1)
           Behind(there, symbol) ==
             {<<ReachableSet(atn, there[1], symbol, column, there[2]).configs,
                IF symbol = EOF THEN there[2] ELSE there[2] + 1>> : column \in Columns}
       IN shorter \cup UNION {Behind(there, symbol) : there \in shorter, symbol \in Symbols(atn)}
Stays(computed) ==
  \A x, y \in computed : ~x.predicated => y.configs = x.configs
ASSUME SetsArePlain ==
  \A atn \in Grammars :
    LET arising == ArisingWithin(atn, MaxLength[atn.name])
        From(configs, symbol) ==
          {ReachableSet(atn, configs, symbol, column, there[2]) :
             column \in Columns, there \in {x \in arising : x[1] = configs}}
    IN /\ \A there \in arising : IsSet(atn, there[1])
       /\ \A mode \in DOMAIN atn.modeToStartState :
            Stays({StartState(atn, mode, column) : column \in Columns})
       /\ atn.name # "MidAction" =>
            \A there \in arising, symbol \in Symbols(atn) : Stays(From(there[1], symbol))

(* The sets met in reading a token find the matches, at any place of any   *)
(* text: SetsFindMatches, with the walk as a set.                          *)
RECURSIVE Walk(_, _, _, _)
Walk(atn, text, i, seen) ==
  LET next == {After(atn, text, i, x) : x \in {y \in seen : GoesOn(atn, text, i, y)}}
  IN IF next \subseteq seen THEN seen ELSE Walk(atn, text, i, seen \cup next)
ASSUME MatchesAreFound ==
  \A atn \in Grammars : \A mode \in DOMAIN atn.modeToStartState :
    \A text \in AllTexts(atn) : \A i \in 0 .. Len(text) :
      \E C \in {Candidates(atn, mode, text, i)},
         met \in {Walk(atn, text, i, {Beginning(atn, mode, text, i)})} :
        /\ \A m \in C : m.stop \in i .. Len(text)
        /\ \A d \in Eligible(C) : \E x \in met :
             x.at = d.stop /\ EndsOf(atn, x.configs) # {}
        /\ \A x \in met : EndsOf(atn, x.configs) # {} => Finds(atn, mode, text, i, x)
        /\ C = {} => \A x \in met : ~x.over /\ After(atn, text, i, x).configs = NoSet =>
             Reaches(atn, mode, text, i) = x.at

(* What LexerActionExecutor says of an action in the middle of a token: it *)
(* runs with the stream where the action stands.  In this lexer that is in *)
(* front of the b that ends the token.                                     *)
ActionsRunInPlace ==
  \A k \in DOMAIN lexer.ran :
    lexer.ran[k].at < Len(input) /\ input[lexer.ran[k].at + 1] = b
================================================================================
