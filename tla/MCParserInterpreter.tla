------------------------ MODULE MCParserInterpreter ------------------------
(* The small grammars as ParserInterpreter parses with them. *)
EXTENDS ParserInterpreter, SmallGrammars
LOCAL INSTANCE SequencesExt
LOCAL INSTANCE TLC

CONSTANT MaxTokens      \* per grammar, the longest input parsed with it

LL1 == INSTANCE LL1Analyzer
Simulator == INSTANCE ParserATNSimulator

(* The ATN to parse with, the lookahead of each of its states at hand. *)
Prepared(name, serialized) ==
  LET atn == Deserialize(serialized.states, serialized.precedenceRules,
                         serialized.maxTokenType)
  IN [name |-> name, holding |-> {"always"},
      nextTokenWithinRule |-> [s \in DOMAIN atn.type |-> LL1!LOOK(atn, s)]] @@ atn

AllGrammars ==
  {Prepared("Loop", LoopATN), Prepared("Context", ContextATN), Prepared("Set", SetATN),
   Prepared("Dangling", DanglingATN), Prepared("Expression", ExpressionATN),
   Prepared("RecursiveStart", RecursiveStartATN), Prepared("Predicate", PredicateATN),
   Prepared("HiddenPredicate", HiddenPredicateATN), Prepared("Callers", CallersATN),
   Prepared("Optional", OptionalATN), Prepared("Twice", TwiceATN)}
OptionalOnly == {Prepared("Optional", OptionalATN)}
SetOnly == {Prepared("Set", SetATN)}
CallersOnly == {Prepared("Callers", CallersATN)}

AllSentences(atn) == BoundedSeq(1 .. atn.maxTokenType, MaxTokens[atn.name])

LookaheadInContext(atn, s, stack) == LL1!LOOKInContext(atn, s, stack)
Prediction(atn, s, lookahead, stack, level) ==
  LET Predicts(sim) == Simulator!AdaptivePredict(sim, stack)
  IN Simulator!With(
       Predicts, Simulator!Simulation(atn, s, lookahead, level, atn.holding, TRUE))

(* A prediction is an alternative of its decision, whatever called its     *)
(* rule and whatever is ahead.                                             *)
ASSUME PredictionsAreAlternatives ==
  \A atn \in Grammars : \A s \in {d \in DOMAIN atn.type : Len(atn.out[d]) > 1} :
    \A w \in BoundedSeq(1 .. atn.maxTokenType, 2), stack \in BoundedSeq(DOMAIN atn.type, 1),
       level \in 0 .. 2 :
      Predict(atn, s, [k \in Nat |-> IF k < Len(w) THEN w[k + 1] ELSE EOF], stack, level)
        \in {NoViableAlt} \cup 1 .. Len(atn.out[s])

(* A client parses once more, or falls back on the default strategy after  *)
(* the one that bails out.                                                 *)
AgainOrFallBack == {<<"default", "kept">>, <<"default", "bail", "default">>}
JustOnce == {<<"default">>}

FewTokens ==
  [Loop |-> 5, Context |-> 5, Set |-> 4, Dangling |-> 5, Expression |-> 5,
   RecursiveStart |-> 6, Predicate |-> 4, HiddenPredicate |-> 4, Callers |-> 4,
   Optional |-> 4, Twice |-> 4]

(* What the doc comment of singleTokenInsertion says: a token is taken to  *)
(* be missing when the current one could be matched after it, that is, can *)
(* follow it in the rules under way (DefaultErrorStrategy.ts,              *)
(* LL1Analyzer._LOOK).                                                     *)
InsertsWhatIsMissing ==
  [][\A i \in DOMAIN parser'.reports \ DOMAIN parser.reports :
       parser'.reports[i].message = "missing" =>
         LA(parser, 1) \in LL1!TokensThatCanFollow(g, Transition.target,
                                                   FollowStates(parser, parser.ctx))]_vars
=============================================================================
