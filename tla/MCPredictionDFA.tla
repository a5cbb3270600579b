--------------------------- MODULE MCPredictionDFA ---------------------------
(* Predictions with the small grammars, in the contexts their rules call in. *)
EXTENDS PredictionDFA, SmallGrammars
LOCAL INSTANCE SequencesExt
LOCAL INSTANCE TLC

CONSTANT MaxLookahead    \* bounds the tokens before EOF

Simulator == INSTANCE ParserATNSimulator

(* What is asked of a grammar's decisions: the tokens of the lookahead, for *)
(* each decision the stacks it is reached with, the precedences, and the    *)
(* sets of predicates that may hold.                                        *)
Scenario(name, serialized, tokens, stacks, levels, holdings) ==
  LET atn == Deserialize(serialized.states, serialized.precedenceRules,
                         serialized.maxTokenType)
      decisions == {s \in DOMAIN atn.type : Len(atn.out[s]) > 1}
  IN [name |-> name, tokens |-> tokens, stacks |-> stacks, levels |-> levels,
      holdings |-> holdings,
      decisionNumber |-> [s \in decisions |-> Cardinality({d \in decisions : d < s})]] @@ atn

AllScenarios ==
  {Scenario("Context", ContextATN, {1, 2, 3}, (2 :> {<<>>}) @@ (13 :> {<<5>>, <<9>>}), {0}, {{}}),
   Scenario("Dangling", DanglingATN, {1, 2, 3}, 9 :> {<<3>>, <<9, 3>>, <<12, 3>>}, {0}, {{}}),
   Scenario("Expression", ExpressionATN, {1, 2, 3}, 11 :> {<<3>>, <<19, 3>>}, {0, 4, 5}, {{}}),
   Scenario("Predicated", PredicatedATN, {1, 2, 3}, (2 :> {<<>>}) @@ (9 :> {<<>>}), {0},
            SUBSET {"p", "q"}),
   Scenario("Refused", RefusedATN, {1, 2, 3}, 8 :> {<<3>>, <<6>>}, {0}, SUBSET {"p", "q"})}
TwoWaysOnly ==
  {Scenario("TwoWays", TwoWaysATN, {1, 2}, 6 :> {<<3>>}, {0, 4}, {{}})}
WithTwoWays == AllScenarios \cup TwoWaysOnly

Lookaheads(tokens) ==
  {[i \in 0 .. Len(w) |-> IF i < Len(w) THEN w[i + 1] ELSE EOF] :
     w \in BoundedSeq(tokens, MaxLookahead)}
RequestsOf(atn) ==
  UNION {{[decision |-> d, LA |-> la, stack |-> k, level |-> l, holding |-> h, mode |-> m] :
            la \in Lookaheads(atn.tokens), k \in atn.stacks[d], l \in atn.levels,
            h \in atn.holdings, m \in {"SLL", "LL"}} : d \in DOMAIN atn.stacks}

LocalSimulation(atn, decision, level) == Simulation(atn, decision, Nothing, level, {}, TRUE)
StartSetOf(atn, decision, level) ==
  Simulator!StartSet(LocalSimulation(atn, decision, level), <<>>)
TargetOf(atn, decision, configs, symbol) ==
  Simulator!Target(LocalSimulation(atn, decision, 0), configs, symbol)
FullStartSetOf(sim, stack) == Simulator!FullStartSet(sim, stack)
PredictionInFull(sim, stack) == Simulator!PredictInFull(sim, stack)
ExecuteATN(sim, stack, configs, k) == Simulator!Exec(sim, stack, configs, k)

(* The loop of execATN is one, wherever the requests lead it.              *)
RECURSIVE LedTo(_, _, _, _)
LedTo(atn, r, s, k) ==
  {<<s, k>>} \cup IF s = Error \/ IsAccepting(SimOf(atn, r), s) THEN {}
                 ELSE LedTo(atn, r, TargetFrom(atn, r.decision, s, r.LA[k]), Behind(r, k))
ASSUME Simulated ==
  \A atn \in Grammars : \A r \in Requests(atn) :
    \A there \in LedTo(atn, r, StartAt(atn, r.decision, r.level), 0) :
      IsTurned(atn, r, there[1], there[2])
=============================================================================
