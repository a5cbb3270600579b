-------------------------- MODULE LexerConfigurations --------------------------
(***************************************************************************)
(* LexerATNSimulator.ts: what it computes from the ATN of a lexer.         *)
(*                                                                         *)
(* A configuration is [state, alt, stack, actions, prompt]: `stack' are    *)
(* the states to return to, `actions' its LexerActionExecutor, `prompt' is *)
(* hasPassedThroughNonGreedyDecision.  An action has an `offset' below 0   *)
(* until its place is fixed.  An OrderedATNConfigSet is the sequence of    *)
(* its configurations.                                                     *)
(*                                                                         *)
(* A closure depends, besides the ATN, on `x': whether EOF counts as       *)
(* epsilon, and the column at which predicates are asked.                  *)
(***************************************************************************)
EXTENDS ATN
LOCAL INSTANCE SequencesExt

AtEnd(g, c) == g.type[c.state] = "RULE_STOP"

(* LexerActionExecutor.append, but for the actions of called rules.        *)
ActionsBehind(c, t) == IF c.stack = <<>> THEN Append(c.actions, t.action) ELSE c.actions

(* getEpsilonTarget: the configuration behind a transition, if any.        *)
EpsilonTarget(g, c, t, x) ==
  LET there == [c EXCEPT !.state = t.target, !.prompt = @ \/ t.target \in g.nonGreedy] IN
  CASE t.kind = "epsilon" -> <<there>>
    [] t.kind = "rule" ->
         IF t.tailCall /\ c.stack # <<>> THEN <<there>>
         ELSE <<[there EXCEPT !.stack = <<t.follow>> \o @]>>
    [] t.kind = "action" -> <<[there EXCEPT !.actions = ActionsBehind(c, t)]>>
    [] t.kind = "predicate" -> IF x.column \in t.columns THEN <<there>> ELSE <<>>
    [] OTHER ->
         IF x.eof /\ t.kind # "wildcard" /\ EOF \in t.label
         THEN <<[c EXCEPT !.state = t.target, !.prompt = FALSE]>> ELSE <<>>

EpsilonTargets(g, c, x) ==
  IF ~AtEnd(g, c) THEN FlattenSeq([i \in DOMAIN g.out[c.state] |->
                                     EpsilonTarget(g, c, g.out[c.state][i], x)])
  ELSE IF c.stack = <<>> THEN <<>>
  ELSE <<[c EXCEPT !.state = Head(c.stack), !.stack = Tail(@), !.prompt = FALSE]>>

(* Whether the closure adds c, the alternative having reached its end      *)
(* (`accepted') or not.                                                    *)
IsKept(g, c, accepted) ==
  IF AtEnd(g, c) THEN c.stack = <<>>
  ELSE ~OnlyEpsilon(g.edges[c.state]) /\ ~(accepted /\ c.prompt)

IsPredicated(g, c) == ~AtEnd(g, c) /\ \E t \in g.edges[c.state] : t.kind = "predicate"

AddTo(configs, c) == IF Contains(configs, c) THEN configs ELSE Append(configs, c)

(* closure, depth first, from the configurations `todo': what it adds to   *)
(* acc.configs, whether the alternative is at its end then, and whether    *)
(* the set depends on a predicate (hasSemanticContext).                    *)
RECURSIVE Closure(_, _, _, _)
Closure(g, todo, acc, x) ==
  IF todo = <<>> THEN acc
  ELSE LET c == Head(todo) IN
       Closure(g, EpsilonTargets(g, c, x) \o Tail(todo),
               [configs    |-> IF IsKept(g, c, acc.accepted) THEN AddTo(acc.configs, c)
                               ELSE acc.configs,
                accepted   |-> acc.accepted \/ (AtEnd(g, c) /\ c.stack = <<>>),
                predicated |-> acc.predicated \/ IsPredicated(g, c)], x)

(* computeStartState of a mode, at a column. *)
ComputeStartState(g, mode, column) ==
  LET begin == g.out[g.modeToStartState[mode]]
      x     == [eof |-> FALSE, column |-> column]
      First(i) == [state |-> begin[i].target, alt |-> i, stack |-> <<>>,
                   actions |-> <<>>, prompt |-> FALSE]
      All(acc, i) == Closure(g, <<First(i)>>, [acc EXCEPT !.accepted = FALSE], x)
  IN FoldLeft(All, [configs |-> <<>>, accepted |-> FALSE, predicated |-> FALSE],
              [i \in DOMAIN begin |-> i])

(* fixOffsetBeforeMatch. *)
FixOffsets(actions, offset) ==
  [i \in DOMAIN actions |->
     [actions[i] EXCEPT !.offset = IF actions[i].kind = "custom" /\ @ < 0 THEN offset ELSE @]]

(* getReachableConfigSet, on a symbol at an offset in the token: the       *)
(* configurations in turn, without those of lower priority than one that   *)
(* reached the end of their alternative.                                   *)
GetReachableConfigSet(g, configs, symbol, column, offset) ==
  LET x == [eof |-> symbol = EOF, column |-> column]
      Step(acc, c) ==
        LET behind == acc.skipAlt = c.alt
            \* of the transitions that match, up to the one that reaches an end
            Through(a, t) ==
              IF a.stopped \/ ~Matches(g, t, symbol) THEN a
              ELSE LET d == Closure(g, <<[c EXCEPT !.state = t.target,
                                                   !.prompt = @ \/ t.target \in g.nonGreedy,
                                                   !.actions = FixOffsets(@, offset)]>>,
                                    [configs |-> a.configs, accepted |-> behind,
                                     predicated |-> a.predicated], x)
                   IN [configs |-> d.configs, predicated |-> d.predicated,
                       stopped |-> d.accepted,
                       skipAlt |-> IF d.accepted THEN c.alt ELSE a.skipAlt]
        IN IF behind /\ c.prompt THEN acc
           ELSE FoldLeft(Through, [acc EXCEPT !.stopped = FALSE], g.out[c.state])
  IN FoldLeft(Step, [configs |-> <<>>, predicated |-> FALSE, stopped |-> FALSE, skipAlt |-> 0],
              configs)
=============================================================================
