---------------------------- MODULE ATNOptimizer ----------------------------
(***************************************************************************)
(* The optimizer of atn/ATNDeserializer.ts: once an ATN is read, calls of  *)
(* rules that match one token are replaced by the token, chains of epsilon *)
(* transitions are shortened, and alternatives of one token are combined,  *)
(* round after round until nothing is left to do.  A state keeps its own   *)
(* transitions and gets optimized ones (atn/ATNState.ts), which the        *)
(* closures of both simulators follow.  States have the form that ATN      *)
(* describes, and "notset" is a NOT_SET, its label complemented already.   *)
(* A pass is a step.                                                       *)
(***************************************************************************)
EXTENDS ATN
LOCAL INSTANCE SequencesExt

CONSTANTS
  Networks,     \* the ATNs read, as they are serialized
  MaxLength     \* bounds the paths that are compared

VARIABLES
  network,        \* the ATN read
  optimized,      \* its states and the added ones, with their optimized transitions
  preserveOrder,  \* whether it is a lexer's
  pass,           \* what is next
  removed         \* optimizationCount of the round

vars == <<network, optimized, preserveOrder, pass, removed>>

Plain(target) == [kind |-> "epsilon", target |-> target, outermost |-> NoRule]

(* The states as they are when the optimizer starts: the stop state of a   *)
(* rule leads to where the calls of the rule return.                       *)
Read(n) ==
  LET Normal(t) == IF t.kind = "epsilon" THEN Plain(t.target) ELSE t
  IN [s \in DOMAIN n.states |->
        [type |-> n.states[s].type, rule |-> n.states[s].rule,
         out |-> IF n.states[s].type = "RULE_STOP"
                 THEN SetToSeq(ReturnEdges(n.states, n.precedenceRules, n.states[s].rule))
                 ELSE [i \in DOMAIN n.states[s].out |-> Normal(n.states[s].out[i])]]]

OnlyEpsilonOut(net, s) == OnlyEpsilon(ToSet(net[s].out))
IsPlain(t) == t.kind = "epsilon" /\ t.outermost = NoRule
Untouched(net) == [net |-> net, removed |-> 0]

-----------------------------------------------------------------------------
(* inlineSetRules. *)

(* Where a lone epsilon transition after another leads to. *)
Middle(net, s) ==
  LET walk[q \in DOMAIN net] ==
        IF OnlyEpsilonOut(net, q) /\ Len(net[q].out) = 1 /\ net[q].out[1].kind = "epsilon"
        THEN walk[net[q].out[1].target] ELSE q
  IN walk[s]

StartOf(net, r) == CHOOSE s \in DOMAIN net : net[s].type = "RULE_START" /\ net[s].rule = r
RulesOf(net) == {net[s].rule : s \in {q \in DOMAIN net : net[q].type = "RULE_START"}}

(* Whether a call of the rule is taken for one token. *)
MatchesOneToken(net, r) ==
  LET middle == Middle(net, StartOf(net, r)) IN
  /\ Len(net[middle].out) = 1
  /\ LET match == net[middle].out[1] IN
     /\ match.kind \in {"token", "set"}
     /\ OnlyEpsilonOut(net, match.target)
     /\ Len(net[match.target].out) = 1
     /\ net[net[match.target].out[1].target].type = "RULE_STOP"

TokenOf(net, r) == net[Middle(net, StartOf(net, r))].out[1]

InlineSetRules(net) ==
  LET oneToken == {r \in RulesOf(net) : MatchesOneToken(net, r)}
      InlineIn(acc, s) ==
        LET out     == acc.net[s].out
            inlined == {i \in DOMAIN out : out[i].kind = "rule" /\ out[i].rule \in oneToken}
            first   == MinimumOf(inlined)
            Nth(i)  == Cardinality({j \in inlined : j <= i})
            Added(k) ==
              LET call == out[CHOOSE i \in inlined : Nth(i) = k] IN
              [type |-> "BASIC", rule |-> acc.net[call.follow].rule,
               out |-> <<[TokenOf(net, call.rule) EXCEPT !.target = call.follow]>>]
        IN IF acc.net[s].rule = NoRule \/ inlined = {} THEN acc
           ELSE [net |-> [acc.net EXCEPT ![s].out =
                            [i \in DOMAIN out |->
                               IF i \in inlined THEN Plain(Len(acc.net) + Nth(i))
                               ELSE IF i < first THEN out[first] ELSE out[i]]]
                         \o [k \in 1 .. Cardinality(inlined) |-> Added(k)],
                 removed |-> acc.removed + Cardinality(inlined)]
  IN FoldLeftDomain(InlineIn, Untouched(net), net)

-----------------------------------------------------------------------------
(* combineChainedEpsilons. *)

(* Whether a transition leads to nothing but epsilon transitions. *)
Bypasses(net, t) ==
  /\ IsPlain(t) /\ net[t.target].type = "BASIC" /\ OnlyEpsilonOut(net, t.target)
  /\ \A u \in ToSet(net[t.target].out) : IsPlain(u)

(* A mutant of Bypasses that takes predicates and actions for epsilon.     *)
BypassesAny(net, t) ==
  /\ IsPlain(t) /\ net[t.target].type = "BASIC" /\ OnlyEpsilonOut(net, t.target)

Chained(net, t) == Bypasses(net, t)

CombineChainedEpsilons(net) ==
  LET CombineIn(acc, s) ==
        LET out     == acc.net[s].out
            chained == {i \in DOMAIN out : Chained(acc.net, out[i])}
            Beyond(i) == LET next == acc.net[out[i].target].out
                         IN [j \in DOMAIN next |-> Plain(next[j].target)]
        IN IF ~OnlyEpsilonOut(acc.net, s) \/ acc.net[s].type = "RULE_STOP" \/ chained = {} THEN acc
           ELSE [net |-> [acc.net EXCEPT ![s].out =
                            FlattenSeq([i \in DOMAIN out |-> IF i \in chained THEN Beyond(i)
                                                             ELSE <<out[i]>>])],
                 removed |-> acc.removed + Cardinality(chained)]
  IN FoldLeftDomain(CombineIn, Untouched(net), net)

-----------------------------------------------------------------------------
(* optimizeSets. *)

DecisionTypes == {"BLOCK_START", "PLUS_BLOCK_START", "STAR_BLOCK_START",
                  "STAR_LOOP_ENTRY", "PLUS_LOOP_BACK", "TOKENS_START"}

OptimizeSets(net) ==
  LET OptimizeIn(acc, d) ==
        LET out     == acc.net[d].out
            Only(t) == acc.net[t.target].out[1]
            single  == {i \in DOMAIN out :
                          /\ out[i].kind = "epsilon" /\ Len(acc.net[out[i].target].out) = 1
                          /\ Only(out[i]).kind \in {"token", "set"}
                          /\ acc.net[Only(out[i]).target].type = "BLOCK_END"}
            end     == Only(out[MinimumOf(single)]).target
            label   == UNION {Only(out[i]).label : i \in single}
            match   == [kind |-> IF Cardinality(label) = 1 THEN "token" ELSE "set",
                        label |-> label, target |-> end]
            others  == FlattenSeq([i \in DOMAIN out |-> IF i \in single THEN <<>> ELSE <<out[i]>>])
        IN IF acc.net[d].type \notin DecisionTypes \/ Cardinality(single) <= 1 THEN acc
           ELSE [net |-> Append([acc.net EXCEPT ![d].out =
                                   Append(others, Plain(Len(acc.net) + 1))],
                                [type |-> "BASIC", rule |-> acc.net[d].rule, out |-> <<match>>]),
                 removed |-> acc.removed + Cardinality(single) - 1]
  IN IF preserveOrder THEN Untouched(net)
     ELSE FoldLeftDomain(OptimizeIn, Untouched(net), net)
-----------------------------------------------------------------------------
(* The loop of deserialize. *)

Init ==
  /\ network \in Networks
  /\ optimized = Read(network)
  /\ preserveOrder \in BOOLEAN
  /\ pass = "inline"
  /\ removed = 0

Pass(name, next, result) ==
  /\ pass = name
  /\ \E r \in {result} : /\ optimized' = r.net
                          /\ removed' = removed + r.removed
  /\ pass' = next
  /\ UNCHANGED <<network, preserveOrder>>

Inline  == Pass("inline", "combine", InlineSetRules(optimized))
Combine == Pass("combine", "sets", CombineChainedEpsilons(optimized))
Sets    == Pass("sets", "count", OptimizeSets(optimized))
NextRound ==
  /\ pass = "count"
  /\ pass' = IF removed = 0 THEN "done" ELSE "inline"
  /\ removed' = 0
  /\ UNCHANGED <<network, optimized, preserveOrder>>

Next == Inline \/ Combine \/ Sets \/ NextRound

Spec == Init /\ [][Next]_vars

-----------------------------------------------------------------------------
(* What the states stand for. *)

(* The paths from a state to the end of its rule: what they match, and the *)
(* predicates they pass.                                                   *)
Paths(net, s) ==
  LET Letter(t, a) == <<IF t.kind \in {"predicate", "precedence"} THEN t.kind ELSE "token", a>>
      Letters(t) ==
        IF t.kind \in {"token", "set", "notset"} THEN {Letter(t, a) : a \in t.label}
        ELSE IF t.kind = "wildcard" THEN {Letter(t, a) : a \in 1 .. network.maxTokenType}
        ELSE IF t.kind = "predicate" THEN {Letter(t, t.predicate)}
        ELSE IF t.kind = "precedence" THEN {Letter(t, t.level)}
        ELSE {}
      Along(c, t) ==
        IF t.kind = "rule"
        THEN {[c EXCEPT !.state = t.target, !.stack = <<t.follow>> \o @]}
        ELSE IF Letters(t) = {} THEN {[c EXCEPT !.state = t.target]}
        ELSE IF Len(c.path) = MaxLength THEN {}
        ELSE {[c EXCEPT !.state = t.target, !.path = Append(@, l)] : l \in Letters(t)}
      After(c) ==
        IF net[c.state].type # "RULE_STOP" THEN UNION {Along(c, t) : t \in ToSet(net[c.state].out)}
        ELSE IF c.stack = <<>> THEN {}
        ELSE {[c EXCEPT !.state = Head(c.stack), !.stack = Tail(@)]}
      RECURSIVE From(_)
      From(S) == LET T == S \cup UNION {After(c) : c \in S} IN IF T = S THEN S ELSE From(T)
      reached == From({[state |-> s, stack |-> <<>>, path |-> <<>>]})
  IN {c.path : c \in {e \in reached : net[e.state].type = "RULE_STOP" /\ e.stack = <<>>}}

(* A rule that matches nothing and that one call, followed by one token at *)
(* the end of its rule, calls: the search for the token of the rule goes   *)
(* past the rule's end to the token after the call.                        *)
LooksPastTheEnd(net, r) ==
  /\ MatchesOneToken(net, r)
  /\ net[Middle(net, StartOf(net, r))].rule # r

(* The optimized transitions lead along the same paths as the states' own: *)
(* whatever calls were replaced, chains cut short and alternatives         *)
(* combined, in every order of the passes, nothing is matched from any     *)
(* state that was not, and nothing is lost, unless a rule that matches     *)
(* nothing was taken for the token after its call (ATNDeserializer.ts:769).*)
PathsAreKept ==
  (\A s \in DOMAIN Read(network) :
      Paths(optimized, s) = Paths(Read(network), s))
  <=> (optimized = Read(network) \/ ~\E r \in RulesOf(optimized) : LooksPastTheEnd(Read(network), r))
=============================================================================
