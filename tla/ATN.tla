-------------------------------- MODULE ATN --------------------------------
(***************************************************************************)
(* The augmented transition network of a grammar (src/atn): what the       *)
(* deserializer derives from the serialized states and transitions.        *)
(*                                                                         *)
(* A serialized ATN is a sequence of states [type, rule, out] and the      *)
(* rules that are left-recursive; `out' is a state's transitions in the    *)
(* order of the alternatives.  A transition is a record with a `kind' and  *)
(* a `target', and, by kind,                                               *)
(*   "token"       label: the token types it matches (ATOM)                *)
(*   "set"         label (SET, RANGE and, complemented already, NOT_SET)   *)
(*   "wildcard"    any user token type                                     *)
(*   "rule"        rule, follow, level: the callee, the state it returns   *)
(*                 to and the precedence it is called with                 *)
(*   "precedence"  level                                                   *)
(*   "predicate"   predicate: what sempred is asked (in a lexer columns:    *)
(*                 where it answers yes)                                   *)
(*   "epsilon", "action" (in a lexer action: the lexer action)             *)
(***************************************************************************)
EXTENDS Integers, Sequences, FiniteSets
LOCAL Fns == INSTANCE Functions

EOF == -1          \* Token.EOF
EPSILON == -2      \* Token.EPSILON
NoState == -1      \* ATNState.INVALID_STATE_NUMBER, and the invoker of no one
NoRule == 0

MinimumOf(S) == CHOOSE x \in S : \A y \in S : x <= y

(* AtomTransition, SetTransition and WildcardTransition.matches.           *)
Matches(g, t, symbol) ==
  \/ t.kind \in {"token", "set"} /\ symbol \in t.label
  \/ t.kind = "wildcard" /\ symbol \in 1..g.maxTokenType

(* Transition.isEpsilon: every transition that consumes nothing. *)
IsEpsilon(t) == t.kind \in {"epsilon", "rule", "precedence", "predicate", "action"}

(* ATNState.onlyHasEpsilonTransitions, FALSE of a state with none. *)
OnlyEpsilon(edges) == edges # {} /\ \A t \in edges : IsEpsilon(t)

-----------------------------------------------------------------------------
(* Deserializing. *)

Calls(states) ==
  {t \in UNION {Fns!Range(states[s].out) : s \in DOMAIN states} : t.kind = "rule"}

(* The edges out of a rule's stop state: one to each state a call of the   *)
(* rule returns to.  One that returns from the outermost call of a         *)
(* precedence rule says so.                                                *)
ReturnEdges(states, precedenceRules, r) ==
  {[kind |-> "epsilon", target |-> t.follow,
    outermost |-> IF r \in precedenceRules /\ t.level = 0 THEN r ELSE NoRule]
     : t \in {c \in Calls(states) : c.rule = r}}

(* RuleTransition.tailCall: nothing but epsilon transitions between the    *)
(* state the call returns to and the end of the caller.                    *)
TailCall(states, t) ==
  LET Edges(s) == Fns!Range(states[s].out)
      Targets(s) == IF states[s].type = "RULE_STOP" THEN {} ELSE {e.target : e \in Edges(s)}
      reach[S \in SUBSET (DOMAIN states)] ==
        LET T == S \cup UNION {Targets(s) : s \in S} IN IF T = S THEN S ELSE reach[T]
  IN \A s \in reach[{t.follow}] :
       \/ states[s].type = "RULE_STOP"
       \/ /\ OnlyEpsilon(Edges(s))
          /\ \A e \in Edges(s) : e.kind = "epsilon"

(* StarLoopEntryState.precedenceRuleDecision: the loop of a left-recursive *)
(* rule, whose exit branch leads straight to the end of the rule.          *)
IsPrecedenceDecision(states, precedenceRules, s) ==
  /\ states[s].type = "STAR_LOOP_ENTRY"
  /\ states[s].rule \in precedenceRules
  /\ LET exit == states[s].out[Len(states[s].out)].target IN
       /\ states[exit].type = "LOOP_END"
       /\ states[states[exit].out[1].target].type = "RULE_STOP"

Deserialize(states, precedenceRules, maxTokenType) ==
  LET StateOf(type, r) ==
        CHOOSE s \in DOMAIN states : states[s].type = type /\ states[s].rule = r
      rules == {states[s].rule : s \in DOMAIN states} \ {NoRule}
      Marked(t) ==
        IF t.kind = "rule"
        THEN [kind |-> "rule", target |-> t.target, rule |-> t.rule, follow |-> t.follow,
              level |-> t.level, tailCall |-> TailCall(states, t)]
        ELSE IF t.kind = "epsilon"
        THEN [kind |-> "epsilon", target |-> t.target, outermost |-> NoRule]
        ELSE t
      StopEdges(s) == ReturnEdges(states, precedenceRules, states[s].rule)
      decisions == {s \in DOMAIN states : IsPrecedenceDecision(states, precedenceRules, s)}
  IN [type  |-> [s \in DOMAIN states |-> states[s].type],
      rule  |-> [s \in DOMAIN states |-> states[s].rule],
      out   |-> [s \in DOMAIN states |->
                   [i \in DOMAIN states[s].out |-> Marked(states[s].out[i])]],
      edges |-> [s \in DOMAIN states |->
                   IF states[s].type = "RULE_STOP" THEN StopEdges(s)
                   ELSE {Marked(t) : t \in Fns!Range(states[s].out)}],
      start |-> [r \in rules |-> StateOf("RULE_START", r)],
      stop  |-> [r \in rules |-> StateOf("RULE_STOP", r)],
      precedenceRules |-> precedenceRules,
      precedenceDecisions |-> decisions,
      \* precedenceLoopbackStates: where the recursive calls of the rule return
      loopback |-> [s \in decisions |->
                      {t.target : t \in {e \in StopEdges(StateOf("RULE_STOP", states[s].rule)) :
                                           e.outermost = NoRule}}],
      maxTokenType |-> maxTokenType]
=============================================================================
