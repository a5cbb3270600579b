----------------------------- MODULE SerializedATN -----------------------------
(***************************************************************************)
(* Shorthands to write down the states of a serialized ATN (see ATN), for  *)
(* the small grammars of the MC modules.                                   *)
(***************************************************************************)
EXTENDS ATN

Serialized(states, precedenceRules, maxTokenType) ==
  [states |-> states, precedenceRules |-> precedenceRules, maxTokenType |-> maxTokenType]
State(type, rule, out) == [type |-> type, rule |-> rule, out |-> out]
Basic(rule, out) == State("BASIC", rule, out)
To(s) == [kind |-> "epsilon", target |-> s]
Token(a, s) == [kind |-> "token", label |-> {a}, target |-> s]
OneOf(A, s) == [kind |-> "set", label |-> A, target |-> s]
AnyToken(s) == [kind |-> "wildcard", target |-> s]
Call(r, start, follow, level) ==
  [kind |-> "rule", target |-> start, rule |-> r, follow |-> follow, level |-> level]
Prec(level, s) == [kind |-> "precedence", level |-> level, target |-> s]
Pred(p, s) == [kind |-> "predicate", predicate |-> p, target |-> s]
Action(s) == [kind |-> "action", target |-> s]
================================================================================
