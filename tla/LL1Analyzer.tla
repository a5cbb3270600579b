----------------------------- MODULE LL1Analyzer -----------------------------
(***************************************************************************)
(* atn/LL1Analyzer.ts: the tokens that may come next at a state of the     *)
(* ATN, as ATN.nextTokens asks for them.                                   *)
(*                                                                         *)
(* A context is the sequence of the states to return to, the innermost     *)
(* first.  Below a local context lies an unknown caller, EMPTY_LOCAL;      *)
(* below a full one lies the end of the input, EMPTY_FULL.                 *)
(***************************************************************************)
EXTENDS ATN

(* A configuration also knows the rules called on the way to it, none of   *)
(* which is called again.  (lookBusy tells configurations apart by state   *)
(* and context only; here they are followed along every path.)             *)
Configurations == [state : Nat, context : Seq(Nat), called : SUBSET Nat]

(* At the end of a rule _LOOK goes on in the caller on the context, ...     *)
ReturnsToCaller(g, c) ==
  IF g.type[c.state] = "RULE_STOP" /\ c.context # <<>>
  THEN {[state |-> Head(c.context), context |-> Tail(c.context),
         called |-> c.called \ {g.rule[c.state]}]}
  ELSE {}

(* ... and, from there as from everywhere, along every edge that consumes   *)
(* nothing, the context kept.                                              *)
Descends(g, c) ==
  {[state |-> t.target, context |-> <<t.follow>> \o c.context,
    called |-> c.called \cup {t.rule}] :
     t \in {u \in g.edges[c.state] : u.kind = "rule" /\ u.rule \notin c.called}}
Slides(g, c) ==
  {[c EXCEPT !.state = t.target] :
     t \in {u \in g.edges[c.state] : u.kind # "rule" /\ IsEpsilon(u)}}

EpsilonMoves(g, c) == ReturnsToCaller(g, c) \cup Descends(g, c) \cup Slides(g, c)

(* EpsilonMoves without the edges to callers that are not on the context. *)
MovesInContext(g, c) ==
  IF ReturnsToCaller(g, c) # {} THEN ReturnsToCaller(g, c)
  ELSE Descends(g, c) \cup Slides(g, c)

(* The search stops where the rule it began in ends with an empty context, *)
(* and, below a full context, wherever the context is empty at an end.     *)
Ends(g, c, stop, local) ==
  c.context = <<>> /\ (c.state = stop \/ (~local /\ g.type[c.state] = "RULE_STOP"))

Search(g, s, context, local, Step(_, _)) ==
  LET stop == g.stop[g.rule[s]]
      reach[S \in SUBSET Configurations] ==
        LET open == {c \in S : ~Ends(g, c, stop, local)}
            T == S \cup UNION {Step(g, c) : c \in open}
        IN IF T = S THEN S ELSE reach[T]
      all == reach[{[state |-> s, context |-> context, called |-> {}]}]
      tokens(c) == {a \in {EOF} \cup 1..g.maxTokenType :
                      \E t \in g.edges[c.state] : Matches(g, t, a)}
  IN UNION {tokens(c) : c \in {d \in all : ~Ends(g, d, stop, local)}}
     \cup {IF local THEN EPSILON ELSE EOF : c \in {d \in all : Ends(g, d, stop, local)}}

(* LOOK, as ATN.nextTokens(s) and ATN.nextTokens(s, ctx) ask for it. *)
LOOK(g, s) == Search(g, s, <<>>, TRUE, EpsilonMoves)
LOOKInContext(g, s, context) == Search(g, s, context, FALSE, EpsilonMoves)

(* The set the doc comment of LOOK describes: the tokens that can follow   *)
(* `s' in the ATN in the specified `ctx'.                                  *)
TokensThatCanFollow(g, s, context) == Search(g, s, context, FALSE, MovesInContext)
=============================================================================
