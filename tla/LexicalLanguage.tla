--------------------------- MODULE LexicalLanguage ---------------------------
(***************************************************************************)
(* What the rules of a lexer match at a place of a text: a reference, by   *)
(* trying every path through the ATN.  A path is                           *)
(* [rule, state, stack, at, met, prompt]: the rule of the token, where it  *)
(* is, the states to return to, the index it has got to, where it met      *)
(* actions in the rule of the token itself, and whether it has passed a    *)
(* non-greedy decision.                                                    *)
(***************************************************************************)
EXTENDS ATN

(* The column of index i of the text w, its lines ended by `newline'. *)
ColumnIn(w, newline, i) ==
  LET ends == {0} \cup {k \in 1 .. i : w[k] = newline}
  IN i - (CHOOSE k \in ends : \A m \in ends : m <= k)

Paths == [rule : Nat, state : Nat, stack : Seq(Nat), at : Nat,
          met : Seq([state : Nat, at : Nat]), prompt : BOOLEAN]

Meets(p) ==
  IF p.stack # <<>> THEN p.met ELSE Append(p.met, [state |-> p.state, at |-> p.at])

Along(g, newline, w, p, t) ==
  LET there == [p EXCEPT !.state = t.target, !.prompt = @ \/ t.target \in g.nonGreedy]
      symbol == IF p.at < Len(w) THEN w[p.at + 1] ELSE EOF
  IN CASE t.kind = "rule" -> {[there EXCEPT !.stack = <<t.follow>> \o @]}
       [] t.kind = "epsilon" -> {there}
       [] t.kind = "action" -> {[there EXCEPT !.met = Meets(p)]}
       [] t.kind = "predicate" ->
            IF ColumnIn(w, newline, p.at) \in t.columns THEN {there} ELSE {}
       [] OTHER ->
            IF ~Matches(g, t, symbol) THEN {}
            ELSE IF symbol = EOF THEN {there} ELSE {[there EXCEPT !.at = @ + 1]}

Onward(g, newline, w, p) ==
  IF g.type[p.state] # "RULE_STOP"
  THEN UNION {Along(g, newline, w, p, t) : t \in g.edges[p.state]}
  ELSE IF p.stack = <<>> THEN {}
  ELSE {[p EXCEPT !.state = Head(p.stack), !.stack = Tail(@)]}

PathsFrom(g, newline, mode, w, i) ==
  LET begin == g.out[g.modeToStartState[mode]]
      reach[S \in SUBSET Paths] ==
        LET T == S \cup UNION {Onward(g, newline, w, p) : p \in S}
        IN IF T = S THEN S ELSE reach[T]
  IN reach[{[rule |-> g.rule[begin[k].target], state |-> begin[k].target, stack |-> <<>>, at |-> i,
             met |-> <<>>, prompt |-> FALSE] : k \in DOMAIN begin}]

Ended(g, p) == g.type[p.state] = "RULE_STOP" /\ p.stack = <<>>

(* The actions of a path.  A custom one runs where it stands. *)
ActionsOf(g, p) ==
  [k \in DOMAIN p.met |->
     LET a == g.out[p.met[k].state][1].action IN
     [a EXCEPT !.offset = IF a.kind = "custom" THEN p.met[k].at ELSE @]]

MatchesAt(g, newline, mode, w, i) ==
  {[rule |-> p.rule, stop |-> p.at, actions |-> ActionsOf(g, p), prompt |-> p.prompt] :
     p \in {q \in PathsFrom(g, newline, mode, w, i) : Ended(g, q)}}

(* How far a rule could go on: up to where it ended or needs a character.  *)
ReachesFrom(g, newline, mode, w, i) ==
  LET alive == {p \in PathsFrom(g, newline, mode, w, i) :
                  Ended(g, p) \/ ~OnlyEpsilon(g.edges[p.state])}
      ends  == {p.at : p \in alive} \cup {i}
  IN CHOOSE k \in ends : \A m \in ends : m <= k
=============================================================================
