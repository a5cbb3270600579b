------------------------- MODULE ParserATNSimulator -------------------------
(***************************************************************************)
(* atn/ParserATNSimulator.ts: adaptivePredict, as the simulation computes  *)
(* a prediction when nothing is cached yet.  It tries a decision with a    *)
(* local context first (SLL), and again with the full one (LL) when the    *)
(* local one ends in a conflict it cannot tell from an ambiguity.          *)
(***************************************************************************)
EXTENDS Configurations

-----------------------------------------------------------------------------
(* Closure.  Within it a configuration also has a `depth', the calls it is *)
(* below the decision's rule (-1 once it has left that rule), and says     *)
(* whether it is still `collecting' predicates.                            *)

Open(c, collecting) ==
  [state |-> c.state, alt |-> c.alt, context |-> c.context, sem |-> c.sem,
   outer |-> c.outer, suppressed |-> c.suppressed, depth |-> 0, collecting |-> collecting]
Shut(c) ==
  [state |-> c.state, alt |-> c.alt, context |-> c.context, sem |-> c.sem,
   outer |-> c.outer, suppressed |-> c.suppressed]

Shallower(depth) == IF depth <= 0 THEN -1 ELSE depth - 1

(* A configuration at the end of a rule returns to each caller on its      *)
(* context, ...                                                            *)
Returns(sim, c) ==
  {[c EXCEPT !.state = f,
             !.context = {Tail(k) : k \in {j \in c.context : j # <<>> /\ Head(j) = f}},
             !.depth = Shallower(@)] :
     f \in {Head(k) : k \in c.context \ {<<>>}}}

(* ... and, below EMPTY_LOCAL, to every caller the rule has.               *)
LeavesRule(sim, c) ==
  IF c.context # {<<>>} \/ sim.full THEN {}
  ELSE {[c EXCEPT !.state = t.target, !.outer = TRUE, !.depth = Shallower(@),
                  !.suppressed = @ \/ ( /\ IsPrecedenceDfa(sim)
                                        /\ t.outermost = sim.g.rule[sim.decision])] :
          t \in sim.g.edges[c.state]}

(* The recursive loop of a precedence rule is not entered again from the   *)
(* loop that called the rule.                                              *)
EntersSuppressedLoop(sim, c, t) ==
  /\ c.state \in sim.g.precedenceDecisions
  /\ t = sim.g.out[c.state][1]
  /\ \A k \in c.context : k # <<>> /\ Head(k) \in sim.g.loopback[c.state]

(* A tail call leaves no trace on a context that is not EMPTY_LOCAL. *)
IsTailCall(sim, c, t) == t.tailCall /\ (sim.full \/ c.context # {<<>>})

Enters(sim, c, t) ==
  IF IsTailCall(sim, c, t)
  THEN [c EXCEPT !.state = t.target, !.depth = IF @ = 0 THEN -1 ELSE @]
  ELSE [c EXCEPT !.state = t.target, !.depth = IF @ < 0 THEN @ ELSE @ + 1,
                 !.context = {<<t.follow>> \o k : k \in @}]

(* A predicate is collected, but not behind an action, and a precedence    *)
(* predicate only in the decision's own invocation of its rule.            *)
Collects(c, t) ==
  c.collecting /\ (t.kind = "predicate" \/ (t.kind = "precedence" /\ c.depth = 0))

(* getEpsilonTarget, for all edges of a state but the calls. *)
Moves(sim, c, eofIsEpsilon) ==
  {[c EXCEPT !.state = t.target,
             !.sem = IF Collects(c, t) THEN @ \cup {t} ELSE @,
             !.collecting = @ /\ t.kind # "action"] :
     t \in {u \in sim.g.edges[c.state] :
              /\ u.kind # "rule"
              /\ IsEpsilon(u) \/ (eofIsEpsilon /\ Matches(sim.g, u, EOF))
              /\ ~EntersSuppressedLoop(sim, c, u)}}

CallsOf(sim, c) == {Enters(sim, c, t) : t \in {u \in sim.g.edges[c.state] : u.kind = "rule"}}

(* closureImpl keeps the configurations from which a token can be consumed *)
(* and those that end the rule of the decision, or the start rule.         *)
IsKept(sim, c) ==
  IF AtStop(sim, c)
  THEN c.context = {<<>>} /\ (sim.full \/ ~c.outer \/ sim.g.edges[c.state] = {})
  ELSE ~OnlyEpsilon(sim.g.edges[c.state])

RECURSIVE Explore(_, _, _, _)
Explore(sim, seen, fresh, eofIsEpsilon) ==
  LET Steps(c) ==
        IF AtStop(sim, c) THEN Returns(sim, c) \cup LeavesRule(sim, c)
        ELSE Moves(sim, c, eofIsEpsilon) \cup (IF c.collecting THEN CallsOf(sim, c) ELSE {})
      found == UNION {Steps(c) : c \in fresh} \ seen
  IN IF found = {} THEN seen ELSE Explore(sim, seen \cup found, found, eofIsEpsilon)

(* The calls met when no predicate is to be collected wait in an           *)
(* intermediate set, merged there, and are the sources of the next round,  *)
(* which begins like the first.                                            *)
RECURSIVE Rounds(_, _, _, _, _)
Rounds(sim, sources, rounds, collectPredicates, eofIsEpsilon) ==
  LET opened == {Open(c, collectPredicates) : c \in sources}
      all    == Explore(sim, opened, opened, eofIsEpsilon)
      calls  == UNION {CallsOf(sim, c) : c \in {d \in all : ~AtStop(sim, d) /\ ~d.collecting}}
      next   == Merge(sim, {Shut(c) : c \in calls})
      kept   == {Shut(c) : c \in {d \in all : IsKept(sim, d)}}
  IN IF next \subseteq rounds THEN kept
     ELSE kept \cup Rounds(sim, next, rounds \cup next, collectPredicates, eofIsEpsilon)

Closure(sim, sources, collectPredicates, eofIsEpsilon) ==
  Merge(sim, Rounds(sim, sources, {}, collectPredicates, eofIsEpsilon))

-----------------------------------------------------------------------------
(* In the start set of a precedence decision the precedence predicates of  *)
(* the first alternative, which enters the loop, are decided at once; a    *)
(* configuration that leaves the loop is dropped for the same one inside.  *)
ApplyPrecedenceFilter(sim, configs) ==
  LET IsPrecedence(t) == t.kind = "precedence"
      entering == {c \in configs : /\ c.alt = 1
                                   /\ \A t \in c.sem : IsPrecedence(t) => Holds(sim, t)}
      leaving  == {c \in configs : /\ c.alt # 1
                                   /\ \/ c.suppressed
                                      \/ ~\E d \in entering : /\ d.state = c.state
                                                               /\ d.context = c.context}
  IN Merge(sim, {[c EXCEPT !.sem = {t \in @ : ~IsPrecedence(t)}] : c \in entering}
                  \cup leaving)

-----------------------------------------------------------------------------
(* The simulation. *)

StartSet(sim, stack) ==
  LET outOf   == sim.g.out[sim.decision]
      sources == {[state |-> outOf[i].target, alt |-> i, sem |-> {}, outer |-> FALSE,
                   context |-> {IF sim.full THEN stack ELSE <<>>},
                   suppressed |-> FALSE] : i \in DOMAIN outOf}
      configs == Closure(sim, sources, TRUE, FALSE)
  IN IF IsPrecedenceDfa(sim) /\ ~sim.full THEN ApplyPrecedenceFilter(sim, configs)
     ELSE configs

(* computeTargetState: the configurations after a token.  One that ended   *)
(* its rule stays if nothing but the end of the input can follow.          *)
Target(sim, configs, symbol) ==
  LET matching(c) == {t \in sim.g.edges[c.state] : Matches(sim.g, t, symbol)}
      open    == {c \in configs : ~AtStop(sim, c)}
      moved   == Merge(sim, UNION {{[c EXCEPT !.state = t.target] : t \in matching(c)} :
                                   c \in open})
      skipped == {c \in configs \ open : (sim.full /\ ~c.outer) \/ symbol = EOF}
      closed  == Closure(sim, moved, FALSE, symbol = EOF)
      reach   == IF symbol = EOF THEN {c \in closed : AtStop(sim, c)} ELSE closed
  IN IF skipped = {} /\ symbol # EOF /\ Cardinality(Alts(moved)) = 1 THEN moved
     ELSE IF sim.full /\ \E c \in reach : AtStop(sim, c) THEN reach
     ELSE Merge(sim, reach \cup skipped)

(* Op of a value that is computed once. *)
With(Op(_), value) == CHOOSE x \in {Op(v) : v \in {value}} : TRUE

(* A prediction with the full context, from the start of the decision. *)
InFull(sim) == [sim EXCEPT !.full = TRUE]
FullStartSet(sim, stack) == StartSet(InFull(sim), stack)

RECURSIVE Exec(_, _, _, _)
(* execATN: `configs' is what is left after k tokens.  It retries with the *)
(* full context, whose start set computeReachSet asserts not to accept.    *)
Exec(sim, stack, configs, k) ==
  LET symbol == sim.LA[k]
      Retry(start) ==
        IF IsAccepting(InFull(sim), start) THEN AssertionError
        ELSE Exec(InFull(sim), stack, start, 0)
      GoOn(next) ==
        IF next = {} THEN HandleNoViableAlt(sim, configs)
        ELSE Exec(sim, stack, next, IF symbol = EOF THEN k ELSE k + 1)
  IN IF ~IsAccepting(sim, configs) THEN With(GoOn, Target(sim, configs, symbol))
     ELSE IF RetriesInExecATN(sim, configs) THEN With(Retry, FullStartSet(sim, stack))
     ELSE Decide(sim, configs)

PredictInFull(sim, stack) ==
  LET FromStart(start) == Exec(InFull(sim), stack, start, 0)
  IN With(FromStart, FullStartSet(sim, stack))

(* A start set that accepts already is left to execDFA, any other one to   *)
(* execATN, as it has no edges yet.                                        *)
AdaptivePredict(sim, stack) ==
  LET FromStart(start) ==
        IF ~IsAccepting(sim, start) THEN Exec(sim, stack, start, 0)
        ELSE IF RetriesInExecDFA(sim, start) THEN PredictInFull(sim, stack)
        ELSE Decide(sim, start)
  IN With(FromStart, StartSet(sim, stack))
=============================================================================
