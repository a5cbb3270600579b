---------------------------- MODULE PredictionDFA ----------------------------
(***************************************************************************)
(* What a parser remembers of its predictions (atn/ParserATNSimulator.ts,  *)
(* dfa/DFA.ts, dfa/DFAState.ts, atn/ATN.ts): for every decision a DFA,     *)
(* whose states are sets of configurations, and the LL1 table.  Both       *)
(* belong to the ATN: all parsers of a grammar fill them and read them,    *)
(* under any precedence, mode, context and outcome of predicates.          *)
(*                                                                         *)
(* A behaviour is a sequence of predictions.  A request is a record        *)
(* [decision, LA, stack, level, holding, mode]: the decision state, the    *)
(* lookahead, the return states of the calls under way, the parser's       *)
(* precedence, the predicates that hold, and the prediction mode.  A turn  *)
(* of the loops of execDFA and execATN is a step.  Predictions with the    *)
(* full context are not remembered (enable_global_context_dfa is off).     *)
(***************************************************************************)
EXTENDS Configurations

CONSTANTS
  Grammars,               \* the ATNs, each with the numbers of its decisions
  Requests(_),            \* the predictions asked for with an ATN
  StartAt(_, _, _),       \* computeStartState: of an ATN and a decision at a precedence
  TargetFrom(_, _, _, _), \* computeTargetState: after a set of configurations and a token
  FullStart(_, _),        \* computeStartState with the full context of a simulation
  InFullContext(_, _),    \* execDFA and execATN from there
  ExecATN(_, _, _, _),    \* execATN when nothing is remembered: of a simulation, a stack,
                          \* a set of configurations and the tokens consumed so far
  MaxPredictions          \* bounds the predictions of a behaviour

MaxShort == 65535        \* MAX_SHORT_VALUE

(* A decision's number tells it from the others and fits in 16 bits, and a *)
(* lookahead is a sequence of token types that ends with EOF.               *)
ASSUME DecisionsAreNumbered ==
  \A h \in Grammars :
    /\ \A d \in DOMAIN h.decisionNumber : h.decisionNumber[d] \in 0 .. MaxShort
    /\ \A d, e \in DOMAIN h.decisionNumber :
         h.decisionNumber[d] = h.decisionNumber[e] => d = e
ASSUME RequestsAreWellFormed ==
  /\ MaxPredictions \in Nat
  /\ \A h \in Grammars : \A r \in Requests(h) :
       /\ r.decision \in DOMAIN h.decisionNumber
       /\ \E last \in DOMAIN r.LA :
            /\ last \in Nat /\ DOMAIN r.LA = 0 .. last
            /\ \A i \in 0 .. last : (r.LA[i] = EOF) <=> (i = last)

(* The precedence matters to the start sets of precedence decisions only.  *)
ASSUME LevelsAreForPrecedence ==
  \A h \in Grammars : \A level \in {<<r.decision, r.level>> : r \in Requests(h)} :
    level[1] \notin h.precedenceDecisions =>
      StartAt(h, level[1], level[2]) = StartAt(h, level[1], 0)

VARIABLES
  g,         \* the ATN
  dfa,       \* of each decision [start, edges]: s0, by precedence; the edges by state and token
  LL1Table,  \* the alternative that one token decides
  request,   \* the prediction under way, or the last one
  run,       \* its loop: [by, s, k], the DFA state s reached with k tokens
  answer,    \* what it came to
  asked      \* the predictions so far

vars == <<g, dfa, LL1Table, request, run, answer, asked>>

Error == {}              \* ATNSimulator.ERROR: the set without configurations
Unanswered == 0
Nothing == [x \in {} |-> x]
Idle == [by |-> "nobody", s |-> {}, k |-> 0]
NoRequest == [decision |-> NoState, LA |-> Nothing, stack |-> <<>>, level |-> 0,
              holding |-> {}, mode |-> "LL"]

(* A mutant of Put: the map is made anew for the entry. *)
PutAlone(f, x, y) == [z \in {x} |-> y]

(* An entry of a map: EdgeMap.put, LL1Table.set. *)
Put(f, x, y) == [z \in DOMAIN f \cup {x} |-> IF z = x THEN y ELSE f[z]]

Key(number, symbol) == (number % (MaxShort + 1)) * (MaxShort + 1) + symbol   \* in 32 bits

IsShort(symbol) == symbol \in 0 .. MaxShort
KeyOf(r) == Key(g.decisionNumber[r.decision], r.LA[0])
SimOf(atn, r) == Simulation(atn, r.decision, r.LA, r.level, r.holding, r.mode = "LL")
Sim(r) == SimOf(g, r)
IsPrecedence(decision) == decision \in g.precedenceDecisions
IsUnique(configs) == \E a \in Alts(configs) : Alts(configs) = {a}   \* getUniqueAlt
UniqueAlt(configs) == CHOOSE a \in Alts(configs) : TRUE
HasSemanticContext(configs) == \E c \in configs : c.sem # {}

(* A mutant of StartLevel: all precedences share the first start state. *)
StartLevelShared(r) == 0

(* getPrecedenceStartState: a precedence DFA has one start state for each  *)
(* precedence.                                                             *)
StartLevel(r) == IF IsPrecedence(r.decision) THEN r.level ELSE 0

IsEmpty(decision) == DOMAIN dfa[decision].start = {}

-----------------------------------------------------------------------------
(* adaptivePredict. *)

InLL1Table(r) ==
  /\ ~IsPrecedence(r.decision) /\ ~IsEmpty(r.decision)
  /\ IsShort(r.LA[0])
  /\ KeyOf(r) \in DOMAIN LL1Table

Begin(r) ==
  /\ asked < MaxPredictions
  /\ asked' = asked + 1
  /\ request' = r
  /\ UNCHANGED <<g, LL1Table>>

PredictByLL1Table ==
  /\ run = Idle
  /\ \E r \in Requests(g) :
       /\ InLL1Table(r)
       /\ Begin(r)
       /\ answer' = LL1Table[KeyOf(r)]
       /\ UNCHANGED <<dfa, run>>

PredictByDFA ==
  /\ run = Idle
  /\ \E r \in Requests(g) :
       /\ ~InLL1Table(r)
       /\ Begin(r)
       /\ LET start == dfa[r.decision].start IN
          \E s \in {IF StartLevel(r) \in DOMAIN start THEN start[StartLevel(r)]
                    ELSE StartAt(g, r.decision, StartLevel(r))} :
            /\ dfa' = [dfa EXCEPT ![r.decision].start = Put(@, StartLevel(r), s)]
            /\ run' = [by |-> "execDFA", s |-> s, k |-> 0]
       /\ answer' = Unanswered

-----------------------------------------------------------------------------
(* The loops. *)

Symbol == request.LA[run.k]
Edges == dfa[request.decision].edges
Accepts(s) == IsAccepting(Sim(request), s)

(* A mutant of Goes that consumes EOF. *)
GoesPastEOF(by, s) == [by |-> by, s |-> s, k |-> run.k + 1]

Goes(by, s) == [by |-> by, s |-> s, k |-> IF Symbol = EOF THEN run.k ELSE run.k + 1]

(* A mutant of RetriesIn that tries the local context again. *)
RetriesLocally(by) ==
  /\ answer' = Unanswered
  /\ run' = [by |-> "execDFA", s |-> dfa[request.decision].start[StartLevel(request)], k |-> 0]

Returns(result) == answer' = result /\ run' = Idle
RetriesIn(by) == answer' = Unanswered /\ run' = [by |-> by, s |-> {}, k |-> 0]

(* execDFA: at an accept state what to do depends on the predicates as     *)
(* they are now; else the edge is followed, or, as there is none, the loop *)
(* of execATN is taken up at this state.                                   *)
AcceptInDFA ==
  /\ run.by = "execDFA" /\ Accepts(run.s)
  /\ IF RetriesInExecDFA(Sim(request), run.s)
     THEN RetriesIn("fullContext")
     ELSE Returns(Decide(Sim(request), run.s))
  /\ UNCHANGED <<g, dfa, LL1Table, request, asked>>

FollowEdge ==
  /\ run.by = "execDFA" /\ ~Accepts(run.s)
  /\ <<run.s, Symbol>> \in DOMAIN Edges
  /\ \E s \in {Edges[<<run.s, Symbol>>]} :
       IF s = Error THEN Returns(HandleNoViableAlt(Sim(request), run.s))
       ELSE answer' = Unanswered /\ run' = Goes("execDFA", s)
  /\ UNCHANGED <<g, dfa, LL1Table, request, asked>>

LeaveDFA ==
  /\ run.by = "execDFA" /\ ~Accepts(run.s)
  /\ <<run.s, Symbol>> \notin DOMAIN Edges
  /\ run' = [by |-> "execATN", s |-> run.s, k |-> run.k]
  /\ UNCHANGED <<g, dfa, LL1Table, request, answer, asked>>

(* A mutant of DecidedByOneToken that does not mind predicates. *)
DecidedWhateverHolds(s) ==
  /\ IsUnique(s)
  /\ run.k = 0 /\ IsShort(Symbol)
  /\ ~IsPrecedence(request.decision)

(* execATN: what one token decided goes to the LL1 table, ...              *)
DecidedByOneToken(s) ==
  /\ IsUnique(s)
  /\ run.k = 0 /\ IsShort(Symbol)
  /\ ~IsPrecedence(request.decision)
  /\ ~HasSemanticContext(s)

Remember(s) ==
  LL1Table' = IF s # Error /\ DecidedByOneToken(s)
              THEN Put(LL1Table, KeyOf(request), UniqueAlt(s))
              ELSE LL1Table

(* ... and the state a token leads to, found or computed, becomes an edge. *)
(* computeReachSet asserts not to set out from a state that accepts.       *)
Reach ==
  /\ run.by = "execATN"
  /\ \E s \in {IF <<run.s, Symbol>> \in DOMAIN Edges THEN Edges[<<run.s, Symbol>>]
               ELSE TargetFrom(g, request.decision, run.s, Symbol)} :
       /\ dfa' = [dfa EXCEPT ![request.decision].edges = Put(@, <<run.s, Symbol>>, s)]
       /\ Remember(s)
       /\ IF s = Error THEN Returns(HandleNoViableAlt(Sim(request), run.s))
          ELSE IF ~Accepts(s) THEN answer' = Unanswered /\ run' = Goes("execATN", s)
          ELSE IF RetriesInExecATN(Sim(request), s) THEN RetriesIn("fullReach")
          ELSE Returns(Decide(Sim(request), s))
  /\ UNCHANGED <<g, request, asked>>

(* The retry.  execDFA goes back to adaptivePredict for it, execATN goes   *)
(* on to computeReachSet from the start set at once.                       *)
FullSimOf(atn, r) == [SimOf(atn, r) EXCEPT !.full = TRUE]
InFull(atn, r) == InFullContext(FullSimOf(atn, r), r.stack)
AcceptsAtOnce(atn, r) ==
  IsAccepting(FullSimOf(atn, r), FullStart(FullSimOf(atn, r), r.stack))

RetryInFullContext ==
  /\ run.by \in {"fullContext", "fullReach"}
  /\ IF run.by = "fullReach" /\ AcceptsAtOnce(g, request) THEN Returns(AssertionError)
     ELSE Returns(InFull(g, request))
  /\ UNCHANGED <<g, dfa, LL1Table, request, asked>>

(* What a request comes to when nothing is remembered: a start set that    *)
(* accepts already is left to execDFA, any other to execATN.               *)
FromAccepting(atn, r, s) ==
  IF RetriesInExecDFA(SimOf(atn, r), s) THEN InFull(atn, r) ELSE Decide(SimOf(atn, r), s)
FromStart(atn, r, s) ==
  IF IsAccepting(SimOf(atn, r), s) THEN FromAccepting(atn, r, s)
  ELSE ExecATN(SimOf(atn, r), r.stack, s, 0)
Uncached(atn, r) == FromStart(atn, r, StartAt(atn, r.decision, r.level))

(* execATN is a loop: what it comes to is what its next turn leaves to do. *)
Behind(r, k) == IF r.LA[k] = EOF THEN k ELSE k + 1
TurnOfExec(atn, r, s, k) ==
  LET sim    == SimOf(atn, r)
      target == TargetFrom(atn, r.decision, s, r.LA[k]) IN
  IF IsAccepting(sim, s)
  THEN IF ~RetriesInExecATN(sim, s) THEN Decide(sim, s)
       ELSE IF AcceptsAtOnce(atn, r) THEN AssertionError
       ELSE InFull(atn, r)
  ELSE IF target = Error THEN HandleNoViableAlt(sim, s)
       ELSE ExecATN(sim, r.stack, target, Behind(r, k))
IsTurned(atn, r, s, k) ==
  /\ IsFiniteSet(Alts(s)) /\ Alts(s) \subseteq Nat
  /\ ExecATN(SimOf(atn, r), r.stack, s, k) = TurnOfExec(atn, r, s, k)

(* What the local context refuses, the full one refuses: it follows fewer  *)
(* paths, which collect the same predicates.                               *)
ASSUME RefusalsAgree ==
  \A h \in Grammars : \A r \in Requests(h) :
    r.mode = "LL" /\ Uncached(h, r) = NoViableAlt =>
      AcceptsAtOnce(h, r) \/ InFull(h, r) = NoViableAlt

Turn == AcceptInDFA \/ FollowEdge \/ LeaveDFA \/ Reach \/ RetryInFullContext

-----------------------------------------------------------------------------
Init ==
  /\ g \in Grammars
  /\ dfa = [d \in DOMAIN g.decisionNumber |-> [start |-> Nothing, edges |-> Nothing]]
  /\ LL1Table = Nothing
  /\ request = NoRequest
  /\ run = Idle
  /\ answer = Unanswered
  /\ asked = 0

Next == PredictByLL1Table \/ PredictByDFA \/ Turn

(* A prediction runs until it returns; that another one is asked for is up *)
(* to the parser.  This is WF_vars(Turn): a turn is enabled unless Idle.    *)
RunsOn == []<>(run = Idle) \/ []<><<Turn>>_vars

Spec == Init /\ [][Next]_vars /\ RunsOn

-----------------------------------------------------------------------------
(* A loop is at a token of its request's lookahead, and only the actions   *)
(* of a prediction that goes on leave it unanswered.                       *)
TypeOK ==
  /\ g \in Grammars
  /\ DOMAIN dfa = DOMAIN g.decisionNumber
  /\ asked \in 0 .. MaxPredictions
  /\ (request = NoRequest /\ run = Idle) \/ request \in Requests(g)
  /\ \/ run = Idle
     \/ /\ run.by \in {"execDFA", "execATN", "fullContext", "fullReach"}
        /\ run.k \in DOMAIN request.LA
        /\ answer = Unanswered

(* A state of the cache is what computing it again would give: a start     *)
(* state for its precedence, a target for its state and token, whoever     *)
(* asked first; and what the LL1 table says of a token is what the set     *)
(* after that token predicts, in any context and whatever predicates hold  *)
(* (computeStartState, addDFAEdge, execATN).                               *)
StartStatesAreSound ==
  \A d \in DOMAIN dfa : \A l \in DOMAIN dfa[d].start :
    dfa[d].start[l] = StartAt(g, d, l)

EdgesAreSound ==
  \A d \in DOMAIN dfa : \A e \in DOMAIN dfa[d].edges :
    dfa[d].edges[e] = TargetFrom(g, d, e[1], e[2])

EntryIsSound(key, alt) ==
  \E d \in DOMAIN dfa :
    /\ g.decisionNumber[d] = key \div (MaxShort + 1)
    /\ ~IsPrecedence(d)
    /\ \E s \in {TargetFrom(g, d, StartAt(g, d, 0), key % (MaxShort + 1))} :
         Alts(s) = {alt} /\ ~HasSemanticContext(s)
LL1TableIsSound == \A key \in DOMAIN LL1Table : EntryIsSound(key, LL1Table[key])

CacheIsSound == StartStatesAreSound /\ EdgesAreSound /\ LL1TableIsSound

(* Whatever was predicted before, by parsers in other contexts, with other *)
(* precedences, modes and predicates, a prediction is the one made with    *)
(* nothing remembered.  The one exception: where the start set of the full *)
(* context accepts, execATN fails an assertion, or refuses a conflict whose*)
(* predicates all fail, while execDFA, which finds the conflict in the     *)
(* cache, goes on (adaptivePredict, execDFA, execATN).                     *)
IsAnswer(uncached) ==
  \/ answer = uncached
  \/ /\ uncached \in {AssertionError, NoViableAlt} /\ request.mode = "LL"
     /\ AcceptsAtOnce(g, request) /\ answer = InFull(g, request)
AnswersAreUncached ==
  run = Idle /\ request # NoRequest =>
    \E uncached \in {Uncached(g, request)} : IsAnswer(uncached)

(* What is remembered stays as it is: no prediction takes back what others *)
(* rely on (setDFAEdge, setPrecedenceStartState, LL1Table.set).            *)
Extends(f, h) == DOMAIN h \subseteq DOMAIN f /\ \A x \in DOMAIN h : f[x] = h[x]
CacheOnlyGrows ==
  [][/\ Extends(LL1Table', LL1Table)
     /\ \A d \in DOMAIN dfa : /\ Extends(dfa'[d].start, dfa[d].start)
                               /\ Extends(dfa'[d].edges, dfa[d].edges)]_vars

(* Every prediction ends (adaptivePredict). *)
PredictionsEnd == run # Idle ~> run = Idle

(* computeReachSet does not set out from a set that accepts: "assert(!this  *)
(* .isAcceptState(s, useContext))" (ParserATNSimulator.ts:1003).            *)
AssertionsHold == answer # AssertionError
=============================================================================
