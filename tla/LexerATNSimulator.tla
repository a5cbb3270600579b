--------------------------- MODULE LexerATNSimulator ---------------------------
(***************************************************************************)
(* LexerATNSimulator.ts: how the lexer finds its tokens.  A set of         *)
(* configurations is followed through the ATN a character at a time; each  *)
(* step is remembered in a DFA, which outlives the token, the text and     *)
(* reset().  The last accepting set, with its place, is what the match     *)
(* comes back to.                                                          *)
(*                                                                         *)
(* A set is the sequence of its configurations, a DFA state is its set.    *)
(* Which sets there are is a parameter (LexerConfigurations): all that     *)
(* matters here of a configuration is its state and its actions.           *)
(***************************************************************************)
EXTENDS Lexer
LOCAL Seqs == INSTANCE SequencesExt

CONSTANTS
  StartState(_, _, _),        \* computeStartState: of an ATN and a mode, at a column
  ReachableSet(_, _, _, _, _) \* getReachableConfigSet: of an ATN and a set, on a symbol,
                              \* at a column and an offset in the token

VARIABLES
  sim,        \* the simulator, and where it is in execATN
  dfa         \* mode -> [s0, edges]: the cache of the ATN

vars == <<g, input, lexer, earlier, sim, dfa>>

NoSet == <<>>       \* ATNSimulator.ERROR, and an s0 not computed yet
NoAccept == [index |-> -1, line |-> 0, column |-> -1, state |-> NoSet]

Idle == [phase |-> "idle", startIndex |-> -1, state |-> NoSet, prevAccept |-> NoAccept]
EmptyDFA == [s0 |-> NoSet, edges |-> {}]

-----------------------------------------------------------------------------
(* match, execATN. *)

Ends(configs) == {i \in DOMAIN configs : g.type[configs[i].state] = "RULE_STOP"}
Accepting(configs) == Ends(configs) # {}
FirstEnd(configs) == configs[MinimumOf(Ends(configs))]

(* What the ATN comes to from here.  A predicate met behind the current    *)
(* character is asked with the character consumed (evaluatePredicate).     *)
StartHere == StartState(g, lexer.mode, lexer.column)
ReachHere == ReachableSet(g, sim.state, LA(lexer), ConsumeChar(lexer).column,
                          lexer.index - sim.startIndex)

(* A mutant of Captured that stays with the first match it meets.          *)
CapturedOnce(l, configs, before) ==
  IF ~Accepting(configs) \/ before # NoAccept THEN before
  ELSE [index |-> l.index, line |-> l.line, column |-> l.column, state |-> configs]

(* captureSimState: where to come back to, if `configs' accepts.           *)
Captured(l, configs, before) ==
  IF ~Accepting(configs) THEN before
  ELSE [index |-> l.index, line |-> l.line, column |-> l.column, state |-> configs]

Begin(configs) ==
  sim' = [phase |-> "exec", startIndex |-> lexer.index, state |-> configs,
          prevAccept |-> Captured(lexer, configs, NoAccept)]

MatchFromDFA ==
  /\ lexer.calling = "match" /\ sim.phase = "idle"
  /\ dfa[lexer.mode].s0 # NoSet
  /\ Begin(dfa[lexer.mode].s0)
  /\ UNCHANGED <<lexerVars, dfa>>

(* What depends on a predicate is not remembered (suppressEdge). *)
MatchATN ==
  /\ lexer.calling = "match" /\ sim.phase = "idle"
  /\ dfa[lexer.mode].s0 = NoSet
  /\ \E start \in {StartHere} :
       /\ Begin(start.configs)
       /\ dfa' = IF start.predicated THEN dfa
                 ELSE [dfa EXCEPT ![lexer.mode].s0 = start.configs]
  /\ UNCHANGED lexerVars

(* One turn of execATN's loop, the target at hand. *)
Turn(target) ==
  /\ lexer' = IF target = NoSet \/ LA(lexer) = EOF THEN lexer ELSE ConsumeChar(lexer)
  /\ sim' = IF target = NoSet THEN [sim EXCEPT !.phase = "ended"]
            ELSE [sim EXCEPT !.phase = IF Accepting(target) /\ LA(lexer) = EOF
                                       THEN "ended" ELSE "exec",
                             !.state = target,
                             !.prevAccept = Captured(lexer', target, @)]
  /\ UNCHANGED <<g, input, earlier>>

Known == {e \in dfa[lexer.mode].edges : e.from = sim.state /\ e.on = LA(lexer)}

FollowEdge ==
  /\ sim.phase = "exec"
  /\ \E e \in Known : Turn(e.to)
  /\ UNCHANGED dfa

(* A mutant of Remember that forgets about predicates. *)
RememberAlways(reach) ==
  dfa' = [dfa EXCEPT ![lexer.mode].edges =
            @ \cup {[from |-> sim.state, on |-> LA(lexer), to |-> reach.configs]}]

(* addDFAEdge. *)
Remember(reach) ==
  dfa' = IF reach.predicated THEN dfa
         ELSE [dfa EXCEPT ![lexer.mode].edges =
                 @ \cup {[from |-> sim.state, on |-> LA(lexer), to |-> reach.configs]}]

ComputeTarget ==
  /\ sim.phase = "exec" /\ Known = {}
  /\ \E reach \in {ReachHere} : Turn(reach.configs) /\ Remember(reach)

-----------------------------------------------------------------------------
(* failOrAccept. *)

(* A mutant of Execute that leaves the stream where the last action ran.   *)
ExecuteAndStay(l, actions, start) ==
  LET One(m, a) ==
        IF m.thrown THEN m
        ELSE Perform([m EXCEPT !.index = CASE a.offset # NoOffset -> start + a.offset
                                          [] a.kind = "custom" -> l.index
                                          [] OTHER -> @], a)
  IN Seqs!FoldLeft(One, l, actions)

(* One turn of its loop: `e' is the lexer, and requiresSeek.               *)
ExecuteOne(e, a, start, stop) ==
  LET Do(i, seek) == [lexer |-> Perform([e.lexer EXCEPT !.index = i], a), seek |-> seek]
  IN IF e.lexer.thrown THEN e
     ELSE IF a.offset # NoOffset THEN Do(start + a.offset, start + a.offset # stop)
     ELSE IF a.kind = "custom" THEN Do(stop, FALSE)
     ELSE Do(e.lexer.index, e.seek)

(* LexerActionExecutor.execute: the stream is put where a custom action    *)
(* stands and, in the end or when an action throws, behind the token.      *)
Execute(l, actions, start) ==
  LET after[i \in 0 .. Len(actions)] ==
        IF i = 0 THEN [lexer |-> l, seek |-> FALSE]
        ELSE ExecuteOne(after[i - 1], actions[i], start, l.index)
      end == after[Len(actions)]
  IN IF end.seek THEN [end.lexer EXCEPT !.index = l.index] ELSE end.lexer

(* A mutant of BackTo that forgets the line and column. *)
BackToIndex(l, a) == [l EXCEPT !.index = a.index]

(* accept, before the actions. *)
BackTo(l, a) == [l EXCEPT !.index = a.index, !.line = a.line, !.column = a.column]

(* What a match leaves in the simulator is not read before the next one.   *)
AcceptToken ==
  /\ sim.phase = "ended" /\ sim.prevAccept # NoAccept
  /\ LET end == FirstEnd(sim.prevAccept.state) IN
     \E l \in {Execute(BackTo(lexer, sim.prevAccept), end.actions, sim.startIndex)} :
       lexer' = IF l.thrown THEN AfterThrow(l)
                ELSE AfterMatch(l, g.ruleToTokenType[g.rule[end.state]])
  /\ sim' = Idle
  /\ UNCHANGED <<g, input, earlier, dfa>>

AcceptEOF ==
  /\ sim.phase = "ended" /\ sim.prevAccept = NoAccept
  /\ LA(lexer) = EOF /\ lexer.index = sim.startIndex
  /\ lexer' = AfterMatch(lexer, EOF)
  /\ sim' = Idle
  /\ UNCHANGED <<g, input, earlier, dfa>>

NoViableAlt ==
  /\ sim.phase = "ended" /\ sim.prevAccept = NoAccept
  /\ LA(lexer) # EOF \/ lexer.index # sim.startIndex
  /\ lexer' = AfterError(lexer)
  /\ sim' = Idle
  /\ UNCHANGED <<g, input, earlier, dfa>>

-----------------------------------------------------------------------------

CallNextToken == NextToken /\ UNCHANGED <<sim, dfa>>
ResetLexer == Reset /\ sim' = Idle /\ UNCHANGED dfa
ReadAnotherInput == SetInputStream /\ sim' = Idle /\ UNCHANGED dfa

SimulatorInit ==
  /\ Init
  /\ sim = Idle
  /\ dfa = [m \in DOMAIN g.modeToStartState |-> EmptyDFA]

SimulatorNext ==
  \/ CallNextToken \/ MatchFromDFA \/ MatchATN \/ FollowEdge \/ ComputeTarget
  \/ AcceptToken \/ AcceptEOF \/ NoViableAlt
  \/ ResetLexer \/ ReadAnotherInput

SimulatorSpec == SimulatorInit /\ [][SimulatorNext]_vars

-----------------------------------------------------------------------------
(* What the simulator has to do. *)

(* A set of configurations of a grammar. *)
IsConfiguration(h, config) ==
  /\ config.state \in DOMAIN h.type /\ config.stack \in Seq(DOMAIN h.type)
  /\ config.prompt \in BOOLEAN
  /\ config.actions \in Seq(Seqs!Range(config.actions))
  /\ \A k \in DOMAIN config.actions : IsAction(h, config.actions[k])
IsSet(h, configs) ==
  /\ configs \in Seq(Seqs!Range(configs))
  /\ \A i \in DOMAIN configs : IsConfiguration(h, configs[i])

(* The variables keep their types: a DFA state has one edge at most for a  *)
(* symbol (DFAState.setTarget), the last accept lies within the match, and *)
(* the sets followed are sets of configurations of the grammar.            *)
TypeOK ==
  /\ LexerTypeOK
  /\ sim.phase \in {"idle", "exec", "ended"}
  /\ sim.phase # "idle" => lexer.calling = "match" /\ sim.startIndex \in Indexes
  /\ sim.prevAccept # NoAccept => sim.prevAccept.index \in sim.startIndex .. lexer.index
  /\ IsSet(g, sim.state) /\ IsSet(g, sim.prevAccept.state)
  /\ DOMAIN dfa = DOMAIN g.modeToStartState
  /\ \A m \in DOMAIN dfa : \A e, f \in dfa[m].edges :
       e.from = f.from /\ e.on = f.on => e = f

(* The cache is transparent: what it answers is what would be computed     *)
(* from the ATN here and now, whichever texts filled it and whatever the   *)
(* predicates answered then (execATN, addDFAEdge, matchATN).               *)
CacheIsTransparent ==
  /\ sim.phase = "exec" =>
       \A e \in Known : ReachHere.configs = e.to
  /\ lexer.calling = "match" /\ sim.phase = "idle" /\ dfa[lexer.mode].s0 # NoSet =>
       StartHere.configs = dfa[lexer.mode].s0

(* The simulator finds the token the lexer promises: of the matches there  *)
(* are the longest, of the first rule, its actions run where they stand;   *)
(* and it reports no error when there is a match.  In the middle of a      *)
(* match the stream is taken to be where the match began.                  *)
Settled == IF sim.phase = "idle" THEN lexer ELSE At(lexer, sim.startIndex)
Promised == INSTANCE Lexer WITH lexer <- Settled
ImplementsLexer == Promised!Spec
================================================================================
