--------------------------- MODULE Configurations ---------------------------
(***************************************************************************)
(* Configurations of the ATN (atn/ATNConfig.ts), sets of them              *)
(* (atn/ATNConfigSet.ts), and what a set of them predicts                  *)
(* (atn/ParserATNSimulator.ts): whether its alternatives conflict, which   *)
(* of them the predicates allow.                                           *)
(*                                                                         *)
(* A configuration is [state, alt, context, sem, outer, suppressed]:       *)
(*   context     the set of its stacks of return states, innermost first;  *)
(*               the empty stack is EMPTY_LOCAL, or EMPTY_FULL in the full *)
(*               simulation, whose stacks reach down to the start rule     *)
(*   sem         the predicates it has collected                           *)
(*   outer       reachesIntoOuterContext                                   *)
(*   suppressed  isPrecedenceFilterSuppressed                              *)
(*                                                                         *)
(* A simulation is a record [g, decision, full, level, holding, LA,        *)
(* ctxSensitive]: the ATN, the decision state, whether the context is      *)
(* full, the parser's precedence, the predicates sempred now answers yes   *)
(* to, the lookahead as a function from 0, 1, ... to token types, and      *)
(* userWantsCtxSensitive.                                                  *)
(***************************************************************************)
EXTENDS ATN
Lists == INSTANCE SequencesExt

InvalidAlt == 0        \* ATN.INVALID_ALT_NUMBER
NoViableAlt == -1      \* NoViableAltException
AssertionError == -2   \* assert() failed

Simulation(g, decision, LA, level, holding, ctxSensitive) ==
  [g |-> g, decision |-> decision, full |-> FALSE, level |-> level, holding |-> holding,
   LA |-> LA, ctxSensitive |-> ctxSensitive]

AtStop(sim, c) == sim.g.type[c.state] = "RULE_STOP"
IsPrecedenceDfa(sim) == sim.decision \in sim.g.precedenceDecisions
Alts(configs) == {c.alt : c \in configs}

-----------------------------------------------------------------------------
(* ATNConfigSet: configurations of one state, alternative and predicates   *)
(* are one, whose context joins theirs.                                    *)

(* PredictionContext.join: below EMPTY_LOCAL may lie any stack, so it      *)
(* stands for every longer one.                                            *)
Join(sim, stacks) ==
  IF sim.full THEN stacks
  ELSE {k \in stacks : ~\E j \in stacks : Lists!IsStrictPrefix(j, k)}

Merge(sim, configs) ==
  LET Group(c) ==
        {d \in configs : d.state = c.state /\ d.alt = c.alt /\ d.sem = c.sem}
  IN {[state |-> c.state, alt |-> c.alt, sem |-> c.sem,
       context |-> Join(sim, UNION {d.context : d \in Group(c)}),
       outer |-> \E d \in Group(c) : d.outer,
       suppressed |-> \E d \in Group(c) : d.suppressed] : c \in configs}

DipsIntoOuterContext(configs) == \E c \in configs : c.outer

-----------------------------------------------------------------------------
(* Predicates. *)

Holds(sim, t) ==
  IF t.kind = "precedence" THEN t.level >= sim.level ELSE t.predicate \in sim.holding

(* Those of the alternatives `alts' that depend on no predicate or that    *)
(* the parser, asked now, allows.                                          *)
Allowed(sim, configs, alts) ==
  {a \in alts : \E c \in configs : c.alt = a /\ \A t \in c.sem : Holds(sim, t)}

-----------------------------------------------------------------------------
(* Conflicts. *)

Row(sim, c) == IF AtStop(sim, c) THEN -1 ELSE c.state      \* nonStopStateNumber
Rows(sim, configs) == {Row(sim, c) : c \in configs}
AltsAt(sim, configs, row) == {c.alt : c \in {d \in configs : Row(sim, d) = row}}
ContextAt(sim, configs, row, alt) ==
  Join(sim, UNION {c.context : c \in {d \in configs : Row(sim, d) = row /\ d.alt = alt}})

(* isConflicted: at every state the smallest alternative of all is there,  *)
(* with a context that takes in those of the others.                       *)
IsConflicted(sim, configs) ==
  LET least == MinimumOf(Alts(configs)) IN
  /\ Cardinality(Alts(configs)) > 1
  /\ \A row \in Rows(sim, configs) :
       /\ least \in AltsAt(sim, configs, row)
       /\ \A a \in AltsAt(sim, configs, row) :
            Join(sim, ContextAt(sim, configs, row, least) \cup ContextAt(sim, configs, row, a))
              = ContextAt(sim, configs, row, least)

(* isExactConflict: every state has the same alternatives and contexts,    *)
(* except that the last state may lack the greatest alternatives.          *)
IsExactConflict(sim, configs) ==
  LET rows  == Rows(sim, configs)
      alts  == AltsAt(sim, configs, MinimumOf(rows))
      IsLast(row) == \A r \in rows : r <= row
  IN /\ ~DipsIntoOuterContext(configs)
     /\ \A row \in rows :
          LET here == AltsAt(sim, configs, row) IN
          /\ here \subseteq alts
          /\ \A a \in alts \ here : IsLast(row) /\ \A b \in here : b < a
          /\ \A a, b \in here :
               ContextAt(sim, configs, row, a) = ContextAt(sim, configs, row, b)

IsAccepting(sim, configs) ==
  configs # {} /\ (Cardinality(Alts(configs)) = 1 \/ IsConflicted(sim, configs))

-----------------------------------------------------------------------------
(* What is predicted where `configs' accept: the least alternative of      *)
(* those the predicates allow.                                             *)
Decide(sim, configs) ==
  LET allowed == Allowed(sim, configs, Alts(configs))
  IN IF allowed = {} THEN NoViableAlt ELSE MinimumOf(allowed)

(* A conflict that may be due to the local context is one to resolve with  *)
(* the full context, unless the predicates resolve it.  execATN gives up   *)
(* when they refuse all alternatives, execDFA retries then too.            *)
MayBeContextSensitive(sim, configs) ==
  /\ ~sim.full
  /\ sim.ctxSensitive
  /\ Cardinality(Alts(configs)) > 1
  /\ DipsIntoOuterContext(configs) \/ ~IsExactConflict(sim, configs)
RetriesInExecATN(sim, configs) ==
  /\ MayBeContextSensitive(sim, configs)
  /\ Cardinality(Allowed(sim, configs, Alts(configs))) > 1
RetriesInExecDFA(sim, configs) ==
  /\ MayBeContextSensitive(sim, configs)
  /\ Cardinality(Allowed(sim, configs, Alts(configs))) # 1

(* handleNoViableAlt: when no configuration survives the token, one that   *)
(* had ended the rule of the decision still predicts its alternative.      *)
HandleNoViableAlt(sim, previous) ==
  LET ended   == {c \in previous : c.outer \/ AtStop(sim, c)}
      allowed == Allowed(sim, ended, Alts(ended))
  IN IF ended = {} THEN NoViableAlt
     ELSE IF allowed # {} THEN MinimumOf(allowed)
     ELSE MinimumOf(Alts(ended))
=============================================================================
