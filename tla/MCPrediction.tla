---------------------------- MODULE MCPrediction ----------------------------
(***************************************************************************)
(* What the prediction of a parser works with, each on a small instance:   *)
(* the DFA cache (MCPredictionDFA), the contexts and predicates that its   *)
(* configurations are made of, and the optimizer of the ATN it follows.    *)
(* They share no state, so a behaviour works with one.  The sets of        *)
(* configurations are in MCSupport.                                        *)
(***************************************************************************)
EXTENDS MCPredictionDFA

VARIABLES
  under,    \* what a behaviour works with
  context, otherContext, sem, means, otherSem, otherMeans,
  network, optimized, preserveOrder, pass, removed

Contexts == INSTANCE PredictionContext WITH
  other <- otherContext, ReturnStates <- {1, 2}, MaxDepth <- 2, MaxStacks <- 2
Predicates == INSTANCE SemanticContext WITH
  other <- otherSem, Predicates <- {"p", "q"}, Levels <- {1, 2, 3}, MaxOperands <- 2
Optimizer == INSTANCE ATNOptimizer WITH
  MaxLength <- 3,
  Networks <- {InlinedATN, NothingATN, HiddenPredicateATN, ExpressionATN, SetATN, DanglingATN,
               RecursiveStartATN}

contextVars == <<context, otherContext>>
semVars == <<sem, means, otherSem, otherMeans>>
netVars == <<network, optimized, preserveOrder, pass, removed>>

(* What a behaviour does not work with stays in one of its initial states. *)
MCInit ==
  /\ under \in {"cache", "contexts", "predicates", "optimizer"}
  /\ Init /\ Contexts!Init /\ Predicates!Init /\ Optimizer!Init
  /\ under # "cache" => g = CHOOSE h \in Grammars : TRUE
  /\ under # "contexts" => context = otherContext
  /\ under # "optimizer" => network = RecursiveStartATN /\ ~preserveOrder

MCNext ==
  /\ UNCHANGED under
  /\ \/ /\ under = "cache" /\ Next
        /\ UNCHANGED <<contextVars, semVars, netVars>>
     \/ /\ under = "contexts" /\ Contexts!Next
        /\ UNCHANGED <<vars, semVars, netVars>>
     \/ /\ under = "predicates" /\ Predicates!Next
        /\ UNCHANGED <<vars, contextVars, netVars>>
     \/ /\ under = "optimizer" /\ Optimizer!Next
        /\ UNCHANGED <<vars, contextVars, semVars>>

MCSpec ==
  MCInit /\ [][MCNext]_<<under, vars, contextVars, semVars, netVars>> /\ RunsOn

-----------------------------------------------------------------------------
(* The properties of the structures, in the behaviours that work with them. *)

(* atn/PredictionContext.ts: a graph is the set of its stacks. *)
GraphsAreStackSets == under = "contexts" => Contexts!GraphsAreStackSets

(* atn/SemanticContext.ts: and, or and evalPrecedence keep the meaning. *)
FormulasKeepTheirMeaning == under = "predicates" => Predicates!FormulasKeepTheirMeaning

(* atn/ATNDeserializer.ts: the optimized transitions match what the others do. *)
PathsAreKept == under = "optimizer" => Optimizer!PathsAreKept
=============================================================================
