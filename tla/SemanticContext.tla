-------------------------- MODULE SemanticContext --------------------------
(***************************************************************************)
(* atn/SemanticContext.ts: the predicates a configuration depends on.  A   *)
(* configuration collects them with and(), getPredsForAmbigAlts unites     *)
(* those of its alternative with or(), and evalPrecedence decides the      *)
(* precedence predicates when a precedence decision starts.                *)
(*                                                                         *)
(* `sem' is the context worked on, `other' the one of another              *)
(* configuration.  The order of operands, which is that of a hash table,   *)
(* is left out.  For each of the two there is what it ought to mean: the   *)
(* worlds, of predicates that hold and the parser's precedence, in which   *)
(* the formula is true.                                                    *)
(***************************************************************************)
EXTENDS Integers, FiniteSets
LOCAL INSTANCE FiniteSetsExt

CONSTANTS
  Predicates,    \* names of predicates
  Levels,        \* precedences, of predicates and of the parser
  MaxOperands    \* bounds the contexts made

VARIABLES sem, means, other, otherMeans

vars == <<sem, means, other, otherMeans>>

Worlds == [holding : SUBSET Predicates, level : Levels]

-----------------------------------------------------------------------------
Context(kind, predicate, level, operands) ==
  [kind |-> kind, predicate |-> predicate, level |-> level, operands |-> operands]
NONE       == Context("none", "", 0, {})
Undefined  == Context("undefined", "", 0, {})     \* false, as evalPrecedence says it
Predicate(p)  == Context("predicate", p, 0, {})
Precedence(l) == Context("precedence", "", l, {})

(* A mutant of Reduced that keeps the stronger one for either operator. *)
Strictest(kind, levels) == IF levels = {} THEN {} ELSE {Precedence(Min(levels))}

(* Of the precedence predicates of an AND the least is left, of those of   *)
(* an OR the greatest.                                                     *)
Reduced(kind, levels) ==
  IF levels = {} THEN {} ELSE {Precedence(IF kind = "and" THEN Min(levels) ELSE Max(levels))}

(* The constructors: operands of an operand of the same kind become its    *)
(* own.                                                                    *)
Operator(kind, a, b) ==
  LET OperandsOf(c) == IF c.kind = kind THEN c.operands ELSE {c}
      all      == OperandsOf(a) \cup OperandsOf(b)
      precs    == {c \in all : c.kind = "precedence"}
      operands == (all \ precs) \cup Reduced(kind, {c.level : c \in precs})
  IN IF Cardinality(operands) = 1 THEN CHOOSE c \in operands : TRUE
     ELSE Context(kind, "", 0, operands)

And(a, b) == IF a = NONE THEN b ELSE IF b = NONE THEN a ELSE Operator("and", a, b)
Or(a, b) == IF NONE \in {a, b} THEN NONE ELSE Operator("or", a, b)

RECURSIVE Eval(_, _)
Eval(c, world) ==
  CASE c.kind = "none"       -> TRUE
    [] c.kind = "predicate"  -> c.predicate \in world.holding
    [] c.kind = "precedence" -> c.level >= world.level
    [] c.kind = "and"        -> \A o \in c.operands : Eval(o, world)
    [] c.kind = "or"         -> \E o \in c.operands : Eval(o, world)

RECURSIVE EvalPrecedence(_, _)
EvalPrecedence(c, level) ==
  LET evaluated == {EvalPrecedence(o, level) : o \in c.operands}
      left      == evaluated \ {NONE, Undefined}
  IN CASE c.kind \in {"none", "predicate"} -> c
       [] c.kind = "precedence" -> IF c.level >= level THEN NONE ELSE Undefined
       [] c.kind = "and" ->
            IF Undefined \in evaluated THEN Undefined
            ELSE IF evaluated = c.operands THEN c
            ELSE FoldSet(And, NONE, left)
       [] c.kind = "or" ->
            IF NONE \in evaluated THEN NONE
            ELSE IF evaluated = c.operands THEN c
            ELSE IF left = {} THEN Undefined
            ELSE LET first == CHOOSE o \in left : TRUE IN FoldSet(Or, first, left \ {first})

-----------------------------------------------------------------------------
Atoms == {Predicate(p) : p \in Predicates} \cup {Precedence(l) : l \in Levels}
IsFlat(c) == \A o \in c.operands : o.operands = {}

(* Trues(c): the worlds in which an atom holds *)
Trues(atom) == {w \in Worlds : Eval(atom, w)}

Init ==
  /\ sem = NONE /\ means = Worlds
  /\ other = NONE /\ otherMeans = Worlds

Becomes(c, worlds) ==
  /\ Cardinality(c.operands) <= MaxOperands
  /\ \A o \in c.operands : IsFlat(o) /\ Cardinality(o.operands) <= MaxOperands
  /\ sem' = c
  /\ means' = worlds
  /\ UNCHANGED <<other, otherMeans>>

Collect(atom) == Becomes(And(sem, atom), means \cap Trues(atom))
Offer(atom)   == Becomes(Or(sem, atom), means \cup Trues(atom))
AndOther      == Becomes(And(sem, other), means \cap otherMeans)
OrOther       == Becomes(Or(sem, other), means \cup otherMeans)

(* A configuration whose context is undefined then is dropped. *)
EvaluatePrecedence(level) ==
  LET c == EvalPrecedence(sem, level)
  IN /\ c # Undefined
     /\ Becomes(c, {w \in Worlds : [w EXCEPT !.level = level] \in means})

Another ==
  /\ IsFlat(sem)
  /\ other' = sem /\ otherMeans' = means
  /\ sem' = NONE /\ means' = Worlds

Next ==
  \/ \E atom \in Atoms : Collect(atom) \/ Offer(atom)
  \/ \E level \in Levels : EvaluatePrecedence(level)
  \/ AndOther \/ OrOther \/ Another

Spec == Init /\ [][Next]_vars

-----------------------------------------------------------------------------
(* Whatever was flattened, reduced to one precedence predicate or decided  *)
(* on the way, the context holds where the formula it was built from       *)
(* holds, and evalPrecedence finds it false just where no predicate can    *)
(* make it true (and, or, AND, OR, evalPrecedence).                        *)
FormulasKeepTheirMeaning ==
  /\ means = {w \in Worlds : Eval(sem, w)}
  /\ otherMeans = {w \in Worlds : Eval(other, w)}
  /\ \A level \in Levels :
       (EvalPrecedence(sem, level) = Undefined) = (\A w \in means : w.level # level)
=============================================================================
