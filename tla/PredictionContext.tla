------------------------- MODULE PredictionContext -------------------------
(***************************************************************************)
(* atn/PredictionContext.ts: the stacks of a configuration as a graph.  A  *)
(* context is empty, or has arms, each a return state and the parent, the  *)
(* context below it; the stacks are the ways down to an empty context.     *)
(* What lies below EMPTY_LOCAL is not known, below EMPTY_FULL lies         *)
(* nothing.  An array of arms is in order of its return states, the last   *)
(* of which may be EMPTY_FULL_STATE_KEY, for a stack that ends here.       *)
(*                                                                         *)
(* Configurations works on sets of stacks; this is where they come from.   *)
(***************************************************************************)
EXTENDS Integers, Sequences, FiniteSets
LOCAL Seqs == INSTANCE SequencesExt
LOCAL Configs == INSTANCE Configurations

CONSTANTS
  ReturnStates,
  MaxDepth, MaxStacks     \* bound the contexts made

VARIABLES context, other

vars == <<context, other>>

EmptyFullStateKey == 2147483647
EmptyLocal == [kind |-> "local", arms |-> <<>>]
EmptyFull  == [kind |-> "full", arms |-> <<>>]

Arm(state, parent) == [state |-> state, parent |-> parent]
Child(parent, state) == [kind |-> "single", arms |-> <<Arm(state, parent)>>]
Node(arms) == [kind |-> IF Len(arms) = 1 THEN "single" ELSE "array", arms |-> arms]

IsEmpty(c) == c.kind \in {"local", "full"}
HasEmpty(c) == IsEmpty(c) \/ Seqs!Last(c.arms).state = EmptyFullStateKey

(* A mutant of addEmptyContext that puts the empty stack in front. *)
EmptyContextFirst(c) ==
  IF HasEmpty(c) THEN c ELSE Node(<<Arm(EmptyFullStateKey, EmptyFull)>> \o c.arms)

AddEmptyContext(c) ==
  IF HasEmpty(c) THEN c ELSE Node(Append(c.arms, Arm(EmptyFullStateKey, EmptyFull)))

(* EMPTY_LOCAL takes in everything, EMPTY_FULL is one stack more, and arms *)
(* are merged in order; those with the same return state join their        *)
(* parents.                                                                *)
RECURSIVE Join(_, _), Merged(_, _)
Join(c, d) ==
  IF c = d THEN c
  ELSE IF IsEmpty(c) THEN IF c = EmptyLocal THEN c ELSE AddEmptyContext(d)
  ELSE IF IsEmpty(d) THEN IF d = EmptyLocal THEN d ELSE AddEmptyContext(c)
  ELSE Node(Merged(c.arms, d.arms))

Merged(left, right) ==
  IF left = <<>> THEN right
  ELSE IF right = <<>> THEN left
  ELSE LET l == Head(left)
           r == Head(right)
       IN IF l.state = r.state
          THEN <<Arm(l.state, Join(l.parent, r.parent))>> \o Merged(Tail(left), Tail(right))
          ELSE IF l.state < r.state THEN <<l>> \o Merged(Tail(left), right)
          ELSE <<r>> \o Merged(left, Tail(right))

(* appendContext, with a suffix of one arm: where a stack ended, the       *)
(* suffix goes on.                                                         *)
RECURSIVE AppendContext(_, _)
AppendContext(c, suffix) ==
  LET kept  == IF HasEmpty(c) THEN Seqs!Front(c.arms) ELSE c.arms
      below == Node([i \in DOMAIN kept |->
                       Arm(kept[i].state, AppendContext(kept[i].parent, suffix))])
  IN IF IsEmpty(c) THEN suffix
     ELSE IF HasEmpty(c) THEN Join(below, suffix)
     ELSE below

AppendSingleContext(c, state) ==
  IF IsEmpty(c) THEN Child(c, state) ELSE AppendContext(c, Child(EmptyFull, state))

(* fromRuleContext: the return states of the calls, innermost first. *)
FromRuleContext(stack, full) ==
  Seqs!FoldRight(LAMBDA state, parent : Child(parent, state), stack,
                 IF full THEN EmptyFull ELSE EmptyLocal)

(* equals, of objects of either class *)
RECURSIVE Equals(_, _)
Equals(c, d) ==
  /\ c.kind = d.kind
  /\ Len(c.arms) = Len(d.arms)
  /\ \A i \in DOMAIN c.arms :
       /\ c.arms[i].state = d.arms[i].state
       /\ Equals(c.arms[i].parent, d.arms[i].parent)

-----------------------------------------------------------------------------
Stack(states, local) == [states |-> states, local |-> local]

RECURSIVE Stacks(_)
Stacks(c) ==
  IF IsEmpty(c) THEN {Stack(<<>>, c = EmptyLocal)}
  ELSE UNION {LET below == Stacks(c.arms[i].parent)
                  state == c.arms[i].state
              IN IF state = EmptyFullStateKey THEN below
                 ELSE {Stack(<<state>> \o k.states, k.local) : k \in below} :
                i \in DOMAIN c.arms}

(* A stack that ends in EMPTY_LOCAL stands for all that go on from there. *)
Absorbed(stacks) ==
  {k \in stacks : ~\E j \in stacks \ {k} : j.local /\ Seqs!IsPrefix(j.states, k.states)}

-----------------------------------------------------------------------------
Init == context \in {EmptyFull, EmptyLocal} /\ other = EmptyFull

Becomes(c) ==
  /\ Cardinality(Stacks(c)) <= MaxStacks
  /\ \A k \in Stacks(c) : Len(k.states) <= MaxDepth
  /\ context' = c
  /\ UNCHANGED other

IsFull(c) == \A k \in Stacks(c) : ~k.local

GetChild(state)      == Becomes(Child(context, state))
JoinOther            == Becomes(Join(context, other))
AppendSingle(state)  == IsFull(context) /\ Becomes(AppendSingleContext(context, state))
Enter(stack, full)   == Becomes(FromRuleContext(stack, full))
Exchange             == context' = other /\ other' = context

Next ==
  \/ \E state \in ReturnStates : GetChild(state) \/ AppendSingle(state)
  \/ \E state \in ReturnStates, full \in BOOLEAN : Enter(<<state>>, full)
  \/ JoinOther \/ Exchange

Spec == Init /\ [][Next]_vars

-----------------------------------------------------------------------------
(* The graphs are sets of stacks.  Joining two unites their stacks, less   *)
(* those a local one stands for, as Configurations joins them; a suffix    *)
(* goes below every stack; and however it was built, a set of stacks has   *)
(* only one graph, so that equals compares the sets (join, appendContext,  *)
(* getChild, equals).                                                      *)
GraphsAreStackSets ==
  LET stacks == Stacks(context)
      joined == Stacks(Join(context, other))
      Plain(S) == {k.states : k \in S}
  IN /\ joined = Absorbed(stacks \cup Stacks(other))
     /\ \A local \in BOOLEAN :
          (\A k \in stacks \cup Stacks(other) : k.local = local) =>
             Plain(joined) =
               Configs!Join([full |-> ~local], Plain(stacks) \cup Plain(Stacks(other)))
     /\ Equals(context, other) = (stacks = Stacks(other))
     /\ Equals(Join(context, other), Join(other, context))
     /\ HasEmpty(context) = \E k \in stacks : k.states = <<>>
     /\ \A state \in ReturnStates :
          /\ Stacks(Child(context, state)) = {Stack(<<state>> \o k.states, k.local) : k \in stacks}
          /\ IsFull(context) =>
               Stacks(AppendSingleContext(context, state))
                 = {Stack(Append(k.states, state), FALSE) : k \in stacks}
     /\ \A stack \in Plain(stacks), full \in BOOLEAN :
          Stacks(FromRuleContext(stack, full)) = {Stack(stack, ~full)}
=============================================================================
