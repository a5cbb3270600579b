----------------------------- MODULE NumberSets -----------------------------
(* What misc/IntSet.ts promises: a set of integers under the operations of  *)
(* sets.  Two of them are under way, `set' and `other'; an operation with   *)
(* two operands changes the first, and Exchange swaps them.                 *)
EXTENDS Integers

CONSTANT Elements

VARIABLES set, other

Intervals == Elements \X Elements
Range(r) == r[1] .. r[2]          \* empty if it ends before it begins

Init == set = {} /\ other = {}

Becomes(S) == set' = S /\ UNCHANGED other

Next ==
  \/ \E r \in Intervals : Becomes(set \cup Range(r)) \/ Becomes(Range(r) \ set)
  \/ \E x \in Elements : Becomes(set \ {x})
  \/ \E S \in {set \cup other, set \ other, set \cap other, {}} : Becomes(S)
  \/ set' = other /\ other' = set

Spec == Init /\ [][Next]_<<set, other>>
=============================================================================
