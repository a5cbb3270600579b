--------------------------- MODULE KeyedElements ---------------------------
(* What a set of interned elements, and a map, promise: under each key one  *)
(* element, and as the answer to an operation the element that was there,   *)
(* or else the one added by getOrAdd.  Only put replaces what is there.     *)
EXTENDS FiniteSets, TLC

CONSTANTS Keys, Values

VARIABLES held, size, answer

Nothing == [key |-> "none", value |-> "none"]
Held(k) == IF k \in DOMAIN held THEN [key |-> k, value |-> held[k]] ELSE Nothing

Init == held = <<>> /\ size = 0 /\ answer = Nothing

GetOrAdd(k, v) ==
  /\ held' = held @@ (k :> v)
  /\ answer' = Held(k)'

Put(k, v) ==
  /\ held' = (k :> v) @@ held
  /\ answer' = Held(k)

PutIfAbsent(k, v) ==
  /\ held' = held @@ (k :> v)
  /\ answer' = Held(k)

Clear == held' = <<>> /\ answer' = Nothing

Next ==
  /\ Clear \/ \E k \in Keys, v \in Values : GetOrAdd(k, v) \/ Put(k, v) \/ PutIfAbsent(k, v)
  /\ size' = Cardinality(DOMAIN held')

Spec == Init /\ [][Next]_<<held, size, answer>>
=============================================================================
