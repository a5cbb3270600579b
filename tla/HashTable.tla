----------------------------- MODULE HashTable -----------------------------
(***************************************************************************)
(* misc/Array2DHashSet.ts and misc/Array2DHashMap.ts, which keeps the set  *)
(* of its buckets { key, value } with equality and hash those of the key.  *)
(* Configurations, contexts and DFA states are interned in such sets: an   *)
(* element is an object, here [key, value]; two with the same key are      *)
(* equal without being the same object.                                    *)
(***************************************************************************)
EXTENDS Integers, Sequences
LOCAL Seqs == INSTANCE SequencesExt

CONSTANTS
  Keys, Values,      \* what the elements are made of
  Hash,              \* the hash code of a key
  InitialCapacity    \* number of buckets after a clear

VARIABLES
  table,      \* buckets: lists of elements, numbered from 1;  n: the size;
              \* threshold: the size beyond which it expands before an element is added
  answer      \* what the last operation returned

vars == <<table, answer>>

Nothing == [key |-> "none", value |-> "none"]
Element(k, v) == [key |-> k, value |-> v]

NewBuckets(capacity) == [i \in 1 .. capacity |-> <<>>]
ThresholdOf(capacity) == (capacity * 3) \div 4
NewTable ==
  [buckets |-> NewBuckets(InitialCapacity), n |-> 0, threshold |-> ThresholdOf(InitialCapacity)]

BucketOf(buckets, key) == 1 + (Hash[key] % Len(buckets))

(* The position of the element in its bucket, 0 if it is not there. *)
Position(buckets, key) ==
  Seqs!SelectInSeq(buckets[BucketOf(buckets, key)], LAMBDA e : e.key = key)
Get(buckets, key) ==
  IF Position(buckets, key) = 0 THEN Nothing
  ELSE buckets[BucketOf(buckets, key)][Position(buckets, key)]

(* A mutant of Rehashed that leaves the elements in the bucket they were in. *)
Spread(buckets) == buckets \o NewBuckets(Len(buckets))

(* Every element goes to its bucket among twice as many. *)
Rehashed(buckets) ==
  LET elements == Seqs!FlattenSeq(buckets)
      larger   == NewBuckets(2 * Len(buckets))
  IN [b \in DOMAIN larger |-> SelectSeq(elements, LAMBDA e : BucketOf(larger, e.key) = b)]

Expanded(t) ==
  IF t.n <= t.threshold THEN t
  ELSE [t EXCEPT !.buckets = Rehashed(@), !.threshold = ThresholdOf(2 * Len(t.buckets))]

(* getOrAddImpl: an equal element stays. *)
With(t, e) ==
  IF Position(t.buckets, e.key) # 0 THEN t
  ELSE [t EXCEPT !.buckets[BucketOf(t.buckets, e.key)] = Append(@, e), !.n = @ + 1]

-----------------------------------------------------------------------------
Init == table = NewTable /\ answer = Nothing

(* getOrAdd, and add: the table may expand although nothing is added. *)
GetOrAdd(e) ==
  /\ table' = With(Expanded(table), e)
  /\ answer' = Get(table'.buckets, e.key)

(* put: the value is changed in the element that the set holds. *)
Put(e) ==
  LET i == Position(table.buckets, e.key)
  IN /\ answer' = Get(table.buckets, e.key)
     /\ table' = IF i = 0 THEN With(Expanded(table), e)
                 ELSE [table EXCEPT !.buckets[BucketOf(table.buckets, e.key)][i].value = e.value]

PutIfAbsent(e) ==
  /\ answer' = Get(table.buckets, e.key)
  /\ table' = IF answer' = Nothing THEN With(Expanded(table), e) ELSE table

Clear == table' = NewTable /\ answer' = Nothing

Next ==
  \/ Clear
  \/ \E k \in Keys, v \in Values :
       \E e \in {Element(k, v)} : GetOrAdd(e) \/ Put(e) \/ PutIfAbsent(e)

Spec == Init /\ [][Next]_vars

-----------------------------------------------------------------------------
Elements == UNION {Seqs!ToSet(table.buckets[b]) : b \in DOMAIN table.buckets}
Held == [k \in {e.key : e \in Elements} |-> (CHOOSE e \in Elements : e.key = k).value]

(* Through every expansion the table holds one element for each key, the   *)
(* first that was added or the one put, finds it, and counts it once       *)
(* (getOrAdd, get, expand, put).                                           *)
Interned == INSTANCE KeyedElements WITH held <- Held, size <- table.n
ElementsAreInterned == Interned!Spec
=============================================================================
