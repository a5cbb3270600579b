---------------------------- MODULE IntegerList ----------------------------
(***************************************************************************)
(* misc/IntegerList.ts (and misc/IntegerStack.ts, which is one): a list of *)
(* numbers in an array that is longer than the list.  A list is the array  *)
(* `data' with its first `size' cells in use.                              *)
(*                                                                         *)
(* `list' is the one an operation changes, `other' the argument; Exchange  *)
(* swaps them, Copy makes the argument a copy.                             *)
(***************************************************************************)
EXTENDS Integers, Sequences
LOCAL Seqs == INSTANCE SequencesExt

CONSTANTS
  Numbers,       \* the numbers in the lists, 0 is the number of a cell not in use
  InitialSize,   \* length of the first array
  MaxSize        \* bounds the lists

VARIABLES list, other

vars == <<list, other>>

Zeros(n) == [i \in 1 .. n |-> 0]
Content(l) == SubSeq(l.data, 1, l.size)

RECURSIVE Doubled(_, _)
Doubled(length, capacity) == IF length >= capacity THEN length ELSE Doubled(2 * length, capacity)

EnsureCapacity(l, capacity) ==
  LET length == Doubled(IF l.data = <<>> THEN InitialSize ELSE Len(l.data), capacity)
  IN [l EXCEPT !.data = @ \o Zeros(length - Len(@))]

(* Typed arrays: the cells from `start' up to `end', numbered from 0, are   *)
(* copied to `target' and on, as far as there are cells.                   *)
CopyWithin(data, target, start, end) ==
  [i \in DOMAIN data |->
     LET from == i - 1 - target + start
     IN IF i > target /\ from < end THEN data[from + 1] ELSE data[i]]
Fill(data, value, start, end) ==
  [i \in DOMAIN data |-> IF i - 1 \in start .. end - 1 THEN value ELSE data[i]]

-----------------------------------------------------------------------------
Added(l, value) ==
  LET roomy == IF Len(l.data) = l.size THEN EnsureCapacity(l, l.size + 1) ELSE l
  IN [data |-> [roomy.data EXCEPT ![l.size + 1] = value], size |-> l.size + 1]

(* addAll with an array of numbers *)
AllAdded(l, values) ==
  LET roomy == EnsureCapacity(l, l.size + Len(values))
  IN [data |-> [i \in DOMAIN roomy.data |->
                  IF i - l.size \in DOMAIN values THEN values[i - l.size] ELSE roomy.data[i]],
      size |-> l.size + Len(values)]

(* addAll with another list: its whole array is copied into as many cells  *)
(* as it has numbers, which throws a RangeError after the array has grown  *)
(* if they are not the same.                                               *)
ListAdded(l, m) ==
  IF Len(m.data) > m.size THEN EnsureCapacity(l, l.size + m.size)
  ELSE AllAdded(l, m.data)

(* A mutant of RemovedAt that leaves the last cell behind. *)
RemovedAtAllButLast(l, index) ==
  [data |-> [CopyWithin(l.data, index, index + 1, l.size - 1) EXCEPT ![l.size] = 0],
   size |-> l.size - 1]

(* removeAt, and pop: with the last index *)
RemovedAt(l, index) ==
  [data |-> [CopyWithin(l.data, index, index + 1, l.size) EXCEPT ![l.size] = 0],
   size |-> l.size - 1]

(* The cells from fromIndex on are copied to toIndex. *)
RangeRemoved(l, fromIndex, toIndex) ==
  LET size == l.size - (toIndex - fromIndex)
  IN [data |-> Fill(CopyWithin(l.data, toIndex, fromIndex, l.size), 0, size, l.size),
      size |-> size]

Trimmed(l) == [l EXCEPT !.data = Content(l)]
Cleared(l) == [data |-> Fill(l.data, 0, 0, l.size), size |-> 0]
Sorted(l) ==
  [l EXCEPT !.data = Seqs!SortSeq(Content(l), <) \o SubSeq(@, l.size + 1, Len(@))]

(* equals, which looks at the cells in use of both *)
Equals(l, m) == l.size = m.size /\ \A i \in 1 .. l.size : l.data[i] = m.data[i]

(* Arrays.binarySearch over the cells from low to high: where the number   *)
(* is, or less than 0, how far in it belongs.                              *)
RECURSIVE Search(_, _, _, _)
Search(data, key, low, high) ==
  LET mid == (low + high) \div 2
  IN IF low > high THEN -(low + 1)
     ELSE IF data[mid + 1] < key THEN Search(data, key, mid + 1, high)
     ELSE IF data[mid + 1] > key THEN Search(data, key, low, mid - 1)
     ELSE mid
BinarySearch(l, key) == Search(l.data, key, 0, l.size - 1)

-----------------------------------------------------------------------------
Empty == [data |-> <<>>, size |-> 0]
Init == list = Empty /\ other = Empty

Indices(l) == 0 .. l.size - 1
Pairs == {<<>>} \cup (Numbers \X Numbers)

Becomes(l) == l.size <= MaxSize /\ list' = l /\ UNCHANGED other
Add(value)      == Becomes(Added(list, value))
AddArray(pair)  == Becomes(AllAdded(list, pair))
AddOther        == Becomes(ListAdded(list, other))
Set(i, value)   == Becomes([list EXCEPT !.data[i + 1] = value])
RemoveAt(i)     == Becomes(RemovedAt(list, i))
RemoveRange(from, to) == Becomes(RangeRemoved(list, from, to))
TrimToSize      == Becomes(Trimmed(list))
Clear           == Becomes(Cleared(list))
Sort            == Becomes(Sorted(list))
Copy            == other' = list /\ UNCHANGED list
Exchange        == list' = other /\ other' = list

Next ==
  \/ \E value \in Numbers : Add(value) \/ \E i \in Indices(list) : Set(i, value)
  \/ \E pair \in Pairs : AddArray(pair)
  \/ \E i \in Indices(list) : RemoveAt(i)
  \/ \E from, to \in 0 .. list.size : from <= to /\ RemoveRange(from, to)
  \/ AddOther \/ TrimToSize \/ Clear \/ Sort \/ Copy \/ Exchange

Spec == Init /\ [][Next]_vars

-----------------------------------------------------------------------------
(* What becomes of the numbers does not depend on the array behind them:   *)
(* each operation is the one on sequences (add, addAll, removeAt, sort,    *)
(* equals, binarySearch), except that a list is only added if its array    *)
(* has no cell to spare, and that removeRange keeps the numbers it is to   *)
(* remove, and again those before toIndex in place of the ones that        *)
(* follow, as many as are to be left.                                      *)
ListsAreSequences ==
  LET l == Content(list)
      m == Content(other)
      n == Len(l)
  IN /\ \A v \in Numbers : Content(Added(list, v)) = Append(l, v)
     /\ \A p \in Pairs : Content(AllAdded(list, p)) = l \o p
     /\ Content(ListAdded(list, other)) = l \o IF Len(other.data) = Len(m) THEN m ELSE <<>>
     /\ \A i \in Indices(list) : Content(RemovedAt(list, i)) = Seqs!RemoveAt(l, i + 1)
     /\ \A from \in 0 .. n : \A to \in from .. n :
          Content(RangeRemoved(list, from, to)) =
            SubSeq(SubSeq(l, 1, to) \o SubSeq(l, from + 1, n), 1, n - (to - from))
     /\ Content(Trimmed(list)) = l
     /\ Equals(list, other) = (l = m)
     /\ LET sorted == Sorted(list)
        IN \A v \in Numbers :
             LET found == BinarySearch(sorted, v)
             IN IF v \in Seqs!ToSet(l) THEN sorted.data[found + 1] = v
                ELSE -(found + 1) = Len(SelectSeq(l, LAMBDA x : x < v))
=============================================================================
