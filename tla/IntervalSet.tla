---------------------------- MODULE IntervalSet ----------------------------
(***************************************************************************)
(* misc/IntervalSet.ts: a set of integers as a list of intervals [a, b]    *)
(* (misc/Interval.ts) in order, that neither overlap nor touch.  The sets  *)
(* of expected tokens and the labels of transitions are such sets.         *)
(*                                                                         *)
(* `intervals' is the set an operation is called on, and changed by it, or *)
(* replaced by its result; `other' is the operand, and Exchange swaps      *)
(* them.                                                                   *)
(***************************************************************************)
EXTENDS Integers, Sequences, FiniteSets
LOCAL Lists == INSTANCE SequencesExt

CONSTANT Elements        \* the integers added and removed

VARIABLES intervals, other

vars == <<intervals, other>>

Least(S) == CHOOSE x \in S : \A y \in S : x <= y
Smaller(x, y) == IF x < y THEN x ELSE y
Larger(x, y) == IF x > y THEN x ELSE y

-----------------------------------------------------------------------------
(* Interval *)

Of(a, b) == [a |-> a, b |-> b]

(* A mutant of startsBeforeDisjoint that lets the intervals overlap. *)
StartsBefore(r, s) == r.a < s.a

StartsBeforeDisjoint(r, s) == r.a < s.a /\ r.b < s.a
StartsAfterDisjoint(r, s) == r.a > s.b
StartsAfterNonDisjoint(r, s) == r.a > s.a /\ r.a <= s.b
Disjoint(r, s) == StartsBeforeDisjoint(r, s) \/ StartsAfterDisjoint(r, s)
Adjacent(r, s) == r.a = s.b + 1 \/ r.b = s.a - 1
ProperlyContains(r, s) == s.a >= r.a /\ s.b <= r.b
Union(r, s) == Of(Smaller(r.a, s.a), Larger(r.b, s.b))
Intersection(r, s) == Of(Larger(r.a, s.a), Smaller(r.b, s.b))

(* A mutant of Touches that leaves neighbours apart. *)
Overlaps(r, s) == ~Disjoint(r, s)

Touches(r, s) == Adjacent(r, s) \/ ~Disjoint(r, s)

-----------------------------------------------------------------------------
(* Changing the list. *)

(* addRange: the interval grows the first one it touches; that one, as it  *)
(* is then, takes in those after it that it touches, one after the other.  *)
AddRange(list, r) ==
  LET touched == {i \in DOMAIN list : Touches(r, list[i])}
      behind  == {i \in DOMAIN list : StartsBeforeDisjoint(r, list[i])}
      i       == Least(touched)
      bigger  == Union(r, list[i])
      kept    == Least({j \in i + 1 .. Len(list) + 1 :
                          j = Len(list) + 1 \/ ~Touches(bigger, list[j])})
      merged  == IF kept = i + 1 THEN bigger ELSE Union(bigger, list[kept - 1])
  IN IF r.b < r.a THEN list
     ELSE IF touched # {}
     THEN SubSeq(list, 1, i - 1) \o <<merged>> \o SubSeq(list, kept, Len(list))
     ELSE IF behind # {} THEN Lists!InsertAt(list, Least(behind), r)
     ELSE Append(list, r)

AddAll(list, set) == Lists!FoldLeft(AddRange, list, set)

(* remove: the interval with the element shrinks, splits or goes. *)
Without(list, el) ==
  LET at == {i \in DOMAIN list : list[i].a <= el /\ el <= list[i].b}
      i  == Least(at)
      r  == list[i]
  IN IF at = {} THEN list
     ELSE IF el = r.a /\ el = r.b THEN Lists!RemoveAt(list, i)
     ELSE IF el = r.a THEN [list EXCEPT ![i].a = @ + 1]
     ELSE IF el = r.b THEN [list EXCEPT ![i].b = @ - 1]
     ELSE AddRange([list EXCEPT ![i].b = el - 1], Of(el + 1, r.b))

-----------------------------------------------------------------------------
(* Two lists.  Both loops walk them in step, from i and from j on. *)

RECURSIVE SubtractFrom(_, _, _, _)
SubtractFrom(result, i, right, j) ==
  LET r == result[i]
      s == right[j]
      before == Of(r.a, s.a - 1)
      after  == Of(s.b + 1, r.b)
  IN IF i > Len(result) \/ j > Len(right) THEN result
     ELSE IF s.b < r.a THEN SubtractFrom(result, i, right, j + 1)
     ELSE IF s.a > r.b THEN SubtractFrom(result, i + 1, right, j)
     ELSE IF s.a > r.a /\ s.b < r.b
     THEN SubtractFrom(Lists!InsertAt([result EXCEPT ![i] = before], i + 1, after), i + 1, right, j + 1)
     ELSE IF s.a > r.a THEN SubtractFrom([result EXCEPT ![i] = before], i + 1, right, j)
     ELSE IF s.b < r.b THEN SubtractFrom([result EXCEPT ![i] = after], i, right, j + 1)
     ELSE SubtractFrom(Lists!RemoveAt(result, i), i, right, j)

Subtract(left, right) == SubtractFrom(left, 1, right, 1)

RECURSIVE IntersectFrom(_, _, _, _, _)
IntersectFrom(mine, i, theirs, j, intersection) ==
  LET r == mine[i]
      s == theirs[j]
      both == AddRange(intersection, Intersection(r, s))
  IN IF i > Len(mine) \/ j > Len(theirs) THEN intersection
     ELSE IF StartsBeforeDisjoint(r, s) THEN IntersectFrom(mine, i + 1, theirs, j, intersection)
     ELSE IF StartsBeforeDisjoint(s, r) THEN IntersectFrom(mine, i, theirs, j + 1, intersection)
     ELSE IF ProperlyContains(r, s) THEN IntersectFrom(mine, i, theirs, j + 1, both)
     ELSE IF ProperlyContains(s, r) THEN IntersectFrom(mine, i + 1, theirs, j, both)
     ELSE IF StartsAfterNonDisjoint(r, s) THEN IntersectFrom(mine, i, theirs, j + 1, both)
     ELSE IntersectFrom(mine, i + 1, theirs, j, both)

And(mine, theirs) == IntersectFrom(mine, 1, theirs, 1, <<>>)

(* complement of a list in an interval *)
ComplementRange(list, min, max) == Subtract(AddRange(<<>>, Of(min, max)), list)

-----------------------------------------------------------------------------
(* Asking. *)

RECURSIVE Found(_, _, _, _)
(* contains: a binary search, between the positions l and r *)
Found(list, el, l, r) ==
  LET m == (l + r) \div 2
  IN /\ l <= r
     /\ IF list[m + 1].b < el THEN Found(list, el, m + 1, r)
        ELSE IF list[m + 1].a > el THEN Found(list, el, l, m - 1)
        ELSE TRUE

Contains(list, el) == Found(list, el, 0, Len(list) - 1)
Size(list) == Lists!FoldLeft(LAMBDA n, r : n + r.b - r.a + 1, 0, list)
MinElement(list) == list[1].a
MaxElement(list) == list[Len(list)].b

-----------------------------------------------------------------------------
Init == intervals = <<>> /\ other = <<>>

Add(a, b)     == intervals' = AddRange(intervals, Of(a, b)) /\ UNCHANGED other
Remove(el)    == intervals' = Without(intervals, el) /\ UNCHANGED other
DoAddAll      == intervals' = AddAll(intervals, other) /\ UNCHANGED other
DoSubtract    == intervals' = Subtract(intervals, other) /\ UNCHANGED other
DoAnd         == intervals' = And(intervals, other) /\ UNCHANGED other
DoOr          == intervals' = AddAll(AddAll(<<>>, intervals), other) /\ UNCHANGED other
Complement(a, b) == intervals' = ComplementRange(intervals, a, b) /\ UNCHANGED other
Clear         == intervals' = <<>> /\ UNCHANGED other
Exchange      == intervals' = other /\ other' = intervals

Next ==
  \/ \E a, b \in Elements : Add(a, b) \/ Complement(a, b)
  \/ \E el \in Elements : Remove(el)
  \/ DoAddAll \/ DoSubtract \/ DoAnd \/ DoOr \/ Clear \/ Exchange

Spec == Init /\ [][Next]_vars

-----------------------------------------------------------------------------
Content(list) == UNION {list[i].a .. list[i].b : i \in DOMAIN list}

(* A list is the only one for its set, whatever it was made by: its        *)
(* intervals are in order, with a gap between any two, so that equals and  *)
(* the binary search of contains may rely on it.  The comment of add says  *)
(* otherwise: adding 6..7 to {1..5, 10..20} "yields {1..5, 6..7, 10..20}"  *)
(* (IntervalSet.ts:86-87), where addRange makes one interval of neighbours *)
(* (:112): {1..7, 10..20}.                                                 *)
IsCanonical(list) ==
  /\ \A i \in DOMAIN list : list[i].a <= list[i].b
  /\ \A i \in 1 .. Len(list) - 1 : list[i].b + 1 < list[i + 1].a

AsksOfSet(list) ==
  LET set == Content(list)
  IN /\ \A el \in Elements : Contains(list, el) = (el \in set)
     /\ Size(list) = Cardinality(set)
     /\ list # <<>> => /\ {MinElement(list), MaxElement(list)} \subseteq set
                       /\ set \subseteq MinElement(list) .. MaxElement(list)

ListsAreCanonical == IsCanonical(intervals) /\ AsksOfSet(intervals)

(* Every operation on the lists is the operation on the sets (addRange,    *)
(* remove, subtract, and, or, complement).                                 *)
Sets == INSTANCE NumberSets WITH set <- Content(intervals), other <- Content(other)
ListsAreSets == Sets!Spec
=============================================================================
