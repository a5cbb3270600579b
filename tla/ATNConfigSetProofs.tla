------------------------- MODULE ATNConfigSetProofs -------------------------
(***************************************************************************)
(* SetsAreMerged and StatesNeverChange of ATNConfigSet, for whatever       *)
(* configurations the closure reaches, in whatever order.                  *)
(*                                                                         *)
(* The set being filled is the merge of what was added (MergeOf): no two   *)
(* of its objects can be merged, each is what the configurations of its    *)
(* group come to, and none of these is missing.  An object of a DFA state  *)
(* is not in the set while the closure adds to it.  When the skipped ones  *)
(* of a DFA state are added, they are objects of one list no two of which  *)
(* can be merged, so that what is merged into is never one of them.        *)
(***************************************************************************)
EXTENDS ATNConfigSet, Counting

-----------------------------------------------------------------------------
(* Contexts. *)

Joined(f, stacks) == Configs!Join([full |-> f], stacks)
IsStacks(S) == S \subseteq Seq(Nat)

LEMMA SameStack ==
  ASSUME NEW s \in Seq(Nat), NEW t \in Seq(Nat),
         Len(s) = Len(t), \A i \in 1 .. Len(s) : s[i] = t[i]
  PROVE  s = t
<1>1. s = [i \in 1 .. Len(s) |-> s[i]] /\ t = [i \in 1 .. Len(t) |-> t[i]]
  OBVIOUS
<1> QED BY <1>1

LEMMA StrictPrefix ==
  ASSUME NEW s \in Seq(Nat), NEW t \in Seq(Nat)
  PROVE  Configs!Lists!IsStrictPrefix(s, t) <=>
           Len(s) < Len(t) /\ \A i \in 1 .. Len(s) : s[i] = t[i]
<1> DEFINE a == SubSeq(s, 1, Len(s))
           b == SubSeq(t, 1, Len(s))
<1>1. a = s
  OBVIOUS
<1>2. CASE Len(s) <= Len(t)
  <2>1. b \in Seq(Nat) /\ Len(b) = Len(s) /\ \A i \in 1 .. Len(s) : b[i] = t[i]
    BY <1>2
  <2> HIDE DEF b
  <2>2. s = b <=> \A i \in 1 .. Len(s) : s[i] = t[i]
    <3>1. ASSUME \A i \in 1 .. Len(s) : s[i] = t[i] PROVE s = b
      <4>1. Len(s) = Len(b) /\ \A i \in 1 .. Len(s) : s[i] = b[i]
        BY <2>1, <3>1
      <4> QED BY <2>1, <4>1, SameStack
    <3> QED BY <2>1, <3>1
  <2>3. Len(s) = Len(t) /\ (\A i \in 1 .. Len(s) : s[i] = t[i]) => s = t
    BY SameStack
  <2>4. Len(s) < Len(t) => s # t
    OBVIOUS
  <2>5. Len(s) < Len(t) \/ Len(s) = Len(t)
    BY <1>2
  <2>6. Configs!Lists!IsStrictPrefix(s, t) <=> s = b /\ s # t
    BY <1>1, <1>2 DEF Configs!Lists!IsStrictPrefix, Configs!Lists!IsPrefix, b
  <2> QED BY <2>2, <2>3, <2>4, <2>5, <2>6
<1>3. CASE ~(Len(s) <= Len(t))
  BY <1>3 DEF Configs!Lists!IsStrictPrefix, Configs!Lists!IsPrefix
<1> QED BY <1>2, <1>3

LEMMA StrictPrefixTransitive ==
  ASSUME NEW r \in Seq(Nat), NEW s \in Seq(Nat), NEW t \in Seq(Nat),
         Configs!Lists!IsStrictPrefix(r, s), Configs!Lists!IsStrictPrefix(s, t)
  PROVE  Configs!Lists!IsStrictPrefix(r, t)
<1>1. Len(r) < Len(s) /\ \A i \in 1 .. Len(r) : r[i] = s[i]
  BY StrictPrefix
<1>2. Len(s) < Len(t) /\ \A i \in 1 .. Len(s) : s[i] = t[i]
  BY StrictPrefix
<1>3. Len(r) < Len(t) /\ \A i \in 1 .. Len(r) : r[i] = t[i]
  BY <1>1, <1>2
<1> QED BY <1>3, StrictPrefix

(* What is left out of a set of stacks stands behind one that is kept. *)
LEMMA JoinedBelow ==
  ASSUME NEW S, IsStacks(S), NEW k \in S
  PROVE  k \in Joined(FALSE, S)
           \/ \E j \in Joined(FALSE, S) : Configs!Lists!IsStrictPrefix(j, k)
<1> SUFFICES ASSUME k \notin Joined(FALSE, S)
             PROVE  \E j \in Joined(FALSE, S) : Configs!Lists!IsStrictPrefix(j, k)
  OBVIOUS
<1> DEFINE below   == {j \in S : Configs!Lists!IsStrictPrefix(j, k)}
           lengths == {Len(j) : j \in below}
<1>1. below # {}
  BY DEF Joined, Configs!Join
<1>2. lengths \in SUBSET Nat /\ lengths # {}
  <2>1. \A j \in below : j \in Seq(Nat) /\ Len(j) \in Nat
    BY DEF IsStacks
  <2> HIDE DEF below
  <2> QED BY <1>1, <2>1
<1>3. PICK n \in lengths : \A m \in lengths : n <= m
  <2> HIDE DEF lengths
  <2> QED BY <1>2, LeastElement
<1>4. PICK j \in below : n = Len(j)
  BY <1>3
<1>5. ASSUME NEW i \in S, Configs!Lists!IsStrictPrefix(i, j) PROVE FALSE
  <2>1. i \in Seq(Nat) /\ j \in Seq(Nat) /\ k \in Seq(Nat)
    BY DEF IsStacks
  <2>2. i \in below
    BY <1>4, <1>5, <2>1, StrictPrefixTransitive
  <2>3. Len(i) < Len(j) /\ Len(j) <= Len(i)
    BY <1>3, <1>4, <1>5, <2>1, <2>2, StrictPrefix
  <2> QED BY <2>1, <2>3
<1>6. j \in Joined(FALSE, S)
  BY <1>4, <1>5 DEF Joined, Configs!Join
<1> QED BY <1>4, <1>6

(* Joining in any order comes to the same. *)
LEMMA JoinAgain ==
  ASSUME NEW f \in BOOLEAN, NEW S, NEW T, IsStacks(S), IsStacks(T)
  PROVE  Joined(f, Joined(f, S) \cup T) = Joined(f, S \cup T)
<1>1. CASE f
  BY <1>1 DEF Joined, Configs!Join
<1>2. CASE ~f
  <2> DEFINE J == Joined(FALSE, S)
             Below(j, k) == Configs!Lists!IsStrictPrefix(j, k)
  <2>1. /\ \A U : \A k : k \in Joined(FALSE, U) <=> k \in U /\ \A j \in U : ~Below(j, k)
    BY DEF Joined, Configs!Join
  <2>2. \A k \in S : k \in J \/ \E j \in J : Below(j, k)
    BY JoinedBelow
  <2>3. \A i, j, k \in S \cup T : Below(i, j) /\ Below(j, k) => Below(i, k)
    BY StrictPrefixTransitive DEF IsStacks
  <2> HIDE DEF J, Below
  <2>4. J \subseteq S
    BY <2>1 DEF J
  <2>5. \A k \in S \cup T : (\E j \in S \cup T : Below(j, k)) => \E j \in J \cup T : Below(j, k)
    BY <2>2, <2>3, <2>4
  <2>6. \A k \in S : k \notin J => \E j \in J : Below(j, k)
    BY <2>2
  <2>7. \A k : k \in Joined(FALSE, J \cup T) <=> k \in Joined(FALSE, S \cup T)
    <3>1. ASSUME NEW k \in Joined(FALSE, J \cup T) PROVE k \in Joined(FALSE, S \cup T)
      <4>1. k \in J \cup T /\ \A j \in J \cup T : ~Below(j, k)
        BY <2>1
      <4>2. k \in S \cup T /\ \A j \in S \cup T : ~Below(j, k)
        BY <2>4, <2>5, <4>1
      <4> QED BY <2>1, <4>2
    <3>2. ASSUME NEW k \in Joined(FALSE, S \cup T) PROVE k \in Joined(FALSE, J \cup T)
      <4>1. k \in S \cup T /\ \A j \in S \cup T : ~Below(j, k)
        BY <2>1
      <4>2. k \in J \cup T /\ \A j \in J \cup T : ~Below(j, k)
        BY <2>4, <2>6, <4>1
      <4> QED BY <2>1, <4>2
    <3> QED BY <3>1, <3>2
  <2>8. Joined(FALSE, J \cup T) = Joined(FALSE, S \cup T)
    <3> DEFINE A == Joined(FALSE, J \cup T)
               B == Joined(FALSE, S \cup T)
    <3>1. \A k : k \in A <=> k \in B
      BY <2>7
    <3>2. A \in SUBSET (J \cup T) /\ B \in SUBSET (S \cup T)
      BY <2>1
    <3> HIDE DEF A, B
    <3>3. A = B
      BY <3>1, <3>2
    <3> QED BY <3>3 DEF A, B
  <2> QED BY <1>2, <2>8 DEF J
<1> QED BY <1>1, <1>2

LEMMA JoinedStacks ==
  ASSUME NEW f \in BOOLEAN, NEW S, IsStacks(S)
  PROVE  IsStacks(Joined(f, S)) /\ Joined(f, Joined(f, S)) = Joined(f, S)
<1>1. IsStacks(Joined(f, S))
  BY DEF IsStacks, Joined, Configs!Join
<1>2. Joined(f, Joined(f, S) \cup {}) = Joined(f, S \cup {})
  <2>1. IsStacks({})
    BY DEF IsStacks
  <2> QED BY <2>1, JoinAgain
<1>3. Joined(f, S) \cup {} = Joined(f, S) /\ S \cup {} = S
  OBVIOUS
<1> QED BY <1>1, <1>2, <1>3

-----------------------------------------------------------------------------
(* A merged configuration. *)

GroupOf(A, c) == {d \in A : CanMerge(d, c)}
MergeOf(f, A, c) ==
  [state |-> c.state, alt |-> c.alt, sem |-> c.sem,
   context |-> Joined(f, UNION {d.context : d \in GroupOf(A, c)}),
   outer |-> \E d \in GroupOf(A, c) : d.outer,
   suppressed |-> \E d \in GroupOf(A, c) : d.suppressed]

IsOne(f, c) == IsConfiguration(c) /\ Joined(f, c.context) = c.context

LEMMA MergeIsOfAll ==
  ASSUME NEW A
  PROVE  Configs!Merge(Sim, A) = {MergeOf(full, A, c) : c \in A}
<1>1. \A c \in A : GroupOf(A, c) = {d \in A : d.state = c.state /\ d.alt = c.alt /\ d.sem = c.sem}
  BY DEF GroupOf, CanMerge, SameKey
<1> QED BY <1>1, Zenon DEF Configs!Merge, MergeOf, Joined, Sim

LEMMA SameMerge ==
  ASSUME NEW f, NEW A, NEW B, NEW c, GroupOf(A, c) = GroupOf(B, c)
  PROVE  MergeOf(f, A, c) = MergeOf(f, B, c)
BY DEF MergeOf

LEMMA SameMergeOfKey ==
  ASSUME NEW f, NEW A, NEW c, NEW d, CanMerge(c, d)
  PROVE  MergeOf(f, A, c) = MergeOf(f, A, d)
<1>1. GroupOf(A, c) = GroupOf(A, d)
  BY DEF GroupOf, CanMerge, SameKey
<1> QED BY <1>1 DEF MergeOf, CanMerge, SameKey

(* What is alone is what it comes to. *)
LEMMA MergeOfOne ==
  ASSUME NEW f, NEW A, NEW c, IsOne(f, c), GroupOf(A, c) = {c}
  PROVE  MergeOf(f, A, c) = c
<1>1. UNION {d.context : d \in {c}} = c.context
  OBVIOUS
<1>2. (\E d \in {c} : d.outer) = c.outer /\ (\E d \in {c} : d.suppressed) = c.suppressed
  BY DEF IsOne, IsConfiguration
<1>3. MergeOf(f, A, c) = [state |-> c.state, alt |-> c.alt, sem |-> c.sem, context |-> c.context,
                          outer |-> c.outer, suppressed |-> c.suppressed]
  BY <1>1, <1>2 DEF MergeOf, IsOne
<1> QED BY <1>3 DEF IsOne, IsConfiguration

LEMMA MergedParts ==
  ASSUME NEW c, NEW d, IsConfiguration(c)
  PROVE  MergedWith(c, d) =
           [state |-> c.state, alt |-> c.alt, sem |-> c.sem,
            context |-> Joined(full, c.context \cup d.context),
            outer |-> c.outer \/ d.outer, suppressed |-> c.suppressed \/ d.suppressed]
<1>1. ASSUME NEW u, NEW v, NEW w
      PROVE  [c EXCEPT !.outer = u, !.suppressed = v, !.context = w]
               = [state |-> c.state, alt |-> c.alt, sem |-> c.sem, context |-> w,
                  outer |-> u, suppressed |-> v]
  <2>1. PICK s, a, x, e, o, p :
          c = [state |-> s, alt |-> a, context |-> x, sem |-> e, outer |-> o, suppressed |-> p]
    BY Zenon DEF IsConfiguration
  <2> DEFINE c1 == [c EXCEPT !.outer = u]
             c2 == [c1 EXCEPT !.suppressed = v]
             c3 == [c2 EXCEPT !.context = w]
  <2>2. c1 = [state |-> s, alt |-> a, context |-> x, sem |-> e, outer |-> u, suppressed |-> p]
    BY <2>1
  <2> HIDE DEF c1
  <2>3. c2 = [state |-> s, alt |-> a, context |-> x, sem |-> e, outer |-> u, suppressed |-> v]
    BY <2>2
  <2> HIDE DEF c2
  <2>4. c3 = [state |-> s, alt |-> a, context |-> w, sem |-> e, outer |-> u, suppressed |-> v]
    BY <2>3
  <2>5. c.state = s /\ c.alt = a /\ c.sem = e
    BY <2>1
  <2> QED BY <2>4, <2>5 DEF c1, c2
<1>2. MergedWith(c, d) =
        [c EXCEPT !.outer = c.outer \/ d.outer, !.suppressed = c.suppressed \/ d.suppressed,
                  !.context = Joined(full, c.context \cup d.context)]
  BY Zenon DEF MergedWith, Joined, Sim
<1> QED BY <1>1, <1>2, Zenon

(* The parts of a merge, whose flags are formulas. *)
LEMMA MergeParts ==
  ASSUME NEW f, NEW A, NEW c
  PROVE  LET m == MergeOf(f, A, c) IN
         /\ m.state = c.state /\ m.alt = c.alt /\ m.sem = c.sem
         /\ m.context = Joined(f, UNION {d.context : d \in GroupOf(A, c)})
         /\ m.outer <=> \E d \in GroupOf(A, c) : d.outer
         /\ m.suppressed <=> \E d \in GroupOf(A, c) : d.suppressed
BY DEF MergeOf

(* A configuration merged into the merge of others makes the merge of all. *)
LEMMA MergedIsMerge ==
  ASSUME full \in BOOLEAN, NEW A, \A a \in A : IsOne(full, a),
         NEW c, IsOne(full, c), c = MergeOf(full, A, c), NEW d, IsOne(full, d), CanMerge(c, d)
  PROVE  /\ MergedWith(c, d) = MergeOf(full, A \cup {d}, c)
         /\ IsOne(full, MergedWith(c, d))
         /\ CanMerge(MergedWith(c, d), c)
<1> DEFINE G == GroupOf(A, c)
           U == UNION {a.context : a \in G}
           m == MergedWith(c, d)
<1>1. GroupOf(A \cup {d}, c) = G \cup {d}
  BY DEF GroupOf, CanMerge, SameKey
<1>2. UNION {a.context : a \in G \cup {d}} = U \cup d.context
  OBVIOUS
<1>3. IsStacks(U) /\ IsStacks(d.context)
  BY DEF GroupOf, IsOne, IsConfiguration, IsStacks
<1>4. Joined(full, c.context \cup d.context) = Joined(full, U \cup d.context)
  <2>1. c.context = Joined(full, U)
    BY DEF MergeOf
  <2> HIDE DEF U
  <2> QED BY <1>3, <2>1, JoinAgain
<1>5. /\ c.outer <=> \E a \in G : a.outer
      /\ c.suppressed <=> \E a \in G : a.suppressed
  <2>1. c.outer <=> \E a \in GroupOf(A, c) : a.outer
    BY MergeParts, Zenon
  <2>2. c.suppressed <=> \E a \in GroupOf(A, c) : a.suppressed
    BY MergeParts, Zenon
  <2> QED BY <2>1, <2>2
<1>6. /\ (c.outer \/ d.outer) = \E a \in G \cup {d} : a.outer
      /\ (c.suppressed \/ d.suppressed) = \E a \in G \cup {d} : a.suppressed
  <2> HIDE DEF G
  <2> QED BY <1>5
<1>7. m = [state |-> c.state, alt |-> c.alt, sem |-> c.sem,
           context |-> Joined(full, U \cup d.context),
           outer |-> \E a \in G \cup {d} : a.outer,
           suppressed |-> \E a \in G \cup {d} : a.suppressed]
  <2> DEFINE u == c.outer \/ d.outer
             v == c.suppressed \/ d.suppressed
  <2>1. m = [state |-> c.state, alt |-> c.alt, sem |-> c.sem,
             context |-> Joined(full, c.context \cup d.context), outer |-> u, suppressed |-> v]
    BY MergedParts, Zenon DEF IsOne
  <2>2. u = (\E a \in G \cup {d} : a.outer) /\ v = \E a \in G \cup {d} : a.suppressed
    BY <1>6, Zenon
  <2> HIDE DEF u, v, G, U
  <2> QED BY <1>4, <2>1, <2>2, Zenon
<1>8. MergeOf(full, A \cup {d}, c) =
        [state |-> c.state, alt |-> c.alt, sem |-> c.sem,
         context |-> Joined(full, U \cup d.context),
         outer |-> \E a \in G \cup {d} : a.outer,
         suppressed |-> \E a \in G \cup {d} : a.suppressed]
  BY <1>1, <1>2 DEF MergeOf
<1>9. m.state = c.state /\ m.alt = c.alt /\ m.sem = c.sem
      /\ m.context = Joined(full, U \cup d.context)
      /\ m.outer \in BOOLEAN /\ m.suppressed \in BOOLEAN
  BY <1>7
<1>10. IsStacks(U \cup d.context)
  BY <1>3 DEF IsStacks
<1>11. IsOne(full, m)
  <2>1. IsStacks(m.context) /\ Joined(full, m.context) = m.context
    BY <1>9, <1>10, JoinedStacks
  <2>2. m = [state |-> m.state, alt |-> m.alt, context |-> m.context, sem |-> m.sem,
             outer |-> m.outer, suppressed |-> m.suppressed]
    BY <1>7
  <2> QED BY <1>9, <2>1, <2>2 DEF IsOne, IsConfiguration, IsStacks
<1>12. CanMerge(m, c)
  BY <1>9 DEF CanMerge, SameKey
<1> QED BY <1>7, <1>8, <1>11, <1>12

-----------------------------------------------------------------------------
(* A set that is filled. *)

IsHeap(f, h) ==
  /\ h = [o \in DOMAIN h |-> h[o]] /\ \E n \in Nat : DOMAIN h = 1 .. n
  /\ \A o \in DOMAIN h : IsOne(f, h[o])

Apart(h, list) ==
  \A i, j \in DOMAIN list : i # j => ~CanMerge(h[list[i]], h[list[j]])

IsSet(h, s) ==
  /\ s = [configs |-> s.configs, merged |-> s.merged, unmerged |-> s.unmerged,
          uniqueAlt |-> s.uniqueAlt, hasSem |-> s.hasSem, dips |-> s.dips]
  /\ s.configs \in Seq(DOMAIN h) /\ s.unmerged \in Seq(DOMAIN h)
  /\ Objects(s.configs) = s.merged \cup Objects(s.unmerged)
  /\ Apart(h, s.configs)

(* What a set says of the configurations added to it. *)
Says(s, A) ==
  /\ A = {} => s.uniqueAlt = Configs!InvalidAlt
  /\ \A a \in A : IF \A b \in A : b.alt = a.alt THEN s.uniqueAlt = a.alt
                  ELSE s.uniqueAlt = Configs!InvalidAlt
  /\ s.hasSem = \E a \in A : a.sem # {}
  /\ s.dips = \E a \in A : a.outer

IsMergeOf(f, h, s, A) ==
  /\ IsSet(h, s)
  /\ \A a \in A : IsOne(f, a) /\ \E o \in Objects(s.configs) : CanMerge(h[o], a)
  /\ \A o \in Objects(s.configs) :
       h[o] = MergeOf(f, A, h[o]) /\ \E a \in A : CanMerge(h[o], a)
  /\ Says(s, A)

LEMMA CanMergeIsEquivalence ==
  /\ \A c : CanMerge(c, c)
  /\ \A c, d : CanMerge(c, d) => CanMerge(d, c)
  /\ \A b, c, d : CanMerge(b, c) /\ CanMerge(c, d) => CanMerge(b, d)
BY DEF CanMerge, SameKey

LEMMA EmptyIsMerge == \A f, h : IsMergeOf(f, h, EmptySet, {})
<1>1. EmptySet.configs = <<>> /\ EmptySet.unmerged = <<>> /\ EmptySet.merged = {}
      /\ EmptySet.uniqueAlt = Configs!InvalidAlt /\ EmptySet.hasSem = FALSE /\ EmptySet.dips = FALSE
  BY DEF EmptySet
<1>2. Objects(<<>>) = {}
  BY DEF Objects
<1>3. \A h : IsSet(h, EmptySet)
  BY <1>1, <1>2 DEF IsSet, EmptySet, Apart
<1> QED BY <1>1, <1>2, <1>3 DEF IsMergeOf, Says

(* An object is merged into one of the set, or becomes one. *)
LEMMA AddCases ==
  ASSUME NEW h, NEW s, IsSet(h, s), NEW e
  PROVE  \/ \E o \in Objects(s.configs) :
              /\ CanMerge(h[e], h[o])
              /\ Add(h, s, e) = [heap |-> [h EXCEPT ![o] = MergedWith(@, h[e])],
                                 set  |-> [s EXCEPT !.dips = @ \/ h[e].outer]]
         \/ /\ \A o \in Objects(s.configs) : ~CanMerge(h[e], h[o])
            /\ \E merged, unmerged :
                 /\ Add(h, s, e) =
                      [heap |-> h,
                       set  |-> [configs   |-> Append(s.configs, e),
                                 merged    |-> merged,
                                 unmerged  |-> unmerged,
                                 uniqueAlt |-> IF Len(Append(s.configs, e)) = 1 THEN h[e].alt
                                               ELSE IF s.uniqueAlt # h[e].alt
                                               THEN Configs!InvalidAlt ELSE s.uniqueAlt,
                                 hasSem    |-> s.hasSem \/ h[e].sem # {},
                                 dips      |-> s.dips \/ h[e].outer]]
                 /\ \/ merged = s.merged \cup {e} /\ unmerged = s.unmerged
                    \/ merged = s.merged /\ unmerged = Append(s.unmerged, e)
<1> DEFINE c       == h[e]
           keyed   == {o \in s.merged : SameKey(h[o], c)}
           holders == {o \in keyed : CanMerge(c, h[o])} \cup
                      {o \in Objects(s.unmerged) : CanMerge(c, h[o])}
           merged   == IF keyed = {} THEN s.merged \cup {e} ELSE s.merged
           unmerged == IF keyed = {} THEN s.unmerged ELSE Append(s.unmerged, e)
<1>1. holders = {o \in Objects(s.configs) : CanMerge(c, h[o])}
  BY DEF IsSet, CanMerge, SameKey
<1>2. CASE holders # {}
  <2> DEFINE o == CHOOSE o \in holders : TRUE
  <2>1. Add(h, s, e) = [heap |-> [h EXCEPT ![o] = MergedWith(@, h[e])],
                        set  |-> [s EXCEPT !.dips = @ \/ h[e].outer]]
    BY <1>2 DEF Add
  <2>2. o \in holders
    BY <1>2
  <2> HIDE DEF o
  <2> QED BY <1>1, <2>1, <2>2
<1>3. CASE holders = {}
  <2>1. Add(h, s, e) =
          [heap |-> h,
           set  |-> [configs   |-> Append(s.configs, e),
                     merged    |-> merged,
                     unmerged  |-> unmerged,
                     uniqueAlt |-> IF Len(Append(s.configs, e)) = 1 THEN h[e].alt
                                   ELSE IF s.uniqueAlt # h[e].alt
                                   THEN Configs!InvalidAlt ELSE s.uniqueAlt,
                     hasSem    |-> s.hasSem \/ h[e].sem # {},
                     dips      |-> s.dips \/ h[e].outer]]
    BY <1>3 DEF Add
  <2>2. \A o \in Objects(s.configs) : ~CanMerge(h[e], h[o])
    BY <1>1, <1>3
  <2>3. \/ merged = s.merged \cup {e} /\ unmerged = s.unmerged
        \/ merged = s.merged /\ unmerged = Append(s.unmerged, e)
    OBVIOUS
  <2> HIDE DEF merged, unmerged
  <2> QED BY <2>1, <2>2, <2>3
<1> QED BY <1>2, <1>3

LEMMA SaysOfMerged ==
  ASSUME NEW s, NEW A, Says(s, A), NEW a \in A, NEW d, CanMerge(a, d), d.outer \in BOOLEAN,
         NEW t, t.uniqueAlt = s.uniqueAlt, t.hasSem = s.hasSem, t.dips <=> s.dips \/ d.outer,
         t.dips \in BOOLEAN
  PROVE  Says(t, A \cup {d})
<1> DEFINE B == A \cup {d}
<1>1. a.alt = d.alt /\ a.sem = d.sem
  BY DEF CanMerge, SameKey
<1>2. t.hasSem = \E b \in B : b.sem # {}
  BY <1>1 DEF Says
<1>3. t.dips = \E b \in B : b.outer
  <2>1. s.dips <=> \E b \in A : b.outer
    BY Zenon DEF Says
  <2>2. t.dips <=> \E b \in B : b.outer
    BY <2>1
  <2> QED BY <2>2
<1>4. ASSUME NEW b \in B
      PROVE  IF \A x \in B : x.alt = b.alt THEN t.uniqueAlt = b.alt
             ELSE t.uniqueAlt = Configs!InvalidAlt
  <2>1. PICK b1 \in A : b1.alt = b.alt
    BY <1>1
  <2>2. (\A x \in B : x.alt = b.alt) <=> \A x \in A : x.alt = b1.alt
    BY <1>1, <2>1
  <2> QED BY <2>1, <2>2 DEF Says
<1> QED BY <1>2, <1>3, <1>4 DEF Says

LEMMA SaysOfAdded ==
  ASSUME NEW s, NEW A, Says(s, A), NEW d, d.outer \in BOOLEAN, s.dips \in BOOLEAN,
         NEW t, t.hasSem = (s.hasSem \/ d.sem # {}), t.dips = (s.dips \/ d.outer),
         A = {} => t.uniqueAlt = d.alt,
         A # {} => t.uniqueAlt = IF s.uniqueAlt # d.alt THEN Configs!InvalidAlt ELSE s.uniqueAlt
  PROVE  Says(t, A \cup {d})
<1> DEFINE B == A \cup {d}
<1>2. t.hasSem = \E b \in B : b.sem # {}
  BY DEF Says
<1>3. t.dips = \E b \in B : b.outer
  <2>1. s.dips <=> \E b \in A : b.outer
    BY Zenon DEF Says
  <2>2. t.dips <=> \E b \in B : b.outer
    BY <2>1
  <2>3. t.dips \in BOOLEAN
    OBVIOUS
  <2> QED BY <2>2, <2>3
<1>4. ASSUME NEW b \in B
      PROVE  IF \A x \in B : x.alt = b.alt THEN t.uniqueAlt = b.alt
             ELSE t.uniqueAlt = Configs!InvalidAlt
  <2>1. CASE A = {}
    BY <2>1
  <2>2. CASE A # {} /\ \A x \in B : x.alt = b.alt
    <3>1. PICK a \in A : TRUE
      BY <2>2
    <3>2. s.uniqueAlt = a.alt /\ a.alt = d.alt /\ d.alt = b.alt
      BY <2>2, <3>1 DEF Says
    <3> QED BY <2>2, <3>2
  <2>3. CASE A # {} /\ ~\A x \in B : x.alt = b.alt
    <3>1. CASE s.uniqueAlt # d.alt
      BY <2>3, <3>1
    <3>2. CASE s.uniqueAlt = d.alt
      <4>1. ~\A x \in B : x.alt = d.alt
        BY <2>3
      <4>2. PICK a \in A : a.alt # d.alt
        BY <4>1
      <4>3. s.uniqueAlt = Configs!InvalidAlt
        BY <3>2, <4>2 DEF Says
      <4> QED BY <2>3, <3>2, <4>3
    <3> QED BY <3>1, <3>2
  <2> QED BY <2>1, <2>2, <2>3
<1> QED BY <1>2, <1>3, <1>4 DEF Says

LEMMA ObjectsOfAppend ==
  ASSUME NEW S, NEW list \in Seq(S), NEW e \in S
  PROVE  /\ Objects(Append(list, e)) = Objects(list) \cup {e}
         /\ Append(list, e) \in Seq(S) /\ Len(Append(list, e)) = Len(list) + 1
         /\ \A i \in 1 .. Len(list) : Append(list, e)[i] = list[i]
         /\ Append(list, e)[Len(list) + 1] = e
<1> DEFINE a == Append(list, e)
           n == Len(list)
<1>1. a \in Seq(S) /\ Len(a) = n + 1 /\ (\A i \in 1 .. n : a[i] = list[i]) /\ a[n + 1] = e
  OBVIOUS
<1>2. DOMAIN a = 1 .. n + 1 /\ DOMAIN list = 1 .. n /\ n \in Nat
  OBVIOUS
<1> HIDE DEF a, n
<1>3. Objects(a) = Objects(list) \cup {e}
  BY <1>1, <1>2 DEF Objects
<1> QED BY <1>1, <1>3 DEF a, n

(* What adding an object does. *)
Added(f, h, s, A, e, r) ==
  /\ IsHeap(f, r.heap) /\ DOMAIN r.heap = DOMAIN h
  /\ IsMergeOf(f, r.heap, r.set, A \cup {h[e]})
  /\ Objects(r.set.configs) \subseteq Objects(s.configs) \cup {e}
  /\ \A o \in DOMAIN h :
       /\ CanMerge(r.heap[o], h[o])
       /\ o \notin Objects(s.configs) \/ ~CanMerge(h[o], h[e]) => r.heap[o] = h[o]

LEMMA ObjectsAreOfHeap ==
  ASSUME NEW h, NEW list \in Seq(DOMAIN h)
  PROVE  Objects(list) \subseteq DOMAIN h /\ DOMAIN list = 1 .. Len(list) /\ Len(list) \in Nat
BY DEF Objects

LEMMA AddMerges ==
  ASSUME full \in BOOLEAN, NEW h, IsHeap(full, h), NEW s, NEW A, IsMergeOf(full, h, s, A),
         NEW e \in DOMAIN h, e \notin Objects(s.configs),
         NEW o \in Objects(s.configs), CanMerge(h[e], h[o]),
         NEW r, r = [heap |-> [h EXCEPT ![o] = MergedWith(@, h[e])],
                     set  |-> [s EXCEPT !.dips = @ \/ h[e].outer]]
  PROVE  Added(full, h, s, A, e, r)
<1> DEFINE c == h[o]
           d == h[e]
           m == MergedWith(c, d)
           B == A \cup {d}
           objects == Objects(s.configs)
           g == [h EXCEPT ![o] = m]
           t == r.set
<1>1. /\ IsSet(h, s) /\ Says(s, A)
      /\ \A a \in A : IsOne(full, a) /\ \E p \in objects : CanMerge(h[p], a)
      /\ \A p \in objects : h[p] = MergeOf(full, A, h[p]) /\ \E a \in A : CanMerge(h[p], a)
  BY DEF IsMergeOf
<1>2. objects \subseteq DOMAIN h /\ s.configs \in Seq(DOMAIN h) /\ Apart(h, s.configs)
  BY <1>1, ObjectsAreOfHeap DEF IsSet
<1>3. IsOne(full, c) /\ IsOne(full, d) /\ CanMerge(c, d) /\ o \in DOMAIN h
  BY <1>2, CanMergeIsEquivalence DEF IsHeap
<1>4. m = MergeOf(full, B, c) /\ IsOne(full, m) /\ CanMerge(m, c)
  <2> HIDE DEF c, d, m
  <2>1. c = MergeOf(full, A, c)
    BY <1>1 DEF c
  <2> QED BY <1>1, <1>3, <2>1, MergedIsMerge DEF m
<1>5. r.heap = g /\ DOMAIN g = DOMAIN h /\ g[o] = m /\ \A p \in DOMAIN h : p # o => g[p] = h[p]
  BY <1>3
<1>6. /\ t.configs = s.configs /\ t.merged = s.merged /\ t.unmerged = s.unmerged
      /\ t.uniqueAlt = s.uniqueAlt /\ t.hasSem = s.hasSem
      /\ t.dips \in BOOLEAN /\ (t.dips <=> s.dips \/ d.outer)
      /\ t = [configs |-> t.configs, merged |-> t.merged, unmerged |-> t.unmerged,
              uniqueAlt |-> t.uniqueAlt, hasSem |-> t.hasSem, dips |-> t.dips]
  <2> DEFINE x == s.dips \/ d.outer
  <2>1. x \in BOOLEAN /\ (x <=> s.dips \/ d.outer)
    OBVIOUS
  <2>2. t = [s EXCEPT !.dips = x]
    OBVIOUS
  <2> HIDE DEF x, t
  <2>3. PICK f1, f2, f3, f4, f5, f6 :
          s = [configs |-> f1, merged |-> f2, unmerged |-> f3,
               uniqueAlt |-> f4, hasSem |-> f5, dips |-> f6]
    BY <1>1, Zenon DEF IsSet
  <2>4. t = [configs |-> f1, merged |-> f2, unmerged |-> f3,
             uniqueAlt |-> f4, hasSem |-> f5, dips |-> x]
    BY <2>2, <2>3
  <2> QED BY <2>1, <2>3, <2>4
<1> HIDE DEF g, t, m
<1>7. \A p \in DOMAIN h : CanMerge(g[p], h[p]) /\ IsOne(full, g[p])
  BY <1>3, <1>4, <1>5, CanMergeIsEquivalence DEF IsHeap
<1>8. IsHeap(full, g)
  <2>1. g = [p \in DOMAIN g |-> g[p]]
    BY <1>5 DEF IsHeap, g
  <2> QED BY <1>5, <1>7, <2>1 DEF IsHeap
<1>9. \A p \in DOMAIN h : p \notin objects \/ ~CanMerge(h[p], d) => g[p] = h[p]
  BY <1>3, <1>5
<1>10. IsSet(g, t)
  <2>1. Apart(g, s.configs)
    <3>1. ASSUME NEW i \in DOMAIN s.configs, NEW j \in DOMAIN s.configs, i # j
          PROVE  ~CanMerge(g[s.configs[i]], g[s.configs[j]])
      <4>1. s.configs[i] \in DOMAIN h /\ s.configs[j] \in DOMAIN h
        BY <1>2 DEF Objects
      <4>2. ~CanMerge(h[s.configs[i]], h[s.configs[j]])
        BY <1>2, <3>1 DEF Apart
      <4> QED BY <1>7, <4>1, <4>2, CanMergeIsEquivalence
    <3> QED BY <3>1 DEF Apart
  <2> QED BY <1>1, <1>5, <1>6, <2>1 DEF IsSet
<1>11. ASSUME NEW p \in objects
       PROVE  g[p] = MergeOf(full, B, g[p]) /\ \E a \in B : CanMerge(g[p], a)
  <2>1. p \in DOMAIN h /\ CanMerge(g[p], h[p])
    BY <1>2, <1>7
  <2>2. \E a \in B : CanMerge(g[p], a)
    BY <1>1, <2>1, CanMergeIsEquivalence
  <2>3. CASE p = o
    BY <1>4, <1>5, <2>2, <2>3, SameMergeOfKey
  <2>4. CASE p # o
    <3>1. PICK i, j \in DOMAIN s.configs : o = s.configs[i] /\ p = s.configs[j]
      BY DEF Objects
    <3>2. ~CanMerge(c, h[p])
      BY <1>2, <2>4, <3>1 DEF Apart
    <3>3. ~CanMerge(d, h[p])
      BY <1>3, <3>2, CanMergeIsEquivalence
    <3>4. GroupOf(B, h[p]) = GroupOf(A, h[p])
      BY <3>3 DEF GroupOf
    <3>5. MergeOf(full, B, h[p]) = h[p]
      BY <1>1, <3>4, SameMerge
    <3> QED BY <1>5, <2>1, <2>2, <2>4, <3>5
  <2> QED BY <2>3, <2>4
<1>12. \A a \in B : IsOne(full, a) /\ \E p \in objects : CanMerge(g[p], a)
  <2>1. CanMerge(g[o], d)
    BY <1>3, <1>7, CanMergeIsEquivalence
  <2>2. ASSUME NEW a \in A PROVE \E p \in objects : CanMerge(g[p], a)
    <3>1. PICK p \in objects : CanMerge(h[p], a)
      BY <1>1
    <3> QED BY <1>2, <1>7, <3>1, CanMergeIsEquivalence
  <2> QED BY <1>1, <1>3, <2>1, <2>2
<1>13. Says(t, B)
  <2>1. PICK a \in A : CanMerge(c, a)
    BY <1>1
  <2>2. CanMerge(a, d) /\ d.outer \in BOOLEAN
    BY <1>3, <2>1, CanMergeIsEquivalence DEF IsOne, IsConfiguration
  <2> HIDE DEF d
  <2> QED BY <1>1, <1>6, <2>2, SaysOfMerged
<1>14. IsMergeOf(full, g, t, B)
  BY <1>6, <1>10, <1>11, <1>12, <1>13 DEF IsMergeOf
<1> QED BY <1>5, <1>6, <1>7, <1>8, <1>9, <1>14 DEF Added, t

(* The set t is s with the object e. *)
Appended(h, s, e, t) ==
  /\ t.configs = Append(s.configs, e)
  /\ \/ t.merged = s.merged \cup {e} /\ t.unmerged = s.unmerged
     \/ t.merged = s.merged /\ t.unmerged = Append(s.unmerged, e)
  /\ t.uniqueAlt = IF Len(t.configs) = 1 THEN h[e].alt
                   ELSE IF s.uniqueAlt # h[e].alt THEN Configs!InvalidAlt ELSE s.uniqueAlt
  /\ t.hasSem = (s.hasSem \/ h[e].sem # {})
  /\ t.dips = (s.dips \/ h[e].outer)
  /\ t = [configs |-> t.configs, merged |-> t.merged, unmerged |-> t.unmerged,
          uniqueAlt |-> t.uniqueAlt, hasSem |-> t.hasSem, dips |-> t.dips]

LEMMA AddKeeps ==
  ASSUME full \in BOOLEAN, NEW h, IsHeap(full, h), NEW s, NEW A, IsMergeOf(full, h, s, A),
         NEW e \in DOMAIN h, e \notin Objects(s.configs),
         \A o \in Objects(s.configs) : ~CanMerge(h[e], h[o]),
         NEW t, Appended(h, s, e, t)
  PROVE  /\ IsMergeOf(full, h, t, A \cup {h[e]})
         /\ Objects(t.configs) = Objects(s.configs) \cup {e}
<1> DEFINE d == h[e]
           B == A \cup {d}
           objects == Objects(s.configs)
           n == Len(s.configs)
<1>1. /\ IsSet(h, s) /\ Says(s, A)
      /\ \A a \in A : IsOne(full, a) /\ \E p \in objects : CanMerge(h[p], a)
      /\ \A p \in objects : h[p] = MergeOf(full, A, h[p]) /\ \E a \in A : CanMerge(h[p], a)
  BY DEF IsMergeOf
<1>2. /\ objects \subseteq DOMAIN h /\ s.configs \in Seq(DOMAIN h) /\ Apart(h, s.configs)
      /\ s.unmerged \in Seq(DOMAIN h) /\ objects = s.merged \cup Objects(s.unmerged)
      /\ DOMAIN s.configs = 1 .. n /\ n \in Nat
  BY <1>1, ObjectsAreOfHeap DEF IsSet
<1>3. IsOne(full, d) /\ \A p \in objects : ~CanMerge(d, h[p]) /\ ~CanMerge(h[p], d)
  BY CanMergeIsEquivalence DEF IsHeap
<1>4. /\ Objects(t.configs) = objects \cup {e}
      /\ t.configs \in Seq(DOMAIN h) /\ Len(t.configs) = n + 1
      /\ \A i \in 1 .. n : t.configs[i] = s.configs[i]
      /\ t.configs[n + 1] = e
  BY <1>2, ObjectsOfAppend DEF Appended
<1>5. t.unmerged \in Seq(DOMAIN h) /\ Objects(t.configs) = t.merged \cup Objects(t.unmerged)
  <2>1. Append(s.unmerged, e) \in Seq(DOMAIN h)
        /\ Objects(Append(s.unmerged, e)) = Objects(s.unmerged) \cup {e}
    BY <1>2, ObjectsOfAppend
  <2> QED BY <1>2, <1>4, <2>1 DEF Appended
<1>6. Apart(h, t.configs)
  <2>1. DOMAIN t.configs = 1 .. n + 1
    BY <1>4
  <2>2. ASSUME NEW i \in 1 .. n + 1, NEW j \in 1 .. n + 1, i # j
        PROVE  ~CanMerge(h[t.configs[i]], h[t.configs[j]])
    <3>1. \A k \in 1 .. n : t.configs[k] \in objects
      BY <1>2, <1>4 DEF Objects
    <3>2. CASE i \in 1 .. n /\ j \in 1 .. n
      BY <1>2, <1>4, <2>2, <3>2 DEF Apart
    <3>3. CASE i = n + 1 /\ j \in 1 .. n
      BY <1>3, <1>4, <3>1, <3>3
    <3>4. CASE j = n + 1 /\ i \in 1 .. n
      BY <1>3, <1>4, <3>1, <3>4
    <3>5. (i \in 1 .. n \/ i = n + 1) /\ (j \in 1 .. n \/ j = n + 1)
      BY <1>2
    <3> QED BY <2>2, <3>2, <3>3, <3>4, <3>5
  <2> QED BY <2>1, <2>2 DEF Apart
<1>7. IsSet(h, t)
  BY <1>4, <1>5, <1>6 DEF IsSet, Appended
<1>8. ASSUME NEW a \in A PROVE ~CanMerge(a, d)
  BY <1>1, <1>3, CanMergeIsEquivalence
<1>9. h[e] = MergeOf(full, B, h[e])
  <2>1. GroupOf(B, d) = {d}
    BY <1>8, CanMergeIsEquivalence DEF GroupOf
  <2> QED BY <1>3, <2>1, MergeOfOne
<1>10. \A p \in objects : h[p] = MergeOf(full, B, h[p])
  <2> TAKE p \in objects
  <2>1. GroupOf(B, h[p]) = GroupOf(A, h[p])
    BY <1>3 DEF GroupOf
  <2> QED BY <1>1, <2>1, SameMerge
<1>11. \A p \in objects \cup {e} : h[p] = MergeOf(full, B, h[p]) /\ \E a \in B : CanMerge(h[p], a)
  <2>1. ASSUME NEW p \in objects PROVE \E a \in B : CanMerge(h[p], a)
    <3>1. PICK a \in A : CanMerge(h[p], a)
      BY <1>1
    <3> QED BY <3>1
  <2>2. \E a \in B : CanMerge(h[e], a)
    BY CanMergeIsEquivalence
  <2> HIDE DEF B, objects
  <2> QED BY <1>9, <1>10, <2>1, <2>2
<1>12. \A a \in B : IsOne(full, a) /\ \E p \in objects \cup {e} : CanMerge(h[p], a)
  BY <1>1, <1>3, CanMergeIsEquivalence
<1>13. Says(t, B)
  <2>1. A = {} <=> n = 0
    <3>1. n = 0 => objects = {}
      BY <1>2 DEF Objects
    <3>2. n # 0 => s.configs[1] \in objects
      BY <1>2 DEF Objects
    <3> QED BY <1>1, <3>1, <3>2
  <2>2. d.outer \in BOOLEAN /\ s.dips \in BOOLEAN
    <3>1. s.dips = \E a \in A : a.outer
      BY <1>1 DEF Says
    <3> QED BY <1>3, <3>1 DEF IsOne, IsConfiguration
  <2>3. A = {} => t.uniqueAlt = d.alt
    BY <1>2, <1>4, <2>1 DEF Appended
  <2>4. A # {} => t.uniqueAlt = IF s.uniqueAlt # d.alt THEN Configs!InvalidAlt ELSE s.uniqueAlt
    BY <1>2, <1>4, <2>1 DEF Appended
  <2>5. t.hasSem = (s.hasSem \/ d.sem # {}) /\ t.dips = (s.dips \/ d.outer)
    BY Zenon DEF Appended
  <2> HIDE DEF d
  <2> QED BY <1>1, <2>2, <2>3, <2>4, <2>5, SaysOfAdded
<1>14. IsMergeOf(full, h, t, B)
  BY <1>4, <1>7, <1>11, <1>12, <1>13 DEF IsMergeOf
<1> QED BY <1>4, <1>14

LEMMA AddAdds ==
  ASSUME full \in BOOLEAN, NEW h, IsHeap(full, h), NEW s, NEW A, IsMergeOf(full, h, s, A),
         NEW e \in DOMAIN h, e \notin Objects(s.configs)
  PROVE  /\ Added(full, h, s, A, e, Add(h, s, e))
         /\ (\A o \in Objects(s.configs) : ~CanMerge(h[e], h[o])) =>
              e \in Objects(Add(h, s, e).set.configs)
<1> DEFINE r == Add(h, s, e)
           t == r.set
<1>1. IsSet(h, s)
  BY DEF IsMergeOf
<1>2. ASSUME NEW o \in Objects(s.configs), CanMerge(h[e], h[o]),
             r = [heap |-> [h EXCEPT ![o] = MergedWith(@, h[e])],
                  set  |-> [s EXCEPT !.dips = @ \/ h[e].outer]]
      PROVE  Added(full, h, s, A, e, r)
  <2> HIDE DEF r
  <2> QED BY <1>2, AddMerges
<1>3. ASSUME \A o \in Objects(s.configs) : ~CanMerge(h[e], h[o]),
             NEW merged, NEW unmerged,
             \/ merged = s.merged \cup {e} /\ unmerged = s.unmerged
             \/ merged = s.merged /\ unmerged = Append(s.unmerged, e),
             r = [heap |-> h,
                  set  |-> [configs   |-> Append(s.configs, e),
                            merged    |-> merged,
                            unmerged  |-> unmerged,
                            uniqueAlt |-> IF Len(Append(s.configs, e)) = 1 THEN h[e].alt
                                          ELSE IF s.uniqueAlt # h[e].alt
                                          THEN Configs!InvalidAlt ELSE s.uniqueAlt,
                            hasSem    |-> s.hasSem \/ h[e].sem # {},
                            dips      |-> s.dips \/ h[e].outer]]
      PROVE  Added(full, h, s, A, e, r) /\ e \in Objects(r.set.configs)
  <2> HIDE DEF r
  <2>1. /\ t.configs = Append(s.configs, e) /\ t.merged = merged /\ t.unmerged = unmerged
        /\ t.uniqueAlt = IF Len(Append(s.configs, e)) = 1 THEN h[e].alt
                         ELSE IF s.uniqueAlt # h[e].alt
                         THEN Configs!InvalidAlt ELSE s.uniqueAlt
    BY <1>3
  <2>2. r.heap = h /\ t.hasSem = (s.hasSem \/ h[e].sem # {}) /\ t.dips = (s.dips \/ h[e].outer)
    BY <1>3
  <2>3. t = [configs |-> t.configs, merged |-> t.merged, unmerged |-> t.unmerged,
             uniqueAlt |-> t.uniqueAlt, hasSem |-> t.hasSem, dips |-> t.dips]
    BY <1>3
  <2>4. /\ IsMergeOf(full, h, t, A \cup {h[e]})
        /\ Objects(t.configs) = Objects(s.configs) \cup {e}
    <3> HIDE DEF t
    <3>1. \/ t.merged = s.merged \cup {e} /\ t.unmerged = s.unmerged
          \/ t.merged = s.merged /\ t.unmerged = Append(s.unmerged, e)
      BY <1>3, <2>1
    <3>2. t.uniqueAlt = IF Len(t.configs) = 1 THEN h[e].alt
                        ELSE IF s.uniqueAlt # h[e].alt THEN Configs!InvalidAlt ELSE s.uniqueAlt
      BY <2>1
    <3>3. Appended(h, s, e, t)
      BY <2>1, <2>2, <2>3, <3>1, <3>2, Zenon DEF Appended
    <3>4. \A o \in Objects(s.configs) : ~CanMerge(h[e], h[o])
      BY <1>3
    <3>5. ASSUME NEW x, Appended(h, s, e, x)
          PROVE  /\ IsMergeOf(full, h, x, A \cup {h[e]})
                 /\ Objects(x.configs) = Objects(s.configs) \cup {e}
      BY <3>4, <3>5, AddKeeps
    <3> QED BY <3>3, <3>5
  <2> QED BY <2>2, <2>4, CanMergeIsEquivalence DEF Added
<1>4. CASE \E o \in Objects(s.configs) : CanMerge(h[e], h[o])
  <2> HIDE DEF r
  <2>1. Added(full, h, s, A, e, r)
    BY <1>1, <1>2, <1>4, AddCases DEF r
  <2> QED BY <1>4, <2>1 DEF r
<1>5. CASE \A o \in Objects(s.configs) : ~CanMerge(h[e], h[o])
  <2> HIDE DEF r
  <2>1. PICK merged, unmerged :
          /\ r = [heap |-> h,
                  set  |-> [configs   |-> Append(s.configs, e),
                            merged    |-> merged,
                            unmerged  |-> unmerged,
                            uniqueAlt |-> IF Len(Append(s.configs, e)) = 1 THEN h[e].alt
                                          ELSE IF s.uniqueAlt # h[e].alt
                                          THEN Configs!InvalidAlt ELSE s.uniqueAlt,
                            hasSem    |-> s.hasSem \/ h[e].sem # {},
                            dips      |-> s.dips \/ h[e].outer]]
          /\ \/ merged = s.merged \cup {e} /\ unmerged = s.unmerged
             \/ merged = s.merged /\ unmerged = Append(s.unmerged, e)
    BY <1>1, <1>5, AddCases DEF r
  <2>2. Added(full, h, s, A, e, r) /\ e \in Objects(r.set.configs)
    BY <1>3, <1>5, <2>1
  <2> QED BY <2>2 DEF r
<1> QED BY <1>4, <1>5

-----------------------------------------------------------------------------
(* The objects of a list, one after the other. *)

Turns(u, to, objects, chosen) ==
  u = [i \in 0 .. Len(objects) |->
         IF i = 0 THEN to
         ELSE IF objects[i] \in chosen THEN Add(u[i - 1].heap, u[i - 1].set, objects[i])
         ELSE u[i - 1]]

LEMMA TurnsExist ==
  ASSUME NEW to, NEW objects, Len(objects) \in Nat, NEW chosen
  PROVE  \E u : Turns(u, to, objects, chosen)
<1> DEFINE n == Len(objects)
           Next1(u, i) == IF i = 0 THEN to
                          ELSE IF objects[i] \in chosen
                          THEN Add(u[i - 1].heap, u[i - 1].set, objects[i]) ELSE u[i - 1]
           IsTurns(u, k) == u = [i \in 0 .. k |-> Next1(u, i)]
           bad == {k \in 0 .. n : ~\E u : IsTurns(u, k)}
<1>1. \E u : IsTurns(u, 0)
  <2> DEFINE u == [i \in 0 .. 0 |-> to]
  <2>1. IsTurns(u, 0)
    OBVIOUS
  <2> HIDE DEF u, IsTurns
  <2> QED BY <2>1
<1>2. ASSUME NEW k \in Nat, NEW v, IsTurns(v, k) PROVE \E u : IsTurns(u, k + 1)
  <2> DEFINE u == [i \in 0 .. k + 1 |-> IF i = k + 1 THEN Next1(v, k + 1) ELSE v[i]]
  <2>1. \A i \in 0 .. k : i # k + 1 /\ i \in 0 .. k + 1
    OBVIOUS
  <2>2. \A i \in 0 .. k : u[i] = v[i]
    <3> HIDE DEF Next1
    <3> QED BY <2>1
  <2>3. \A i \in 0 .. k : v[i] = Next1(v, i)
    <3> HIDE DEF Next1
    <3> QED BY <1>2
  <2>4. \A i \in 0 .. k + 1 : Next1(u, i) = Next1(v, i)
    <3> TAKE i \in 0 .. k + 1
    <3>1. i # 0 => i - 1 \in 0 .. k
      OBVIOUS
    <3>2. i # 0 => u[i - 1] = v[i - 1]
      BY <2>2, <3>1
    <3> HIDE DEF u
    <3> QED BY <3>2
  <2>5. \A i \in 0 .. k + 1 : u[i] = Next1(u, i)
    <3> TAKE i \in 0 .. k + 1
    <3>1. CASE i = k + 1
      <4>1. u[i] = Next1(v, i)
        BY <3>1
      <4> HIDE DEF u, Next1
      <4> QED BY <2>4, <4>1
    <3>2. CASE i # k + 1
      <4>1. i \in 0 .. k
        BY <3>2
      <4> HIDE DEF u, Next1
      <4> QED BY <2>2, <2>3, <2>4, <4>1
    <3> QED BY <3>1, <3>2
  <2>6. u = [i \in 0 .. k + 1 |-> u[i]]
    OBVIOUS
  <2> HIDE DEF u, Next1
  <2>7. IsTurns(u, k + 1)
    BY <2>5, <2>6
  <2> QED BY <2>7
<1>3. bad = {}
  <2> HIDE DEF IsTurns
  <2> SUFFICES ASSUME bad # {} PROVE FALSE
    OBVIOUS
  <2>1. bad \in SUBSET Nat
    OBVIOUS
  <2>2. PICK k \in bad : \A j \in bad : k <= j
    <3> HIDE DEF bad
    <3> QED BY <2>1, LeastElement
  <2>3. k # 0 /\ k \in 0 .. n
    BY <1>1
  <2>4. k - 1 \in Nat /\ k - 1 \in 0 .. n /\ ~(k <= k - 1) /\ (k - 1) + 1 = k
    BY <2>3
  <2>5. \E v : IsTurns(v, k - 1)
    BY <2>2, <2>4
  <2> QED BY <1>2, <2>4, <2>5
<1>4. \E u : IsTurns(u, n)
  <2> HIDE DEF IsTurns
  <2> QED BY <1>3
<1> QED BY <1>4 DEF Turns

(* What adding those of the objects that are chosen has come to. *)
Come(f, h, s, A, chosen, r) ==
  /\ IsHeap(f, r.heap) /\ DOMAIN r.heap = DOMAIN h
  /\ IsMergeOf(f, r.heap, r.set, A \cup Contents(h, chosen))
  /\ Objects(r.set.configs) \subseteq Objects(s.configs) \cup chosen
  /\ \A o \in DOMAIN h : /\ CanMerge(r.heap[o], h[o])
                         /\ o \notin Objects(s.configs) => r.heap[o] = h[o]

LEMMA ComeOn ==
  ASSUME full \in BOOLEAN, NEW h, NEW s, NEW A, NEW past \in SUBSET DOMAIN h,
         NEW r, Come(full, h, s, A, past, r),
         NEW e \in DOMAIN h, e \notin Objects(s.configs),
         \A o \in past : ~CanMerge(h[o], h[e])
  PROVE  Come(full, h, s, A, past \cup {e}, Add(r.heap, r.set, e))
<1> DEFINE q == Add(r.heap, r.set, e)
<1>1. e \notin Objects(r.set.configs)
  <2>1. e \notin past
    BY CanMergeIsEquivalence
  <2> QED BY <2>1 DEF Come
<1>2. Added(full, r.heap, r.set, A \cup Contents(h, past), e, q)
  <2> HIDE DEF q
  <2>1. e \in DOMAIN r.heap /\ IsHeap(full, r.heap)
        /\ IsMergeOf(full, r.heap, r.set, A \cup Contents(h, past))
    BY DEF Come
  <2> QED BY <1>1, <2>1, AddAdds DEF q
<1> HIDE DEF q
<1>3. r.heap[e] = h[e]
  BY DEF Come
<1>4. (A \cup Contents(h, past)) \cup {r.heap[e]} = A \cup Contents(h, past \cup {e})
  BY <1>3 DEF Contents
<1>5. IsMergeOf(full, q.heap, q.set, A \cup Contents(h, past \cup {e}))
  BY <1>2, <1>4 DEF Added
<1>6. Objects(q.set.configs) \subseteq Objects(s.configs) \cup (past \cup {e})
  BY <1>2 DEF Added, Come
<1>7. ASSUME NEW o \in DOMAIN h
      PROVE  /\ CanMerge(q.heap[o], h[o])
             /\ o \notin Objects(s.configs) => q.heap[o] = h[o]
  <2>1. CanMerge(q.heap[o], r.heap[o]) /\ CanMerge(r.heap[o], h[o])
    BY <1>2 DEF Added, Come
  <2>2. ASSUME o \notin Objects(s.configs) PROVE q.heap[o] = h[o]
    <3>1. r.heap[o] = h[o]
      BY <2>2 DEF Come
    <3>2. CASE o \in Objects(r.set.configs)
      <4>1. o \in past
        BY <2>2, <3>2 DEF Come
      <4>2. ~CanMerge(r.heap[o], r.heap[e])
        BY <1>3, <3>1, <4>1
      <4> QED BY <1>2, <3>1, <4>2 DEF Added, Come
    <3>3. CASE o \notin Objects(r.set.configs)
      BY <1>2, <3>1, <3>3 DEF Added, Come
    <3> QED BY <3>2, <3>3
  <2> QED BY <2>1, <2>2, CanMergeIsEquivalence
<1>8. IsHeap(full, q.heap) /\ DOMAIN q.heap = DOMAIN h
  BY <1>2 DEF Added, Come
<1>9. Come(full, h, s, A, past \cup {e}, q)
  BY <1>5, <1>6, <1>7, <1>8 DEF Come
<1> QED BY <1>9 DEF q

LEMMA AllAdded ==
  ASSUME full \in BOOLEAN, NEW h, IsHeap(full, h), NEW s, NEW A, IsMergeOf(full, h, s, A),
         NEW list \in Seq(DOMAIN h), Apart(h, list), NEW chosen \in SUBSET Objects(list),
         chosen \cap Objects(s.configs) = {}, NEW to, to.heap = h, to.set = s
  PROVE  Come(full, h, s, A, chosen, AddAll(to, list, chosen))
<1> DEFINE n == Len(list)
           past(k) == {list[i] : i \in 1 .. k} \cap chosen
<1>1. n \in Nat /\ DOMAIN list = 1 .. n /\ Objects(list) \subseteq DOMAIN h
  BY ObjectsAreOfHeap
<1> DEFINE u == CHOOSE u : Turns(u, to, list, chosen)
<1>2. Turns(u, to, list, chosen)
  <2>1. \E v : Turns(v, to, list, chosen)
    <3> QED BY <1>1, TurnsExist
  <2> QED BY <2>1, Zenon
<1>3. AddAll(to, list, chosen) = u[n]
  BY Zenon DEF AddAll, Turns
<1> HIDE DEF u
<1>4. /\ u[0] = to
      /\ \A i \in 1 .. n : u[i] = IF list[i] \in chosen
                                 THEN Add(u[i - 1].heap, u[i - 1].set, list[i]) ELSE u[i - 1]
  <2>1. \A i \in 0 .. n : u[i] = IF i = 0 THEN to
                              ELSE IF list[i] \in chosen
                              THEN Add(u[i - 1].heap, u[i - 1].set, list[i]) ELSE u[i - 1]
    <3> QED BY <1>2 DEF Turns
  <2>2. \A i \in 1 .. n : i \in 0 .. n /\ i # 0
    OBVIOUS
  <2>3. 0 \in 0 .. n
    BY <1>1
  <2> HIDE DEF n
  <2> QED BY <2>1, <2>2, <2>3
<1> DEFINE Is(k) == Come(full, h, s, A, past(k), u[k])
<1>5. Is(0)
  <2>1. past(0) = {}
    OBVIOUS
  <2>2. A \cup Contents(h, {}) = A
    BY DEF Contents
  <2>3. Come(full, h, s, A, {}, to)
    BY <2>2, CanMergeIsEquivalence DEF Come
  <2> QED BY <1>4, <2>1, <2>3
<1>6. ASSUME NEW k \in 1 .. n, Is(k - 1) PROVE Is(k)
  <2> DEFINE e == list[k]
  <2>1. \A i \in 1 .. k : i = k \/ i \in 1 .. k - 1
    BY <1>1
  <2>2. \A i \in 1 .. k - 1 : i \in 1 .. k /\ i \in DOMAIN list /\ i # k
    BY <1>1
  <2>3. k \in 1 .. k /\ k \in DOMAIN list /\ e \in Objects(list)
    BY <1>1 DEF Objects
  <2>4. CASE e \notin chosen
    <3>1. past(k) = past(k - 1)
      BY <2>1, <2>2, <2>4
    <3>2. u[k] = u[k - 1]
      BY <1>4, <2>4
    <3> HIDE DEF past, e
    <3> QED BY <1>6, <3>1, <3>2
  <2>5. CASE e \in chosen
    <3>1. past(k) = past(k - 1) \cup {e}
      BY <2>1, <2>2, <2>3, <2>5
    <3>2. u[k] = Add(u[k - 1].heap, u[k - 1].set, e)
      BY <1>4, <2>5
    <3>3. \A o \in past(k - 1) : ~CanMerge(h[o], h[e])
      <4> TAKE o \in past(k - 1)
      <4>1. PICK i \in 1 .. k - 1 : o = list[i]
        OBVIOUS
      <4> QED BY <2>2, <2>3, <4>1 DEF Apart
    <3>4. past(k - 1) \in SUBSET DOMAIN h
      BY <1>1
    <3>5. e \in DOMAIN h /\ e \notin Objects(s.configs)
      BY <1>1, <2>3, <2>5
    <3> HIDE DEF past, e
    <3>6. Come(full, h, s, A, past(k - 1) \cup {e}, Add(u[k - 1].heap, u[k - 1].set, e))
      BY <1>6, <3>3, <3>4, <3>5, ComeOn
    <3> QED BY <3>1, <3>2, <3>6
  <2> QED BY <2>4, <2>5
<1>7. Is(n)
  <2> DEFINE bad == {k \in 0 .. n : ~Is(k)}
  <2> HIDE DEF Is, n
  <2>1. ASSUME bad # {} PROVE FALSE
    <3>1. bad \in SUBSET Nat
      BY <1>1
    <3>2. PICK k \in bad : \A j \in bad : k <= j
      <4> HIDE DEF bad
      <4> QED BY <2>1, <3>1, LeastElement
    <3>3. k # 0 /\ k \in 0 .. n
      BY <1>5, <3>2
    <3>4. k \in 1 .. n /\ k - 1 \in 0 .. n /\ ~(k <= k - 1)
      BY <1>1, <3>3
    <3>5. Is(k - 1)
      BY <3>2, <3>4
    <3> QED BY <1>6, <3>2, <3>4, <3>5
  <2> QED BY <1>1, <2>1
<1>8. past(n) = chosen
  BY <1>1 DEF Objects
<1> HIDE DEF past, n
<1> QED BY <1>3, <1>7, <1>8

-----------------------------------------------------------------------------
IsList(q) == \E n \in Nat : q = [i \in 1 .. n |-> q[i]]

(* The invariant: the set is the merge of what was added; the lists of the *)
(* DFA states are as they were cloned, and share no object with the set    *)
(* while the closure adds to it.                                           *)
Cloned ==
  /\ states \in Seq(Seq(DOMAIN heap)) /\ DOMAIN snapshots = DOMAIN states
  /\ IsList(snapshots)
  /\ \A i \in DOMAIN states :
       /\ Apart(heap, states[i])
       /\ Contents(heap, Objects(states[i])) = snapshots[i]
       /\ phase = "closure" => Objects(states[i]) \cap Objects(set.configs) = {}

MInv ==
  /\ full \in BOOLEAN /\ IsHeap(full, heap) /\ IsMergeOf(full, heap, set, added)
  /\ Cloned

LEMMA InitMInv == Init => MInv
<1> SUFFICES ASSUME Init PROVE MInv
  OBVIOUS
<1>1. full \in BOOLEAN /\ heap = <<>> /\ set = EmptySet /\ states = <<>> /\ added = {}
      /\ snapshots = <<>>
  BY DEF Init
<1>2. IsMergeOf(full, heap, set, added)
  BY <1>1, EmptyIsMerge
<1>3. DOMAIN <<>> = 1 .. 0 /\ <<>> = [i \in 1 .. 0 |-> <<>>[i]] /\ 0 \in Nat
  OBVIOUS
<1>4. IsHeap(full, heap)
  BY <1>1, <1>3 DEF IsHeap
<1>5. Cloned
  BY <1>1, <1>3 DEF Cloned, IsList
<1> QED BY <1>1, <1>2, <1>4, <1>5 DEF MInv

LEMMA ListAppended ==
  ASSUME NEW q, IsList(q), NEW x
  PROVE  /\ DOMAIN q = 1 .. Len(q) /\ Len(q) \in Nat
         /\ IsList(Append(q, x)) /\ DOMAIN Append(q, x) = 1 .. Len(q) + 1
         /\ Append(q, x)[Len(q) + 1] = x
         /\ \A i \in 1 .. Len(q) : i \in 1 .. Len(q) + 1 /\ i # Len(q) + 1 /\ Append(q, x)[i] = q[i]
<1> DEFINE S == {q[i] : i \in DOMAIN q} \cup {x}
           a == Append(q, x)
           k == Len(q) + 1
<1>1. PICK n \in Nat : q = [i \in 1 .. n |-> q[i]]
  BY DEF IsList
<1>2. DOMAIN q = 1 .. n
  BY <1>1
<1>3. (\A i \in 1 .. n : q[i] \in S) /\ x \in S
  BY <1>2
<1> HIDE DEF S
<1>4. q \in [1 .. n -> S]
  BY <1>1, <1>3
<1>5. q \in Seq(S)
  BY <1>4
<1>6. DOMAIN q = 1 .. Len(q) /\ Len(q) \in Nat
  BY <1>5
<1>7. a \in Seq(S) /\ Len(a) = k /\ a[k] = x /\ \A i \in 1 .. Len(q) : a[i] = q[i]
  BY <1>3, <1>5
<1>8. k \in Nat /\ \A i \in 1 .. Len(q) : i \in 1 .. k /\ i # k
  BY <1>6
<1> HIDE DEF a, k
<1>9. a = [i \in 1 .. k |-> a[i]] /\ DOMAIN a = 1 .. k
  BY <1>7
<1> QED BY <1>6, <1>7, <1>8, <1>9 DEF IsList, a, k

LEMMA HeapIsList == \A f, h : IsHeap(f, h) => IsList(h)
BY DEF IsHeap, IsList

(* Objects that are made anew change nothing. *)
LEMMA LongerHeap ==
  ASSUME NEW f, NEW h, NEW g, DOMAIN h \subseteq DOMAIN g, \A o \in DOMAIN h : g[o] = h[o],
         NEW s, NEW A, IsMergeOf(f, h, s, A)
  PROVE  IsMergeOf(f, g, s, A)
<1>1. IsSet(h, s)
  BY DEF IsMergeOf
<1>2. s.configs \in Seq(DOMAIN h) /\ Objects(s.configs) \subseteq DOMAIN h
  BY <1>1, ObjectsAreOfHeap DEF IsSet
<1>3. \A o \in Objects(s.configs) : g[o] = h[o]
  BY <1>2
<1>4. Apart(g, s.configs)
  BY <1>1, <1>3 DEF IsSet, Apart, Objects
<1>5. s.configs \in Seq(DOMAIN g) /\ s.unmerged \in Seq(DOMAIN g)
  BY <1>1 DEF IsSet
<1>6. IsSet(g, s)
  BY <1>1, <1>4, <1>5 DEF IsSet
<1> QED BY <1>3, <1>6 DEF IsMergeOf

LEMMA ReachKeeps ==
  ASSUME MInv, ReachableAreConfigurations, NEW c \in Reachable[full], Reach(c)
  PROVE  MInv'
<1> DEFINE h == Append(heap, c)
           e == Len(heap) + 1
           r == Add(h, set, e)
<1>1. /\ heap' = r.heap /\ set' = r.set /\ added' = added \cup {c}
      /\ phase = "closure" /\ full' = full /\ phase' = phase
      /\ states' = states /\ snapshots' = snapshots
  BY DEF Reach, ClosureAdds
<1>2. full \in BOOLEAN /\ IsHeap(full, heap) /\ IsMergeOf(full, heap, set, added) /\ Cloned
  BY DEF MInv
<1>3. IsOne(full, c)
  BY <1>2 DEF ReachableAreConfigurations, IsOne, Joined
<1>4. /\ DOMAIN heap = 1 .. Len(heap) /\ Len(heap) \in Nat
      /\ h = [o \in 1 .. e |-> h[o]] /\ DOMAIN h = 1 .. e /\ h[e] = c
      /\ \A o \in DOMAIN heap : o \in DOMAIN h /\ o # e /\ h[o] = heap[o]
  <2>1. IsList(heap)
    BY <1>2, HeapIsList
  <2>2. /\ DOMAIN heap = 1 .. Len(heap) /\ Len(heap) \in Nat
        /\ IsList(h) /\ DOMAIN h = 1 .. e /\ h[e] = c
        /\ \A o \in 1 .. Len(heap) : o \in 1 .. e /\ o # e /\ h[o] = heap[o]
    BY <2>1, ListAppended
  <2> HIDE DEF h, e
  <2>3. h = [o \in 1 .. e |-> h[o]]
    BY <2>2 DEF IsList
  <2> QED BY <2>2, <2>3
<1>5. \A o \in DOMAIN h : o = e \/ o \in DOMAIN heap
  BY <1>4
<1>6. IsHeap(full, h)
  <2>1. \A o \in DOMAIN h : IsOne(full, h[o])
    BY <1>2, <1>3, <1>4, <1>5 DEF IsHeap
  <2>2. e \in Nat
    BY <1>4
  <2> HIDE DEF h, e
  <2> QED BY <1>4, <2>1, <2>2 DEF IsHeap
<1> HIDE DEF h, e
<1>7. IsMergeOf(full, h, set, added)
  BY <1>2, <1>4, LongerHeap
<1>8. Objects(set.configs) \subseteq DOMAIN heap
  BY <1>2, ObjectsAreOfHeap DEF IsMergeOf, IsSet
<1>9. e \in DOMAIN h /\ e \notin DOMAIN heap
  BY <1>4 DEF e
<1>10. Added(full, h, set, added, e, r)
  <2> HIDE DEF r
  <2> QED BY <1>2, <1>6, <1>7, <1>8, <1>9, AddAdds DEF r
<1> HIDE DEF r
<1>11. \A o \in DOMAIN heap : o \notin Objects(set.configs) => r.heap[o] = heap[o]
  BY <1>4, <1>10 DEF Added
<1>12. IsHeap(full, heap') /\ DOMAIN heap \subseteq DOMAIN heap'
       /\ IsMergeOf(full, heap', set', added')
  BY <1>1, <1>4, <1>10 DEF Added
<1>13. Cloned'
  <2>1. states \in Seq(Seq(DOMAIN heap')) /\ states \in Seq(Seq(DOMAIN heap))
    BY <1>2, <1>12 DEF Cloned
  <2>2. ASSUME NEW i \in DOMAIN states
        PROVE  /\ Apart(heap', states[i])
               /\ Contents(heap', Objects(states[i])) = snapshots[i]
               /\ Objects(states[i]) \cap Objects(set'.configs) = {}
    <3>1. states[i] \in Seq(DOMAIN heap) /\ Objects(states[i]) \subseteq DOMAIN heap
      BY <2>1, ObjectsAreOfHeap
    <3>2. /\ Apart(heap, states[i]) /\ Contents(heap, Objects(states[i])) = snapshots[i]
          /\ Objects(states[i]) \cap Objects(set.configs) = {}
      BY <1>1, <1>2 DEF Cloned
    <3>3. \A o \in Objects(states[i]) : heap'[o] = heap[o]
      BY <1>1, <1>11, <3>1, <3>2
    <3>4. Apart(heap', states[i])
      BY <3>2, <3>3 DEF Apart, Objects
    <3>5. Contents(heap', Objects(states[i])) = Contents(heap, Objects(states[i]))
      BY <3>3 DEF Contents
    <3>6. Objects(set'.configs) \subseteq Objects(set.configs) \cup {e}
      BY <1>1, <1>10 DEF Added
    <3> QED BY <1>9, <3>1, <3>2, <3>4, <3>5, <3>6
  <2> QED BY <1>1, <1>2, <2>1, <2>2 DEF Cloned
<1> QED BY <1>1, <1>2, <1>12, <1>13 DEF MInv

(* What the merge of the configurations of A says is what A says. *)
LEMMA SaysOfMerge ==
  ASSUME NEW f, NEW s, NEW A, NEW C, Says(s, C),
         \A a \in A : \E c \in C : CanMerge(c, a),
         \A c \in C : c = MergeOf(f, A, c) /\ \E a \in A : CanMerge(c, a)
  PROVE  Says(s, A)
<1>1. ASSUME NEW a \in A PROVE \E c \in C : c.alt = a.alt /\ c.sem = a.sem /\ CanMerge(c, a)
  BY DEF CanMerge, SameKey
<1>2. ASSUME NEW c \in C PROVE \E a \in A : c.alt = a.alt /\ c.sem = a.sem
  BY DEF CanMerge, SameKey
<1>3. A = {} => s.uniqueAlt = Configs!InvalidAlt
  BY <1>2 DEF Says
<1>4. ASSUME NEW a \in A
      PROVE  IF \A b \in A : b.alt = a.alt THEN s.uniqueAlt = a.alt
             ELSE s.uniqueAlt = Configs!InvalidAlt
  <2>1. PICK c \in C : c.alt = a.alt
    BY <1>1
  <2>2. ASSUME \A b \in A : b.alt = a.alt, NEW d \in C PROVE d.alt = c.alt
    BY <1>2, <2>1, <2>2
  <2>3. ASSUME \A d \in C : d.alt = c.alt, NEW b \in A PROVE b.alt = a.alt
    BY <1>1, <2>1, <2>3
  <2>4. (\A b \in A : b.alt = a.alt) <=> \A d \in C : d.alt = c.alt
    BY <2>2, <2>3
  <2> QED BY <2>1, <2>4 DEF Says
<1>5. s.hasSem = \E a \in A : a.sem # {}
  <2>1. (\E a \in A : a.sem # {}) = \E c \in C : c.sem # {}
    BY <1>1, <1>2
  <2> QED BY <2>1 DEF Says
<1>6. s.dips = \E a \in A : a.outer
  <2>1. ASSUME NEW a \in A, a.outer PROVE \E c \in C : c.outer
    <3>1. PICK c \in C : CanMerge(c, a)
      BY <1>1
    <3>2. a \in GroupOf(A, c)
      BY <3>1, CanMergeIsEquivalence DEF GroupOf
    <3>3. MergeOf(f, A, c).outer
      BY <2>1, <3>2, MergeParts, Zenon
    <3> QED BY <3>3
  <2>2. ASSUME NEW c \in C, c.outer PROVE \E a \in A : a.outer
    <3>1. MergeOf(f, A, c).outer
      BY <2>2
    <3>2. \E a \in GroupOf(A, c) : a.outer
      BY <3>1, MergeParts, Zenon
    <3> QED BY <3>2 DEF GroupOf
  <2>3. (\E a \in A : a.outer) <=> \E c \in C : c.outer
    BY <2>1, <2>2
  <2>4. s.dips = \E c \in C : c.outer
    BY DEF Says
  <2> QED BY <2>3, <2>4
<1> QED BY <1>3, <1>4, <1>5, <1>6 DEF Says

StoppedOf(A) == {c \in A : c.state \in StopStates}

(* The set is built again of its objects at a stop state, none of which    *)
(* changes, since no two of them can be merged.                            *)
LEMMA RebuiltOfStopped ==
  ASSUME full \in BOOLEAN, NEW h, IsHeap(full, h), NEW s, NEW A, IsMergeOf(full, h, s, A),
         NEW stopped, stopped = {o \in Objects(s.configs) : h[o].state \in StopStates},
         NEW r, r = AddAll([heap |-> h, set |-> EmptySet], s.configs, stopped)
  PROVE  /\ r.heap = h /\ IsMergeOf(full, h, r.set, StoppedOf(A))
         /\ Objects(r.set.configs) \subseteq Objects(s.configs)
<1> DEFINE B == StoppedOf(A)
           C == Contents(h, stopped)
           objects == Objects(s.configs)
<1>1. /\ IsSet(h, s)
      /\ \A a \in A : IsOne(full, a) /\ \E p \in objects : CanMerge(h[p], a)
      /\ \A p \in objects : h[p] = MergeOf(full, A, h[p]) /\ \E a \in A : CanMerge(h[p], a)
  BY DEF IsMergeOf
<1>2. s.configs \in Seq(DOMAIN h) /\ Apart(h, s.configs) /\ objects \subseteq DOMAIN h
  BY <1>1, ObjectsAreOfHeap DEF IsSet
<1>3. Come(full, h, EmptySet, {}, stopped, r)
  <2> DEFINE to == [heap |-> h, set |-> EmptySet]
  <2>1. to.heap = h /\ to.set = EmptySet /\ r = AddAll(to, s.configs, stopped)
    OBVIOUS
  <2>2. stopped \in SUBSET Objects(s.configs) /\ IsMergeOf(full, h, EmptySet, {})
    BY EmptyIsMerge
  <2>3. Objects(EmptySet.configs) = {}
    BY DEF EmptySet, Objects
  <2>4. stopped \cap Objects(EmptySet.configs) = {}
    BY <2>3
  <2> HIDE DEF to
  <2> QED BY <1>2, <2>1, <2>2, <2>4, AllAdded
<1>4. Objects(EmptySet.configs) = {}
  BY DEF EmptySet, Objects
<1>5. r.heap = h
  <2>1. DOMAIN r.heap = DOMAIN h /\ \A o \in DOMAIN h : r.heap[o] = h[o]
    BY <1>3, <1>4 DEF Come
  <2>2. r.heap = [o \in DOMAIN r.heap |-> r.heap[o]] /\ h = [o \in DOMAIN h |-> h[o]]
    BY <1>3 DEF Come, IsHeap
  <2> QED BY <2>1, <2>2
<1>6. IsMergeOf(full, h, r.set, C) /\ Objects(r.set.configs) \subseteq stopped
  <2>1. {} \cup C = C
    OBVIOUS
  <2> QED BY <1>3, <1>4, <1>5, <2>1 DEF Come
<1>7. stopped \subseteq objects
  OBVIOUS
<1>8. ASSUME NEW a \in B PROVE \E o \in stopped : CanMerge(h[o], a)
  BY <1>1 DEF StoppedOf, CanMerge, SameKey
<1>9. ASSUME NEW o \in stopped
      PROVE  h[o] = MergeOf(full, B, h[o]) /\ \E a \in B : CanMerge(h[o], a)
  <2>1. h[o].state \in StopStates /\ o \in objects
    OBVIOUS
  <2>2. GroupOf(B, h[o]) = GroupOf(A, h[o])
    BY <2>1 DEF GroupOf, StoppedOf, CanMerge, SameKey
  <2>3. h[o] = MergeOf(full, B, h[o])
    BY <1>1, <2>1, <2>2, SameMerge
  <2>4. \E a \in B : CanMerge(h[o], a)
    BY <1>1, <2>1 DEF StoppedOf, CanMerge, SameKey
  <2> QED BY <2>3, <2>4
<1>10. \A c \in C : c = MergeOf(full, B, c) /\ \E a \in B : CanMerge(c, a)
  BY <1>9 DEF Contents
<1>11. \A a \in B : \E c \in C : CanMerge(c, a)
  BY <1>8 DEF Contents
<1>12. Says(r.set, B)
  <2>1. Says(r.set, C)
    BY <1>6 DEF IsMergeOf
  <2> HIDE DEF B, C
  <2> QED BY <1>10, <1>11, <2>1, SaysOfMerge
<1>13. \A a \in B : IsOne(full, a) /\ \E o \in Objects(r.set.configs) : CanMerge(h[o], a)
  <2> TAKE a \in B
  <2>1. IsOne(full, a)
    BY <1>1 DEF StoppedOf
  <2>2. PICK c \in C : CanMerge(c, a)
    BY <1>11
  <2>3. PICK o \in Objects(r.set.configs) : CanMerge(h[o], c)
    BY <1>6 DEF IsMergeOf
  <2> QED BY <2>1, <2>2, <2>3, CanMergeIsEquivalence
<1>14. IsMergeOf(full, h, r.set, B)
  <2>1. \A o \in Objects(r.set.configs) :
          h[o] = MergeOf(full, B, h[o]) /\ \E a \in B : CanMerge(h[o], a)
    BY <1>6, <1>9
  <2>2. IsSet(h, r.set)
    BY <1>6 DEF IsMergeOf
  <2> QED BY <1>12, <1>13, <2>1, <2>2 DEF IsMergeOf
<1> QED BY <1>5, <1>6, <1>7, <1>14

LEMMA AddSkippedKeeps ==
  ASSUME MInv, NEW isEOF \in BOOLEAN, AddSkipped(isEOF)
  PROVE  MInv'
<1> DEFINE objects == Objects(set.configs)
           stopped == {o \in objects : AtStop(o)}
           reach   == IF isEOF /\ stopped # objects
                      THEN AddAll([heap |-> heap, set |-> EmptySet], set.configs, stopped)
                      ELSE [heap |-> heap, set |-> set]
           from    == states[Len(states)]
           skipped == {o \in Objects(from) : AtStop(o) /\ (isEOF \/ ~heap[o].outer)}
           addable == IF full /\ stopped # {} THEN {} ELSE skipped
           to      == AddAll(reach, from, addable)
           kept    == {c \in added : isEOF => c.state \in StopStates}
<1>1. /\ phase = "closure" /\ states # <<>> /\ phase' = "skipped"
      /\ heap' = to.heap /\ set' = to.set /\ added' = kept \cup Contents(heap, addable)
      /\ full' = full /\ states' = states /\ snapshots' = snapshots
  BY DEF AddSkipped
<1>2. full \in BOOLEAN /\ IsHeap(full, heap) /\ IsMergeOf(full, heap, set, added) /\ Cloned
  BY DEF MInv
<1>3. /\ reach.heap = heap /\ IsMergeOf(full, heap, reach.set, kept)
      /\ Objects(reach.set.configs) \subseteq objects
  <2>1. stopped = {o \in objects : heap[o].state \in StopStates}
    BY DEF AtStop
  <2>2. CASE isEOF /\ stopped # objects
    <3>1. kept = StoppedOf(added)
      BY <2>2 DEF StoppedOf
    <3>2. reach = AddAll([heap |-> heap, set |-> EmptySet], set.configs, stopped)
      BY <2>2
    <3> HIDE DEF reach, stopped, kept
    <3>3. ASSUME NEW r, r = AddAll([heap |-> heap, set |-> EmptySet], set.configs, stopped)
          PROVE  /\ r.heap = heap /\ IsMergeOf(full, heap, r.set, StoppedOf(added))
                 /\ Objects(r.set.configs) \subseteq Objects(set.configs)
      BY <1>2, <2>1, <3>3, RebuiltOfStopped
    <3> QED BY <3>1, <3>2, <3>3
  <2>3. CASE ~(isEOF /\ stopped # objects)
    <3>1. reach = [heap |-> heap, set |-> set]
      BY <2>3
    <3>2. ASSUME isEOF, NEW c \in added PROVE c.state \in StopStates
      <4>1. PICK o \in objects : CanMerge(heap[o], c)
        BY <1>2 DEF IsMergeOf
      <4> QED BY <2>1, <2>3, <3>2, <4>1 DEF CanMerge, SameKey
    <3>3. kept = added
      BY <3>2
    <3> HIDE DEF reach, kept
    <3> QED BY <1>2, <3>1, <3>3
  <2> QED BY <2>2, <2>3
<1>4. /\ from \in Seq(DOMAIN heap) /\ Apart(heap, from)
      /\ Objects(from) \cap objects = {}
  <2>1. states \in Seq(Seq(DOMAIN heap))
    BY <1>2 DEF Cloned
  <2>2. Len(states) \in DOMAIN states /\ from \in Seq(DOMAIN heap)
    BY <1>1, <2>1
  <2> QED BY <1>1, <1>2, <2>2 DEF Cloned
<1>5. addable \in SUBSET Objects(from)
  OBVIOUS
<1>6. Come(full, heap, reach.set, kept, addable, to)
  <2>1. addable \cap Objects(reach.set.configs) = {}
    BY <1>3, <1>4, <1>5
  <2> HIDE DEF addable, reach, from, kept
  <2> QED BY <1>2, <1>3, <1>4, <1>5, <2>1, AllAdded
<1> HIDE DEF addable, reach, from, kept, to
<1>7. IsHeap(full, heap') /\ DOMAIN heap' = DOMAIN heap
      /\ IsMergeOf(full, heap', set', added')
  BY <1>1, <1>6 DEF Come
<1>8. \A o \in DOMAIN heap : o \notin objects => heap'[o] = heap[o]
  BY <1>1, <1>3, <1>6 DEF Come
<1>9. Cloned'
  <2>1. states \in Seq(Seq(DOMAIN heap)) /\ IsList(snapshots) /\ DOMAIN snapshots = DOMAIN states
    BY <1>2 DEF Cloned
  <2>2. ASSUME NEW i \in DOMAIN states
        PROVE  /\ Apart(heap', states[i])
               /\ Contents(heap', Objects(states[i])) = snapshots[i]
    <3>1. states[i] \in Seq(DOMAIN heap) /\ Objects(states[i]) \subseteq DOMAIN heap
      BY <2>1, ObjectsAreOfHeap
    <3>2. /\ Apart(heap, states[i]) /\ Contents(heap, Objects(states[i])) = snapshots[i]
          /\ Objects(states[i]) \cap objects = {}
      BY <1>1, <1>2 DEF Cloned
    <3>3. \A o \in Objects(states[i]) : heap'[o] = heap[o]
      BY <1>8, <3>1, <3>2
    <3>4. Apart(heap', states[i])
      BY <3>2, <3>3 DEF Apart, Objects
    <3>5. Contents(heap', Objects(states[i])) = Contents(heap, Objects(states[i]))
      BY <3>3 DEF Contents
    <3> QED BY <3>2, <3>4, <3>5
  <2> QED BY <1>1, <1>7, <2>1, <2>2 DEF Cloned
<1> QED BY <1>1, <1>2, <1>7, <1>9 DEF MInv

LEMMA CloneKeeps == ASSUME MInv, Clone PROVE MInv'
<1> DEFINE list == set.configs
           content == Contents(heap, Objects(list))
           k == Len(states) + 1
<1>1. /\ states' = Append(states, list) /\ snapshots' = Append(snapshots, content)
      /\ set' = EmptySet /\ added' = {} /\ full' = full /\ heap' = heap
  BY DEF Clone
<1>2. full \in BOOLEAN /\ IsHeap(full, heap) /\ IsMergeOf(full, heap, set, added) /\ Cloned
  BY DEF MInv
<1>3. list \in Seq(DOMAIN heap) /\ Apart(heap, list)
  BY <1>2 DEF IsMergeOf, IsSet
<1>4. states \in Seq(Seq(DOMAIN heap)) /\ IsList(snapshots) /\ DOMAIN snapshots = DOMAIN states
  BY <1>2 DEF Cloned
<1> HIDE DEF list, content
<1>5. /\ states' \in Seq(Seq(DOMAIN heap)) /\ DOMAIN states' = 1 .. k /\ states'[k] = list
      /\ DOMAIN states = 1 .. Len(states) /\ Len(states) \in Nat
      /\ \A i \in DOMAIN states : states'[i] = states[i]
  <2>1. Append(states, list) \in Seq(Seq(DOMAIN heap)) /\ Len(Append(states, list)) = k
        /\ Append(states, list)[k] = list
        /\ \A i \in 1 .. Len(states) : Append(states, list)[i] = states[i]
    BY <1>3, <1>4, ObjectsOfAppend
  <2>2. DOMAIN states = 1 .. Len(states) /\ Len(states) \in Nat
    BY <1>4
  <2> HIDE DEF k
  <2> QED BY <1>1, <2>1, <2>2
<1>6. /\ IsList(snapshots') /\ DOMAIN snapshots' = 1 .. k /\ snapshots'[k] = content
      /\ \A i \in DOMAIN states : snapshots'[i] = snapshots[i]
  <2>1. /\ DOMAIN snapshots = 1 .. Len(snapshots) /\ Len(snapshots) \in Nat
        /\ IsList(Append(snapshots, content))
        /\ DOMAIN Append(snapshots, content) = 1 .. Len(snapshots) + 1
        /\ Append(snapshots, content)[Len(snapshots) + 1] = content
        /\ \A i \in 1 .. Len(snapshots) : Append(snapshots, content)[i] = snapshots[i]
    BY <1>4, ListAppended
  <2>2. Len(snapshots) = Len(states)
    BY <1>4, <1>5, <2>1
  <2> QED BY <1>1, <1>5, <2>1, <2>2
<1>7. Objects(set'.configs) = {}
  BY <1>1 DEF EmptySet, Objects
<1>8. ASSUME NEW i \in 1 .. k
      PROVE  /\ Apart(heap, states'[i])
             /\ Contents(heap, Objects(states'[i])) = snapshots'[i]
  <2>1. CASE i = k
    BY <1>3, <1>5, <1>6, <2>1 DEF content
  <2>2. CASE i # k
    <3>1. i \in DOMAIN states
      BY <1>5, <2>2
    <3> QED BY <1>2, <1>5, <1>6, <3>1 DEF Cloned
  <2> QED BY <2>1, <2>2
<1>9. Cloned'
  <2> HIDE DEF k
  <2> QED BY <1>1, <1>5, <1>6, <1>7, <1>8 DEF Cloned
<1>10. IsMergeOf(full, heap, EmptySet, {})
  BY EmptyIsMerge
<1> QED BY <1>1, <1>2, <1>9, <1>10 DEF MInv

LEMMA NextKeeps == ASSUME MInv, ReachableAreConfigurations, [Next]_vars PROVE MInv'
<1>1. CASE \E c \in Reachable[full] : Reach(c)
  BY <1>1, ReachKeeps
<1>2. CASE \E isEOF \in BOOLEAN : AddSkipped(isEOF)
  BY <1>2, AddSkippedKeeps
<1>3. CASE Clone
  BY <1>3, CloneKeeps
<1>4. CASE UNCHANGED vars
  <2>1. full' = full /\ heap' = heap /\ set' = set /\ phase' = phase /\ states' = states
        /\ added' = added /\ snapshots' = snapshots
    BY <1>4 DEF vars
  <2> QED BY <2>1 DEF MInv, Cloned
<1> QED BY <1>1, <1>2, <1>3, <1>4 DEF Next

-----------------------------------------------------------------------------
(* The configurations of the set are as many as its objects.               *)
LEMMA ContentsAreDistinct ==
  ASSUME NEW h, NEW list \in Seq(DOMAIN h), Apart(h, list)
  PROVE  /\ Cardinality(Contents(h, Objects(list))) = Len(list)
         /\ IsFiniteSet(Contents(h, Objects(list)))
<1> DEFINE n == Len(list)
           C == Contents(h, Objects(list))
           f == [i \in 1 .. n |-> h[list[i]]]
<1>1. n \in Nat /\ DOMAIN list = 1 .. n
  OBVIOUS
<1>2. C = {f[i] : i \in 1 .. n}
  BY <1>1 DEF Contents, Objects
<1>3. \A i, j \in 1 .. n : f[i] = f[j] => i = j
  BY <1>1, CanMergeIsEquivalence DEF Apart
<1>4. f = [i \in 1 .. n |-> f[i]]
  OBVIOUS
<1> HIDE DEF f, C
<1>5. f \in Bijection(1 .. n, C)
  <2>1. f \in [1 .. n -> C]
    BY <1>2, <1>4
  <2>2. \A c \in C : \E i \in 1 .. n : f[i] = c
    BY <1>2
  <2>3. IsInjective(f)
    BY <1>3, <1>4 DEF IsInjective
  <2> QED BY <1>3, <2>1, <2>2 DEF Bijection, Injection, Surjection, IsInjective
<1>6. ExistsBijection(1 .. n, C)
  BY <1>5 DEF ExistsBijection
<1> HIDE DEF n
<1>7. IsFiniteSet(1 .. n) /\ Cardinality(1 .. n) = n
  <2>1. 1 \in Int /\ n \in Int
    BY <1>1
  <2>2. Cardinality(1 .. n) = IF 1 > n THEN 0 ELSE n - 1 + 1
    BY <2>1, FS_Interval
  <2>3. IsFiniteSet(1 .. n)
    BY <2>1, FS_Interval
  <2> QED BY <1>1, <2>2, <2>3
<1>8. IsFiniteSet(C) /\ Cardinality(C) = n
  BY <1>6, <1>7, FS_Bijection
<1> QED BY <1>8 DEF C, n

LEMMA MergedInv == MInv => SetsAreMerged
<1> SUFFICES ASSUME MInv PROVE SetsAreMerged
  OBVIOUS
<1> DEFINE objects  == Objects(set.configs)
           contents == Contents(heap, objects)
           alts     == Configs!Alts(added)
<1>1. /\ IsSet(heap, set) /\ Says(set, added)
      /\ \A a \in added : \E p \in objects : CanMerge(heap[p], a)
      /\ \A p \in objects :
           heap[p] = MergeOf(full, added, heap[p]) /\ \E a \in added : CanMerge(heap[p], a)
  BY DEF MInv, IsMergeOf
<1>2. contents = Configs!Merge(Sim, added)
  <2> DEFINE M == {MergeOf(full, added, c) : c \in added}
  <2>1. ASSUME NEW p \in objects PROVE heap[p] \in M
    <3>1. PICK a \in added : CanMerge(heap[p], a)
      BY <1>1
    <3>2. heap[p] = MergeOf(full, added, heap[p])
          /\ MergeOf(full, added, heap[p]) = MergeOf(full, added, a)
      BY <1>1, <3>1, SameMergeOfKey
    <3> QED BY <3>2
  <2>2. ASSUME NEW a \in added PROVE \E p \in objects : heap[p] = MergeOf(full, added, a)
    <3>1. PICK p \in objects : CanMerge(heap[p], a)
      BY <1>1
    <3>2. heap[p] = MergeOf(full, added, heap[p])
          /\ MergeOf(full, added, heap[p]) = MergeOf(full, added, a)
      BY <1>1, <3>1, SameMergeOfKey
    <3> QED BY <3>2
  <2>3. contents = M
    <3>1. contents \subseteq M
      BY <2>1 DEF Contents
    <3>2. M \subseteq contents
      BY <2>2 DEF Contents
    <3> QED BY <3>1, <3>2
  <2> QED BY <2>3, MergeIsOfAll
<1>3. Cardinality(contents) = Len(set.configs) /\ IsFiniteSet(contents)
  BY <1>1, ContentsAreDistinct DEF IsSet
<1>4. IsFiniteSet(alts)
  <2>1. alts = {c.alt : c \in contents}
    <3>1. alts = {c.alt : c \in added}
      BY DEF Configs!Alts
    <3>2. ASSUME NEW a \in added PROVE \E c \in contents : c.alt = a.alt
      BY <1>1 DEF Contents, CanMerge, SameKey
    <3>3. ASSUME NEW c \in contents PROVE \E a \in added : c.alt = a.alt
      BY <1>1 DEF Contents, CanMerge, SameKey
    <3> HIDE DEF alts, contents
    <3> QED BY <3>1, <3>2, <3>3
  <2> DEFINE f == [c \in contents |-> c.alt]
  <2>2. f \in Surjection(contents, alts)
    <3> HIDE DEF alts, contents
    <3> QED BY <2>1 DEF Surjection
  <2> HIDE DEF alts, contents, f
  <2> QED BY <1>3, <2>2, FS_Surjection
<1>5. set.uniqueAlt = IF Cardinality(alts) = 1 THEN CHOOSE a \in alts : TRUE
                      ELSE Configs!InvalidAlt
  <2>1. Cardinality(alts) = 1 <=> \E x : alts = {x}
    <3> HIDE DEF alts
    <3> QED BY <1>4, FS_Singleton
  <2>2. alts = {c.alt : c \in added}
    BY DEF Configs!Alts
  <2> HIDE DEF alts
  <2>3. CASE added = {}
    <3>1. ~\E x : alts = {x}
      BY <2>2, <2>3
    <3>2. set.uniqueAlt = Configs!InvalidAlt
      BY <1>1, <2>3 DEF Says
    <3> QED BY <2>1, <3>1, <3>2
  <2>4. ASSUME NEW a \in added, \A b \in added : b.alt = a.alt
        PROVE  alts = {a.alt} /\ set.uniqueAlt = a.alt
    BY <1>1, <2>2, <2>4 DEF Says
  <2>5. ASSUME NEW a \in added, ~\A b \in added : b.alt = a.alt
        PROVE  ~(\E x : alts = {x}) /\ set.uniqueAlt = Configs!InvalidAlt
    <3>1. PICK b \in added : b.alt # a.alt
      BY <2>5
    <3>2. a.alt \in alts /\ b.alt \in alts
      BY <2>2
    <3>3. set.uniqueAlt = Configs!InvalidAlt
      BY <1>1, <2>5 DEF Says
    <3> QED BY <3>1, <3>2, <3>3
  <2>6. CASE added # {}
    <3>1. PICK a \in added : TRUE
      BY <2>6
    <3>2. CASE \A b \in added : b.alt = a.alt
      <4>1. alts = {a.alt} /\ set.uniqueAlt = a.alt
        BY <2>4, <3>2
      <4>2. (CHOOSE x \in {a.alt} : TRUE) = a.alt
        OBVIOUS
      <4>3. Cardinality(alts) = 1
        BY <2>1, <4>1
      <4> QED BY <4>1, <4>2, <4>3
    <3>3. CASE ~\A b \in added : b.alt = a.alt
      BY <2>1, <2>5, <3>3
    <3> QED BY <3>2, <3>3
  <2> QED BY <2>3, <2>6
<1>6. set.hasSem = (\E c \in added : c.sem # {}) /\ set.dips = \E c \in added : c.outer
  BY <1>1, Zenon DEF Says
<1> HIDE DEF contents, alts
<1> QED BY <1>2, <1>3, <1>5, <1>6, Zenon DEF SetsAreMerged, contents, objects, alts

(* However often configurations are merged in place, the set is the merge  *)
(* of all that was added to it, no two of its objects can be merged any    *)
(* more, and uniqueAlt, hasSemanticContext and dipsIntoOuterContext say of *)
(* it what is so (add, addAll, computeTargetState).                        *)
THEOREM SetsAreAlwaysMerged == ASSUME ReachableAreConfigurations PROVE Spec => []SetsAreMerged
<1>1. MInv /\ [Next]_vars => MInv'
  BY NextKeeps
<1> QED BY <1>1, InitMInv, MergedInv, PTL DEF Spec

(* A DFA state keeps the configurations it was made with, although later   *)
(* sets share objects with it and merge others into what they hold         *)
(* (clone, add, computeTargetState).                                       *)
THEOREM StatesStayAsTheyWere == ASSUME ReachableAreConfigurations PROVE Spec => []StatesNeverChange
<1>1. MInv /\ [Next]_vars => MInv'
  BY NextKeeps
<1>2. MInv => StatesNeverChange
  BY DEF MInv, Cloned, StatesNeverChange
<1> QED BY <1>1, <1>2, InitMInv, PTL DEF Spec
=============================================================================
