--------------------- MODULE ParserInterpreterProofs ----------------------
(***************************************************************************)
(* TypeOK and ContextsAreCalls of ParserInterpreter, for every grammar that*)
(* the deserializer accepts, every input, any lookahead sets, and any      *)
(* predictions that give alternatives of their decisions.                  *)
(*                                                                         *)
(* Neither is inductive without the other: where a return goes to is read  *)
(* from a context, and in a left-recursive rule from the stack, and what is*)
(* read is a state, and of the caller's rule, only as the contexts are     *)
(* calls.  The invariant is Sound: the fields are well typed, the contexts *)
(* and the stacks are those of a chain of calls, and the current state is of*)
(* the rule of the last.                                                   *)
(***************************************************************************)
EXTENDS ParserContextsProofs

-----------------------------------------------------------------------------
(* The rules' own operations. *)

(* A child of a tree is one of a larger tree. *)
LEMMA ChildrenGrow == \A n \in Nat : Children(n) \subseteq Children(n + 1)
BY DEF Children

(* So is a context. *)
LEMMA ContextsGrow ==
  ASSUME NEW n \in Nat, NEW c \in Contexts(n)
  PROVE  c \in Contexts(n + 1)
<1>1. c.children \in Seq(Children(n)) /\ Children(n) \subseteq Children(n + 1)
  BY ChildrenGrow DEF Contexts
<1>2. c.children \in Seq(Children(n + 1))
  <2>1. \A i \in 1 .. Len(c.children) : c.children[i] \in Children(n + 1)
    BY <1>1
  <2> QED BY <1>1, <2>1
<1> QED BY <1>2 DEF Contexts

(* A tree with one context more. *)
LEMMA TreeGrows ==
  ASSUME NEW tree, IsTree(tree), NEW node \in Contexts(Len(tree) + 1)
  PROVE  LET t == Append(tree, node) IN
         /\ IsTree(t) /\ Len(t) = Len(tree) + 1 /\ t[Len(tree) + 1] = node
         /\ \A c \in 1 .. Len(tree) : t[c] = tree[c]
<1> DEFINE n == Len(tree)
           C == Contexts(n + 1)
<1>1. n \in Nat /\ \A c \in 1 .. n : tree[c] \in C
  BY ContextsGrow DEF IsTree
<1>2. tree \in Seq(C)
  <2>1. tree \in Seq(Contexts(n))
    BY DEF IsTree
  <2> HIDE DEF C
  <2> QED BY <1>1, <2>1
<1> HIDE DEF C
<1>3. LET t == Append(tree, node) IN
      /\ t \in Seq(C) /\ Len(t) = n + 1 /\ t[n + 1] = node
      /\ \A c \in 1 .. n : t[c] = tree[c]
  BY <1>1, <1>2 DEF C
<1> QED BY <1>1, <1>3 DEF C, IsTree

(* A context is added, which is the current one from then on. *)
Extends(p, tree, q) ==
  /\ Typed(q) /\ q.tree = tree /\ q.ctx = Len(p.tree) + 1
  /\ q.state = p.state /\ q.result = p.result
  /\ q.precedenceStack = p.precedenceStack
  /\ q.parentContextStack = p.parentContextStack

(* A tree with one context more, entered. *)
LEMMA ContextAdded ==
  ASSUME IsSetUp, NEW p, Typed(p), NEW tree, IsTree(tree), Len(tree) = Len(p.tree) + 1
  PROVE  Extends(p, tree, [p EXCEPT !.tree = tree, !.ctx = Len(p.tree) + 1])
<1> DEFINE n == Len(p.tree)
           q == [p EXCEPT !.tree = tree, !.ctx = n + 1]
<1>1. /\ DOMAIN q = DOMAIN p /\ q.tree = tree /\ q.ctx = n + 1
      /\ \A f \in FieldNames \ {"tree", "ctx"} : q[f] = p[f]
  BY DEF Typed, Shaped, FieldNames
<1>2. n \in Nat /\ Len(q.tree) = n + 1
  BY <1>1 DEF Typed, Shaped, IsTree
<1> HIDE DEF q
<1>3. Shaped(q)
  <2> HIDE DEF n
  <2>1. \A i : (i \in 0 .. n => i \in 0 .. n + 1) /\ (i \in 1 .. n => i \in 1 .. n + 1)
    BY <1>2
  <2>2. q.tree = tree /\ Len(p.tree) = n
    BY <1>1 DEF n
  <2>3. ThrownTyped(q)
    BY <1>1, <1>2, <2>1, <2>2 DEF Typed, Shaped, ThrownTyped, Bails, FieldNames
  <2> QED BY <1>1, <1>2, <2>1, <2>2, <2>3 DEF Typed, Shaped, FieldNames
<1>4. AltTyped(q)
  BY <1>1 DEF Typed, AltTyped, FieldNames
<1>5. /\ q.state = p.state /\ q.result = p.result /\ q.precedenceStack = p.precedenceStack
      /\ q.parentContextStack = p.parentContextStack
  BY <1>1 DEF FieldNames
<1> QED BY <1>1, <1>3, <1>4, <1>5 DEF q, Typed, Extends

(* A new context is well typed. *)
LEMMA NewContextTyped ==
  ASSUME NEW n \in Nat, NEW r \in DOMAIN g.start, NEW parent \in 0 .. n,
         NEW invoking \in Maybe(States), NEW start \in Places
  PROVE  NewContext(r, parent, invoking, start) \in Contexts(n)
<1>1. <<>> \in Seq(Children(n)) /\ Undefined \in Places
  BY DEF Places
<1> QED BY <1>1 DEF NewContext, Contexts

(* A state that calls a rule. *)
LEMMA CallFacts ==
  ASSUME IsSetUp, NEW s \in States, Len(g.out[s]) = 1, CallAt(s).kind = "rule"
  PROVE  /\ CallAt(s).rule \in DOMAIN g.start /\ CallAt(s).level \in Nat
         /\ CallAt(s).target \in States /\ g.rule[CallAt(s).target] = CallAt(s).rule
         /\ CallAt(s).follow \in States /\ g.rule[CallAt(s).follow] = g.rule[s]
<1>1. 1 \in 1 .. Len(g.out[s])
  BY SetUpFacts
<1>2. IsTransition(g, s, g.out[s][1])
  BY <1>1, GrammarFacts DEF IsSetUp, IsATN, States
<1> QED BY <1>2 DEF IsTransition, CallAt, States

(* enterRecursionRule is a call, with its entry. *)
LEMMA EnterRecursionRuleFacts ==
  ASSUME IsSetUp, NEW p, Typed(p), UnderWay(p), NEW t, t = CallAt(p.state),
         t.rule \in DOMAIN g.start, t.level \in Nat
  PROVE  LET q == EnterRecursionRule(p, t)
         IN /\ Typed(q) /\ UnderWay(q) /\ Enters(p, q) /\ q.state = p.state
            /\ t.rule \in g.precedenceRules => Stacks(p, q)
<1> DEFINE n     == Len(p.tree)
           node  == NewContext(t.rule, p.ctx, p.state, p.index)
           tree  == Append(p.tree, node)
           m     == [p EXCEPT !.tree = tree, !.ctx = n + 1]
           outer == [ctx |-> p.ctx, state |-> p.state]
           q     == EnterRecursionRule(p, t)
<1>1. n \in Nat /\ IsTree(p.tree) /\ p.ctx \in 0 .. n + 1 /\ p.state \in States
      /\ p.index \in Places
  BY DEF Typed, Shaped, IsTree, UnderWay, Places
<1>2. /\ node \in Contexts(n + 1) /\ node.rule = t.rule /\ node.parent = p.ctx
      /\ node.invoking = p.state
  <2>1. node \in Contexts(n + 1)
    BY <1>1, NewContextTyped DEF Maybe
  <2> QED BY <2>1 DEF NewContext
<1> HIDE DEF node
<1>3. /\ IsTree(tree) /\ Len(tree) = n + 1 /\ tree[n + 1] = node
      /\ \A c \in 1 .. n : tree[c] = p.tree[c]
  BY <1>1, <1>2, TreeGrows
<1> HIDE DEF tree
<1>4. /\ Typed(m) /\ m.tree = tree /\ m.ctx = n + 1 /\ m.state = p.state
      /\ m.result = p.result /\ m.precedenceStack = p.precedenceStack
      /\ m.parentContextStack = p.parentContextStack
  <2>1. IsTree(tree) /\ Len(tree) = Len(p.tree) + 1
    BY <1>3
  <2>2. Extends(p, tree, m)
    BY <2>1, ContextAdded
  <2> QED BY <2>2 DEF Extends
<1>5. /\ q = [m EXCEPT !.parentContextStack = <<outer>> \o p.parentContextStack,
                       !.precedenceStack = <<t.level>> \o p.precedenceStack]
  <2>1. q = [p EXCEPT !.tree = tree, !.ctx = n + 1,
                      !.parentContextStack = <<outer>> \o p.parentContextStack,
                      !.precedenceStack = <<t.level>> \o p.precedenceStack]
    BY DEF EnterRecursionRule, tree, node, Typed, Shaped, FieldNames
  <2> HIDE DEF outer
  <2> QED BY <2>1 DEF Typed, Shaped, FieldNames
<1>6. /\ <<outer>> \o p.parentContextStack \in Seq([ctx : Nat, state : Maybe(States)])
      /\ <<t.level>> \o p.precedenceStack \in Seq(Nat)
  <2>1. outer \in [ctx : Nat, state : Maybe(States)]
    BY <1>1 DEF Maybe
  <2>2. /\ p.precedenceStack \in Seq(Nat)
        /\ p.parentContextStack \in Seq([ctx : Nat, state : Maybe(States)])
    BY DEF Typed, Shaped
  <2> DEFINE T == [ctx : Nat, state : Maybe(States)]
  <2> HIDE DEF outer, T
  <2>3. <<outer>> \o p.parentContextStack \in Seq(T)
    BY <2>1, <2>2 DEF T
  <2>4. <<t.level>> \o p.precedenceStack \in Seq(Nat)
    BY <2>2
  <2> QED BY <2>3, <2>4 DEF T
<1> HIDE DEF m, q
<1>7. /\ DOMAIN q = DOMAIN m
      /\ q.parentContextStack = <<outer>> \o p.parentContextStack
      /\ q.precedenceStack = <<t.level>> \o p.precedenceStack
      /\ \A f \in FieldNames \ {"parentContextStack", "precedenceStack"} : q[f] = m[f]
  <2> HIDE DEF outer
  <2> QED BY <1>4, <1>5 DEF Typed, Shaped, FieldNames
<1> HIDE DEF outer
<1>8. Typed(q)
  BY <1>4, <1>6, <1>7 DEF Typed, Shaped, ThrownTyped, AltTyped, Bails, FieldNames
<1>9. /\ q.tree = tree /\ q.ctx = n + 1 /\ q.state = p.state /\ q.result = p.result
  BY <1>4, <1>7 DEF FieldNames
<1>10. Enters(p, q)
  BY <1>2, <1>3, <1>9 DEF Enters
<1>11. t.rule \in g.precedenceRules => Stacks(p, q)
  BY <1>7 DEF Stacks, outer
<1>12. UnderWay(q)
  BY <1>1, <1>9 DEF UnderWay, NoContext
<1> QED BY <1>8, <1>9, <1>10, <1>11, <1>12 DEF q

(* Replacing an element and appending another commute. *)
LEMMA ReplaceThenAppend ==
  ASSUME NEW S, NEW s \in Seq(S), NEW k \in 1 .. Len(s), NEW v \in S, NEW e \in S
  PROVE  Append([s EXCEPT ![k] = v], e) = [Append(s, e) EXCEPT ![k] = v]
<1> DEFINE x == [s EXCEPT ![k] = v]
           y == Append(s, e)
           a == Append(x, e)
           b == [y EXCEPT ![k] = v]
<1>1. /\ x \in Seq(S) /\ Len(x) = Len(s) /\ \A i \in 1 .. Len(s) : x[i] = IF i = k THEN v ELSE s[i]
      /\ y \in Seq(S) /\ Len(y) = Len(s) + 1 /\ \A i \in 1 .. Len(s) : y[i] = s[i]
      /\ y[Len(s) + 1] = e /\ Len(s) \in Nat
  OBVIOUS
<1> HIDE DEF x, y
<1>2. /\ a \in Seq(S) /\ Len(a) = Len(s) + 1 /\ \A i \in 1 .. Len(s) : a[i] = x[i]
      /\ a[Len(s) + 1] = e
  BY <1>1
<1>3. /\ b \in Seq(S) /\ Len(b) = Len(s) + 1
      /\ \A i \in 1 .. Len(s) + 1 : b[i] = IF i = k THEN v ELSE y[i]
  <2>1. k \in 1 .. Len(y)
    BY <1>1
  <2> QED BY <1>1, <2>1
<1> HIDE DEF a, b
<1>4. \A i \in 1 .. Len(s) + 1 : a[i] = b[i]
  <2> TAKE i \in 1 .. Len(s) + 1
  <2>1. CASE i \in 1 .. Len(s)
    BY <1>1, <1>2, <1>3, <2>1
  <2>2. CASE i = Len(s) + 1
    BY <1>1, <1>2, <1>3, <2>2
  <2> QED BY <1>1, <2>1, <2>2
<1>5. a = b
  BY <1>2, <1>3, <1>4, SeqEqual
<1> QED BY <1>5 DEF a, b, x, y

(* enterRule is a call, and a child of the caller's context. *)
LEMMA EnterRuleFacts ==
  ASSUME IsSetUp, NEW p, Typed(p), UnderWay(p), NEW t, t = CallAt(p.state),
         t.rule \in DOMAIN g.start, t.level \in Nat, t.rule \notin g.precedenceRules
  PROVE  LET q == EnterRule(p, t)
         IN Typed(q) /\ UnderWay(q) /\ Enters(p, q) /\ q.state = p.state /\ Stacks(p, q)
<1> DEFINE n     == Len(p.tree)
           c     == p.ctx
           node  == NewContext(t.rule, p.ctx, p.state, p.index)
           tree  == Append(p.tree, node)
           m     == [p EXCEPT !.tree = tree, !.ctx = n + 1]
           added == AddChild(m, c, "rule", n + 1)
           q     == EnterRule(p, t)
<1>1. n \in Nat /\ IsTree(p.tree) /\ c \in 1 .. n /\ p.state \in States
      /\ p.index \in Places
  BY DEF Typed, Shaped, IsTree, UnderWay, Places, NoContext
<1>2. /\ node \in Contexts(n + 1) /\ node.rule = t.rule /\ node.parent = c
      /\ node.invoking = p.state
  <2>1. node \in Contexts(n + 1)
    BY <1>1, NewContextTyped DEF Maybe
  <2> QED BY <2>1 DEF NewContext
<1> HIDE DEF node
<1>3. /\ IsTree(tree) /\ Len(tree) = n + 1 /\ tree[n + 1] = node
      /\ \A d \in 1 .. n : tree[d] = p.tree[d]
  BY <1>1, <1>2, TreeGrows
<1>4. /\ Typed(m) /\ m.tree = tree /\ m.ctx = n + 1 /\ m.state = p.state
      /\ m.result = p.result /\ m.precedenceStack = p.precedenceStack
      /\ m.parentContextStack = p.parentContextStack
  <2> HIDE DEF tree
  <2>1. IsTree(tree) /\ Len(tree) = Len(p.tree) + 1
    BY <1>3
  <2>2. Extends(p, tree, m)
    BY <2>1, ContextAdded
  <2> HIDE DEF m
  <2> QED BY <2>2 DEF Extends
<1>5. Typed(added) /\ SameCalls(m, added) /\ added.state = m.state
  <2>1. c \in 1 .. Len(m.tree)
    BY <1>1, <1>3, <1>4
  <2>2. [kind |-> "rule", at |-> n + 1] \in Children(Len(m.tree))
    BY <1>1, <1>3, <1>4 DEF Children
  <2> DEFINE kind == "rule"
             at   == n + 1
  <2>3. [kind |-> kind, at |-> at] \in Children(Len(m.tree))
    BY <2>2
  <2> HIDE DEF m, n, kind, at
  <2>4. Alters(m, AddChild(m, c, kind, at))
    BY <1>4, <2>1, <2>3, ChildAdded DEF Typed
  <2>5. Alters(m, added)
    BY <2>4 DEF kind, at
  <2> HIDE DEF added
  <2> QED BY <1>4, <2>5 DEF Alters, Typed, AltTyped, SameCalls
<1>6. q = added
  <2> DEFINE r    == [kind |-> "rule", at |-> n + 1]
             more == Append(p.tree[c].children, r)
             v    == [p.tree[c] EXCEPT !.children = more]
  <2>1. /\ p.tree \in Seq(Contexts(n)) /\ p.tree[c] \in Contexts(n)
        /\ p.tree[c].children \in Seq(Children(n))
    <3>1. p.tree \in Seq(Contexts(n)) /\ p.tree[c] \in Contexts(n)
      BY <1>1 DEF IsTree
    <3> QED BY <3>1 DEF Contexts
  <2>2. q = [p EXCEPT !.tree = Append([p.tree EXCEPT ![c] = v], node), !.ctx = n + 1]
    <3>1. AddChild(p, c, "rule", n + 1) = [p EXCEPT !.tree = [p.tree EXCEPT ![c] = v]]
      BY DEF AddChild, Typed, Shaped, FieldNames
    <3> HIDE DEF v
    <3>2. q = [[p EXCEPT !.tree = [p.tree EXCEPT ![c] = v]]
                 EXCEPT !.tree = Append(@, node), !.ctx = n + 1]
      BY <3>1, Zenon DEF EnterRule, node
    <3> QED BY <3>2 DEF Typed, Shaped, FieldNames
  <2>3. added = [p EXCEPT !.tree = [tree EXCEPT ![c] = v], !.ctx = n + 1]
    <3>1. tree[c] = p.tree[c]
      BY <1>1, <1>3
    <3> HIDE DEF tree
    <3>2. AddChild(m, c, "rule", n + 1) = [m EXCEPT !.tree = [tree EXCEPT ![c] = v]]
      BY <1>4, <3>1 DEF AddChild, Typed, Shaped, FieldNames
    <3> HIDE DEF v
    <3> QED BY <3>2 DEF Typed, Shaped, FieldNames
  <2>4. Append([p.tree EXCEPT ![c] = v], node) = [tree EXCEPT ![c] = v]
    <3> DEFINE S == Contexts(n) \cup {v, node}
    <3>1. p.tree \in Seq(S) /\ v \in S /\ node \in S
      <4>1. \A i \in 1 .. Len(p.tree) : p.tree[i] \in S
        BY <2>1
      <4> HIDE DEF v
      <4>2. v \in S /\ node \in S
        OBVIOUS
      <4> HIDE DEF S
      <4> QED BY <2>1, <4>1, <4>2
    <3> HIDE DEF S, v
    <3> QED BY <1>1, <3>1, ReplaceThenAppend
  <2> HIDE DEF v, tree
  <2> QED BY <2>2, <2>3, <2>4
<1> HIDE DEF q, added, m, tree
<1>7. /\ Len(q.tree) = n + 1 /\ q.ctx = n + 1 /\ q.state = p.state /\ q.result = p.result
      /\ q.precedenceStack = p.precedenceStack /\ q.parentContextStack = p.parentContextStack
      /\ \A d \in 1 .. n + 1 :
           /\ q.tree[d].rule = tree[d].rule /\ q.tree[d].parent = tree[d].parent
           /\ q.tree[d].invoking = tree[d].invoking
  BY <1>1, <1>3, <1>4, <1>5, <1>6 DEF SameCalls, SameNodes
<1>8. Enters(p, q)
  <2>1. n + 1 \in 1 .. n + 1 /\ \A d \in 1 .. n : d \in 1 .. n + 1
    BY <1>1
  <2> QED BY <1>2, <1>3, <1>7, <2>1 DEF Enters
<1>9. Stacks(p, q)
  BY <1>7 DEF Stacks
<1>10. UnderWay(q)
  BY <1>1, <1>7 DEF UnderWay, NoContext
<1> QED BY <1>5, <1>6, <1>7, <1>8, <1>9, <1>10 DEF q

(* The entry of the innermost call. *)
LEMMA InnermostEntry ==
  ASSUME NEW p, Typed(p), p.ctx # NoContext, NEW calls, NEW left, InCalls(p, calls, left),
         IsRecursive(p, p.ctx)
  PROVE  /\ p.precedenceStack # <<>> /\ p.parentContextStack # <<>>
         /\ Head(p.parentContextStack).ctx = p.tree[p.ctx].parent
         /\ Head(p.parentContextStack).state = p.tree[p.ctx].invoking
<1> DEFINE len   == Len(calls)
           depth == Nested(p, calls, len)
<1>1. len \in Nat /\ len \in 1 .. len /\ p.ctx = calls[len]
  BY ChainFacts
<1>2. depth \in Nat /\ depth >= 1 /\ depth + 1 - Nested(p, calls, len) = 1
  <2>1. depth \in Nat /\ depth >= 1
    BY <1>1, NestedCounts
  <2> QED BY <2>1
<1>3. AreCalls(p, calls, left) /\ Len(p.parentContextStack) >= depth
  BY DEF InCalls
<1>4. /\ HasEntry(p, calls[len], depth + 1 - Nested(p, calls, len))
      /\ Len(p.precedenceStack) = depth + 1
  BY <1>1, <1>3, PartsOfCalls
<1>5. HasEntry(p, p.ctx, 1)
  BY <1>1, <1>2, <1>4
<1>6. p.precedenceStack # <<>> /\ p.parentContextStack # <<>>
  BY <1>2, <1>3, <1>4
<1>7. Head(p.parentContextStack) = [ctx |-> p.tree[p.ctx].parent, state |-> p.tree[p.ctx].invoking]
  BY <1>5, <1>6 DEF HasEntry, Typed, Shaped
<1> QED BY <1>6, <1>7

(* pushNewRecursionContext regroups the calls. *)
LEMMA PushFacts ==
  ASSUME IsSetUp, NEW p, Typed(p), UnderWay(p), NEW calls, NEW left, InCalls(p, calls, left),
         IsRecursive(p, p.ctx)
  PROVE  LET q == PushNewRecursionContext(p)
         IN Typed(q) /\ UnderWay(q) /\ Regroups(p, q) /\ q.state = p.state
<1> DEFINE n        == Len(p.tree)
           c        == p.ctx
           outer    == Head(p.parentContextStack)
           node     == [NewContext(p.tree[c].rule, outer.ctx, outer.state, p.tree[c].start)
                          EXCEPT !.children = <<[kind |-> "rule", at |-> c]>>]
           operand  == [p.tree[c] EXCEPT !.parent = n + 1,
                                         !.invoking = g.start[g.rule[p.state]],
                                         !.stop = LastToken(p)]
           changed  == [p.tree EXCEPT ![c] = operand]
           tree     == Append(changed, node)
           q        == [p EXCEPT !.tree = tree, !.ctx = n + 1]
<1>1. n \in Nat /\ IsTree(p.tree) /\ c \in 1 .. n /\ p.state \in States
      /\ p.index \in 0 .. Len(input)
  BY DEF Typed, Shaped, IsTree, UnderWay, NoContext
<1>2. p.tree \in Seq(Contexts(n)) /\ p.tree[c] \in Contexts(n)
  BY <1>1 DEF IsTree
<1>3. outer.ctx = p.tree[c].parent /\ outer.state = p.tree[c].invoking
  BY InnermostEntry DEF UnderWay
<1>4. /\ p.tree[c].rule \in DOMAIN g.start /\ p.tree[c].parent \in 0 .. n
      /\ p.tree[c].invoking \in Maybe(States) /\ p.tree[c].start \in Places
  BY <1>2 DEF Contexts
<1>5. /\ node \in Contexts(n + 1) /\ node.rule = p.tree[c].rule
      /\ node.parent = p.tree[c].parent /\ node.invoking = p.tree[c].invoking
  <2> DEFINE leaf == <<[kind |-> "rule", at |-> c]>>
  <2>1. leaf \in Seq(Children(n + 1)) /\ Undefined \in Places /\ p.tree[c].parent \in 0 .. n + 1
    BY <1>1, <1>4 DEF Children, Places
  <2>2. node = [rule |-> p.tree[c].rule, parent |-> p.tree[c].parent,
                invoking |-> p.tree[c].invoking, start |-> p.tree[c].start,
                stop |-> Undefined, children |-> leaf]
    <3> HIDE DEF leaf
    <3>1. node = [NewContext(p.tree[c].rule, p.tree[c].parent, p.tree[c].invoking, p.tree[c].start)
                    EXCEPT !.children = leaf]
      BY <1>3 DEF leaf
    <3> HIDE DEF node
    <3> QED BY <3>1 DEF NewContext
  <2> HIDE DEF node, leaf
  <2>3. node \in Contexts(n + 1)
    BY <1>4, <2>1, <2>2 DEF Contexts
  <2> QED BY <2>2, <2>3
<1> HIDE DEF node
<1>6. operand \in Contexts(n + 1) /\ operand.rule = p.tree[c].rule
  <2>1. g.start[g.rule[p.state]] \in States
    BY <1>1, GrammarFacts DEF IsSetUp, IsATN, States
  <2>2. LastToken(p) \in Places
    BY <1>1, SetUpFacts DEF LastToken, Places, Undefined
  <2>3. p.tree[c] \in Contexts(n + 1)
    BY <1>1, <1>2, ContextsGrow
  <2> DEFINE s    == g.start[g.rule[p.state]]
             last == LastToken(p)
             up   == n + 1
             N    == Contexts(n + 1)
  <2>4. s \in Maybe(States) /\ up \in 0 .. n + 1 /\ last \in Places
    BY <1>1, <2>1, <2>2 DEF Maybe
  <2>5. operand = [p.tree[c] EXCEPT !.parent = up, !.invoking = s, !.stop = last]
    OBVIOUS
  <2> HIDE DEF s, last, up, operand
  <2> QED BY <2>3, <2>4, <2>5 DEF Contexts
<1> HIDE DEF operand
<1>7. /\ changed \in Seq(Contexts(n + 1)) /\ Len(changed) = n
      /\ \A d \in 1 .. n : changed[d] = IF d = c THEN operand ELSE p.tree[d]
  <2> DEFINE T == Contexts(n + 1)
             S == Contexts(n)
  <2>1. p.tree \in Seq(S) /\ c \in 1 .. Len(p.tree) /\ operand \in T
        /\ \A d \in 1 .. Len(p.tree) : p.tree[d] \in T
    BY <1>1, <1>2, <1>6, ContextsGrow DEF IsTree
  <2> HIDE DEF T, S
  <2> QED BY <2>1, ReplaceFacts DEF T
<1> HIDE DEF changed
<1>8. /\ IsTree(tree) /\ Len(tree) = n + 1 /\ tree[n + 1] = node
      /\ \A d \in 1 .. n : tree[d] = changed[d]
  <2> DEFINE T == Contexts(n + 1)
  <2>1. changed \in Seq(T) /\ node \in T
    BY <1>5, <1>7
  <2> HIDE DEF T
  <2>2. tree \in Seq(T) /\ Len(tree) = n + 1 /\ tree[n + 1] = node
        /\ \A d \in 1 .. n : tree[d] = changed[d]
    BY <1>1, <1>7, <2>1
  <2> HIDE DEF tree
  <2> QED BY <1>1, <2>2 DEF T, IsTree
<1>9. PushNewRecursionContext(p) = q
  BY Zenon DEF PushNewRecursionContext, tree, changed, operand, node
<1> HIDE DEF tree
<1>10. Extends(p, tree, q)
  BY <1>8, ContextAdded
<1> HIDE DEF q
<1>11. Regroups(p, q)
  BY <1>1, <1>5, <1>6, <1>7, <1>8, <1>10 DEF Extends, Regroups
<1>12. Typed(q) /\ UnderWay(q) /\ q.state = p.state
  BY <1>1, <1>10 DEF Extends, UnderWay, NoContext
<1> QED BY <1>9, <1>11, <1>12

-----------------------------------------------------------------------------
(* A rule is left. *)

Parents == [ctx : Nat, state : Maybe(States)]

(* q is p with another tree of the same contexts, in another place. *)
Resumes(p, tree, c, s, ps, pcs, q) ==
  /\ Shaped(q) /\ q.tree = tree /\ q.ctx = c /\ q.state = s
  /\ q.precedenceStack = ps /\ q.parentContextStack = pcs
  /\ q.result = p.result /\ q.alt = p.alt /\ q.thrown = p.thrown

Moved == {"parentContextStack", "precedenceStack", "tree", "ctx", "state"}

(* A parser of the same contexts elsewhere is well shaped. *)
LEMMA ResumesSomewhere ==
  ASSUME NEW p, Shaped(p), NEW tree, IsTree(tree), Len(tree) = Len(p.tree),
         NEW c \in 0 .. Len(p.tree), NEW s \in Maybe(States),
         NEW ps \in Seq(Nat), NEW pcs \in Seq(Parents),
         NEW q, DOMAIN q = DOMAIN p, q.tree = tree, q.ctx = c, q.state = s,
         q.precedenceStack = ps, q.parentContextStack = pcs,
         \A f \in FieldNames \ Moved : q[f] = p[f]
  PROVE  Resumes(p, tree, c, s, ps, pcs, q)
<1>1. ThrownTyped(q)
  BY DEF Shaped, ThrownTyped, Bails, FieldNames, Moved
<1>2. Shaped(q)
  BY <1>1 DEF Shaped, FieldNames, Parents, Moved
<1>3. q.result = p.result /\ q.alt = p.alt /\ q.thrown = p.thrown
  BY DEF FieldNames, Moved
<1> QED BY <1>2, <1>3 DEF Resumes

SameShape(s, t) ==
  /\ Len(t) = Len(s)
  /\ \A c \in 1 .. Len(s) :
       t[c].rule = s[c].rule /\ t[c].parent = s[c].parent /\ t[c].invoking = s[c].invoking

(* A context is replaced by one called alike. *)
LEMMA ContextReplaced ==
  ASSUME NEW tree, IsTree(tree), NEW c \in 1 .. Len(tree), NEW node \in Contexts(Len(tree)),
         node.rule = tree[c].rule, node.parent = tree[c].parent, node.invoking = tree[c].invoking
  PROVE  IsTree([tree EXCEPT ![c] = node]) /\ SameShape(tree, [tree EXCEPT ![c] = node])
<1> DEFINE n == Len(tree)
           S == Contexts(n)
           t == [tree EXCEPT ![c] = node]
<1>1. n \in Nat /\ tree \in Seq(S)
  BY DEF IsTree
<1>2. t \in Seq(S) /\ Len(t) = n /\ \A d \in 1 .. n : t[d] = IF d = c THEN node ELSE tree[d]
  <2> HIDE DEF S
  <2>1. node \in S
    BY DEF S
  <2> QED BY <1>1, <2>1
<1> HIDE DEF t
<1>3. IsTree(t) /\ SameShape(tree, t)
  BY <1>1, <1>2 DEF IsTree, SameShape
<1> QED BY <1>3 DEF t

(* q is p where the rule under way has been left. *)
Departs(p, q) ==
  /\ Shaped(q) /\ Returns(p, q) /\ q.state = p.tree[p.ctx].invoking
  /\ q.result = p.result /\ q.alt = p.alt /\ q.thrown = p.thrown

(* exitRule returns. *)
LEMMA ExitRuleFacts ==
  ASSUME IsSetUp, NEW p, Typed(p), UnderWay(p), ~IsRecursive(p, p.ctx)
  PROVE  Departs(p, ExitRule(p))
<1> DEFINE c     == p.ctx
           stop  == IF p.matchedEOF THEN p.index ELSE LastToken(p)
           node  == [p.tree[c] EXCEPT !.stop = stop]
           tree  == [p.tree EXCEPT ![c] = node]
           outer == p.tree[c].parent
           s     == p.tree[c].invoking
           ps    == p.precedenceStack
           pcs   == p.parentContextStack
           q     == ExitRule(p)
<1>1. c \in 1 .. Len(p.tree) /\ IsTree(p.tree) /\ p.tree[c] \in Contexts(Len(p.tree))
      /\ stop \in Places /\ ps \in Seq(Nat) /\ pcs \in Seq(Parents)
  <2>1. c \in 1 .. Len(p.tree) /\ IsTree(p.tree) /\ p.tree[c] \in Contexts(Len(p.tree))
    BY DEF Typed, Shaped, IsTree, UnderWay, NoContext
  <2>2. ps \in Seq(Nat) /\ pcs \in Seq(Parents)
    BY DEF Typed, Shaped, Parents
  <2>3. stop \in Places
    <3>1. p.index \in 0 .. Len(input)
      BY DEF Typed, Shaped
    <3> QED BY <3>1, SetUpFacts DEF Places, LastToken, Undefined
  <2> QED BY <2>1, <2>2, <2>3
<1>2. outer \in 0 .. Len(p.tree) /\ s \in Maybe(States)
  BY <1>1 DEF Contexts
<1>3. /\ node \in Contexts(Len(p.tree)) /\ node.rule = p.tree[c].rule
      /\ node.parent = p.tree[c].parent /\ node.invoking = p.tree[c].invoking
  <2> HIDE DEF stop
  <2> QED BY <1>1 DEF Contexts
<1> HIDE DEF node
<1>4. IsTree(tree) /\ SameShape(p.tree, tree)
  BY <1>1, <1>3, ContextReplaced
<1>5. /\ DOMAIN q = DOMAIN p /\ q.tree = tree /\ q.ctx = outer /\ q.state = s
      /\ q.precedenceStack = ps /\ q.parentContextStack = pcs
      /\ \A f \in FieldNames \ Moved : q[f] = p[f]
  <2>1. q = [p EXCEPT !.tree = tree, !.state = s, !.ctx = outer]
    BY Zenon DEF ExitRule, node, tree, stop, outer, s
  <2> HIDE DEF tree, s, outer, q
  <2> QED BY <2>1 DEF Typed, Shaped, FieldNames, Moved
<1>6. Resumes(p, tree, outer, s, ps, pcs, q)
  <2> HIDE DEF tree, s, outer, ps, pcs, q
  <2> QED BY <1>1, <1>2, <1>4, <1>5, ResumesSomewhere DEF SameShape, Typed
<1> HIDE DEF tree, q
<1>7. Departs(p, q)
  BY <1>4, <1>6 DEF Resumes, SameShape, SameNodes, Returns, Departs
<1> QED BY <1>7 DEF q

(* unrollRecursionContexts returns, and joins the context to its parent. *)
LEMMA UnrollFacts ==
  ASSUME IsSetUp, NEW p, Typed(p), UnderWay(p), NEW calls, NEW left, InCalls(p, calls, left),
         IsRecursive(p, p.ctx)
  PROVE  Departs(p, UnrollRecursionContexts(p))
<1> DEFINE c     == p.ctx
           outer == Head(p.parentContextStack)
           stop  == LastToken(p)
           node  == [p.tree[c] EXCEPT !.stop = stop, !.parent = outer.ctx]
           tree  == [p.tree EXCEPT ![c] = node]
           ps    == Tail(p.precedenceStack)
           pcs   == Tail(p.parentContextStack)
           q     == [p EXCEPT !.parentContextStack = Tail(@), !.precedenceStack = Tail(@),
                              !.tree[c].stop = stop, !.tree[c].parent = outer.ctx,
                              !.ctx = outer.ctx, !.state = outer.state]
           kind  == "rule"
           m     == AddChild(q, outer.ctx, kind, c)
<1>1. c \in 1 .. Len(p.tree) /\ IsTree(p.tree) /\ p.tree[c] \in Contexts(Len(p.tree))
      /\ stop \in Places
  BY SetUpFacts DEF Typed, Shaped, IsTree, UnderWay, NoContext, Places, LastToken, Undefined
<1>2. /\ p.precedenceStack # <<>> /\ p.parentContextStack # <<>>
      /\ outer.ctx = p.tree[c].parent /\ outer.state = p.tree[c].invoking
  BY InnermostEntry DEF UnderWay
<1>3. outer.ctx \in 0 .. Len(p.tree) /\ outer.state \in Maybe(States)
  BY <1>1, <1>2 DEF Contexts
<1>4. ps \in Seq(Nat) /\ pcs \in Seq(Parents)
  <2> DEFINE P == Parents
  <2>1. p.precedenceStack \in Seq(Nat) /\ p.parentContextStack \in Seq(P)
    BY DEF Typed, Shaped, Parents
  <2> HIDE DEF P
  <2>2. ps \in Seq(Nat) /\ pcs \in Seq(P)
    BY <1>2, <2>1
  <2> QED BY <2>2 DEF P
<1>5. /\ node \in Contexts(Len(p.tree)) /\ node.rule = p.tree[c].rule
      /\ node.parent = p.tree[c].parent /\ node.invoking = p.tree[c].invoking
  <2> DEFINE o == outer.ctx
  <2>1. o \in 0 .. Len(p.tree) /\ o = p.tree[c].parent
        /\ node = [p.tree[c] EXCEPT !.stop = stop, !.parent = o]
    BY <1>2, <1>3
  <2> HIDE DEF stop, o, node
  <2> QED BY <1>1, <2>1 DEF Contexts
<1>6. UnrollRecursionContexts(p) = IF outer.ctx = NoContext THEN q ELSE m
  BY Zenon DEF UnrollRecursionContexts, m, q, stop, outer, c, kind
<1>7. /\ DOMAIN q = DOMAIN p /\ q.ctx = outer.ctx /\ q.state = outer.state
       /\ q.precedenceStack = ps /\ q.parentContextStack = pcs
       /\ \A f \in FieldNames \ Moved : q[f] = p[f]
  <2> HIDE DEF outer, stop
  <2> QED BY DEF Typed, Shaped, FieldNames, Moved
<1>8. q.tree = tree
  <2> DEFINE a == [p.tree[c] EXCEPT !.stop = stop]
             t == [p.tree EXCEPT ![c] = a]
  <2>1. q.tree = [t EXCEPT ![c] = [t[c] EXCEPT !.parent = outer.ctx]]
    <3> HIDE DEF outer, stop
    <3> QED BY DEF Typed, Shaped, FieldNames
  <2>2. c \in DOMAIN p.tree
    BY <1>1 DEF IsTree
  <2>3. node = [a EXCEPT !.parent = outer.ctx]
    OBVIOUS
  <2> HIDE DEF a, node, q
  <2> QED BY <2>1, <2>2, <2>3
<1> HIDE DEF node
<1>9. IsTree(tree) /\ SameShape(p.tree, tree)
  BY <1>1, <1>5, ContextReplaced
<1>10. Resumes(p, tree, outer.ctx, outer.state, ps, pcs, q)
  <2> DEFINE o == outer.ctx
             s == outer.state
  <2>1. o \in 0 .. Len(p.tree) /\ s \in Maybe(States) /\ Len(tree) = Len(p.tree)
    BY <1>3, <1>9 DEF SameShape
  <2>2. q.ctx = o /\ q.state = s
    BY <1>7
  <2> HIDE DEF tree, ps, pcs, o, s, q
  <2>3. Resumes(p, tree, o, s, ps, pcs, q)
    BY <1>4, <1>9, <1>7, <1>8, <2>1, <2>2, ResumesSomewhere DEF Typed
  <2> QED BY <2>3 DEF o, s
<1> HIDE DEF tree, q
<1>11. Departs(p, q)
  BY <1>2, <1>9, <1>10 DEF Resumes, SameShape, SameNodes, Returns, Departs
<1>12. outer.ctx # NoContext => Departs(p, m)
  <2> SUFFICES ASSUME outer.ctx # NoContext PROVE Departs(p, m)
    OBVIOUS
  <2>1. /\ outer.ctx \in 1 .. Len(q.tree)
        /\ [kind |-> kind, at |-> c] \in Children(Len(q.tree))
    BY <1>1, <1>3, <1>9, <1>10 DEF Resumes, SameShape, NoContext, Children, IsTree
  <2> HIDE DEF kind, m, outer, c
  <2>2. Alters(q, m)
    BY <1>10, <2>1, ChildAdded DEF Resumes, m
  <2> QED BY <1>11, <2>2 DEF Departs, Returns, Alters, SameCalls, SameNodes
<1> QED BY <1>6, <1>11, <1>12

(* Whichever of them is used, as the rule of the state says. *)
LEMMA LeaveFacts ==
  ASSUME IsSetUp, NEW p, Typed(p), UnderWay(p), NEW calls, NEW left, InCalls(p, calls, left),
         p.tree[p.ctx].rule = g.rule[p.state]
  PROVE  Departs(p, Leave(p))
BY ExitRuleFacts, UnrollFacts DEF Leave, IsRecursive

-----------------------------------------------------------------------------
(* The invariant: the parser is well typed, its contexts are calls, and it *)
(* is in a state of the rule of the innermost.                             *)

IsParsing == g \in Grammars /\ input \in Sentences(g)

Sound(p, left) ==
  /\ Typed(p) /\ \E calls : InCalls(p, calls, left)
  /\ p.result = NoContext => UnderWay(p) /\ p.tree[p.ctx].rule = g.rule[p.state]

(* The grammar and the input are as assumed. *)
LEMMA ParsingIsSetUp ==
  ASSUME IsParsing
  PROVE  IsSetUp
BY GrammarFacts DEF IsParsing, IsSetUp, IsInput

(* What keeps the calls keeps the invariant. *)
LEMMA KeepsSound ==
  ASSUME NEW p, NEW q, NEW left, Sound(p, left), p.result = NoContext, Keeps(p, q)
  PROVE  Sound(q, left) /\ q.result = NoContext
<1>1. Typed(q) /\ UnderWay(q) /\ SameCalls(p, q) /\ q.state = p.state
  BY DEF Sound, Keeps
<1>2. PICK calls : InCalls(p, calls, left)
  BY DEF Sound
<1>3. InCalls(q, calls, left)
  BY <1>1, <1>2, SameInCalls DEF Sound
<1>4. q.tree[q.ctx].rule = p.tree[p.ctx].rule
  <2>1. p.ctx \in 1 .. Len(p.tree)
    BY DEF Sound, Typed, Shaped, IsTree, UnderWay, NoContext
  <2> QED BY <1>1, <2>1 DEF SameCalls, SameNodes
<1> QED BY <1>1, <1>3, <1>4 DEF Sound, UnderWay

(* To go to another state of the rule does too. *)
LEMMA GoToSound ==
  ASSUME IsSetUp, NEW p, NEW left, Typed(p), UnderWay(p), NEW calls, InCalls(p, calls, left),
         NEW s \in States, g.rule[s] = p.tree[p.ctx].rule,
         p.thrown # "nothing" => p.tree[p.ctx].rule = g.rule[p.state]
  PROVE  Sound(GoTo(p, s), left)
<1> DEFINE q == [p EXCEPT !.state = s, !.alt = 0]
<1>5. /\ Typed(q) /\ UnderWay(q) /\ SameCalls(p, q) /\ q.state = s
      /\ \A f \in FieldNames \ {"state", "alt"} : q[f] = p[f]
  BY StateFacts
<1> HIDE DEF q
<1>6. InCalls(q, calls, left)
  BY <1>5, SameInCalls
<1>7. q.tree[q.ctx].rule = g.rule[q.state]
  BY <1>5 DEF FieldNames
<1>8. Sound(q, left)
  BY <1>5, <1>6, <1>7 DEF Sound
<1>9. GoTo(p, s) = IF p.thrown # "nothing" THEN p ELSE q
  BY Zenon DEF GoTo, q
<1>10. p.thrown # "nothing" => Sound(p, left)
  BY DEF Sound
<1> QED BY <1>8, <1>9, <1>10

(* A visit that ends in another state of the rule. *)
LEMMA GoesOnSound ==
  ASSUME IsSetUp, NEW p, NEW q, NEW left, Sound(p, left), p.result = NoContext, Keeps(p, q),
         NEW s \in States, g.rule[s] = g.rule[p.state]
  PROVE  Sound(GoTo(q, s), left)
<1>1. Sound(q, left) /\ q.result = NoContext /\ q.state = p.state
  BY KeepsSound DEF Sound, Keeps
<1>2. PICK calls : InCalls(q, calls, left)
  BY <1>1 DEF Sound
<1> QED BY <1>1, <1>2, GoToSound DEF Sound

(* What the visit to a state has to go by. *)
LEMMA TransitionFacts ==
  ASSUME IsSetUp, NEW left, Sound(parser, left), Visiting, ~AtStop
  PROVE  /\ IF Transition.kind = "rule"
            THEN Len(g.out[parser.state]) = 1 /\ Transition = CallAt(parser.state)
            ELSE g.rule[Transition.target] = g.rule[parser.state]
         /\ Transition.target \in States
         /\ parser.state \in States /\ parser.result = NoContext
<1> DEFINE s == parser.state
           i == IF parser.alt = 0 THEN 1 ELSE parser.alt
<1>1. s \in States /\ parser.result = NoContext /\ parser.alt \in 0 .. Len(g.out[s])
  BY DEF Sound, Visiting, Running, Typed, AltTyped, UnderWay
<1>2. IsATN(g) /\ Len(g.out[s]) \in Nat /\ Len(g.out[s]) # 0
  <2>1. IsATN(g)
    BY GrammarFacts DEF IsSetUp
  <2> QED BY <1>1, <2>1 DEF IsATN, States, AtStop
<1>3. i \in 1 .. Len(g.out[s])
  BY <1>1, <1>2
<1>4. IsTransition(g, s, g.out[s][i])
  BY <1>1, <1>2, <1>3 DEF IsATN, States
<1>5. Len(g.out[s]) = 1 => i = 1
  BY <1>3
<1>6. Transition = g.out[s][i]
  BY DEF Transition
<1> QED BY <1>1, <1>4, <1>5, <1>6 DEF IsTransition, States, CallAt

-----------------------------------------------------------------------------
(* What a prediction is told of the contexts. *)

(* The alternatives of a decision are its transitions (adaptivePredict). *)
Lookahead(w, at) == [k \in Nat |-> IF at + k < Len(w) THEN w[at + k + 1] ELSE EOF]
PredictsAlternatives ==
  \A atn \in Grammars : \A w \in Sentences(atn) :
    \A s \in DOMAIN atn.type, at \in 0 .. Len(w), stack \in Seq(DOMAIN atn.type), level \in Nat :
      Len(atn.out[s]) > 1 =>
        Predict(atn, s, Lookahead(w, at), stack, level) \in {NoViableAlt} \cup 1 .. Len(atn.out[s])

(* All calls but the first were made by a state that calls their rule. *)
Invoked(p, calls, i) ==
  LET s == p.tree[calls[i]].invoking IN
  /\ s = NoState <=> i = 1
  /\ i # 1 => /\ s \in States /\ Len(g.out[s]) = 1 /\ CallAt(s).kind = "rule"
              /\ CallAt(s).rule = p.tree[calls[i]].rule
              /\ g.rule[s] = p.tree[calls[i - 1]].rule
              /\ CallAt(s).follow \in States /\ g.rule[CallAt(s).follow] = g.rule[s]

LEMMA InvokedByCalls ==
  ASSUME IsSetUp, NEW p, Typed(p), NEW calls, NEW left, InCalls(p, calls, left),
         NEW i \in 1 .. Len(calls)
  PROVE  Invoked(p, calls, i)
<1> DEFINE c == calls[i]
           s == p.tree[c].invoking
<1>1. AreCalls(p, calls, left)
  BY DEF InCalls
<1>2. WasCalled(p, c)
  BY <1>1, PartsOfCalls
<1>3. /\ c \in 1 .. Len(p.tree) /\ Len(p.tree) \in Nat /\ i \in Nat
      /\ p.tree[c].parent = IF i = 1 THEN NoContext ELSE calls[i - 1]
  BY ChainFacts
<1>4. i # 1 => calls[i - 1] # NoContext
  <2>1. i # 1 => i - 1 \in 1 .. Len(calls)
    BY ChainFacts
  <2>2. i # 1 => calls[i - 1] \in 1 .. Len(p.tree)
    BY <2>1, ChainFacts
  <2> QED BY <2>2 DEF NoContext
<1>5. s \in Maybe(States)
  <2>1. p.tree[c] \in Contexts(Len(p.tree))
    BY <1>3 DEF Typed, Shaped, IsTree
  <2> QED BY <2>1 DEF Contexts
<1>6. s = NoState <=> i = 1
  BY <1>2, <1>3, <1>4 DEF WasCalled
<1>7. i # 1 => /\ s \in States /\ Len(g.out[s]) = 1 /\ CallAt(s).kind = "rule"
               /\ CallAt(s).rule = p.tree[c].rule /\ g.rule[s] = p.tree[calls[i - 1]].rule
  BY <1>2, <1>3, <1>5, <1>6 DEF WasCalled, Maybe
<1>8. i # 1 => CallAt(s).follow \in States /\ g.rule[CallAt(s).follow] = g.rule[s]
  <2> SUFFICES ASSUME i # 1 PROVE CallAt(s).follow \in States /\ g.rule[CallAt(s).follow] = g.rule[s]
    OBVIOUS
  <2> HIDE DEF s
  <2>1. s \in States /\ CallAt(s).kind = "rule" /\ Len(g.out[s]) = 1
    BY <1>7, Zenon
  <2> QED BY <2>1, CallFacts
<1> QED BY <1>6, <1>7, <1>8 DEF Invoked

(* The contexts give a prediction a stack of states to return to. *)
LEMMA FollowStatesAreStates ==
  ASSUME IsSetUp, NEW p, Typed(p), NEW calls, NEW left, InCalls(p, calls, left)
  PROVE  FollowStates(p, p.ctx) \in Seq(States)
<1> DEFINE len    == Len(calls)
           up     == Upwards(p, p.ctx)
           called == {k \in DOMAIN up : \A j \in 1 .. k : p.tree[up[j]].invoking # NoState}
           Follow(k) == g.out[p.tree[up[k]].invoking][1].follow
<1>1. len \in Nat
  BY ChainFacts
<1>2. up = [k \in 1 .. len |-> calls[len + 1 - k]]
  <2>1. Chain(p, calls) /\ Len(p.tree) \in Nat
    BY ChainFacts DEF InCalls
  <2> QED BY <2>1, UpwardsAreCalls
<1> HIDE DEF up
<1>3. \A k \in 1 .. len :
        /\ p.tree[up[k]].invoking = NoState <=> k = len
        /\ k # len => Follow(k) \in States
  <2> TAKE k \in 1 .. len
  <2> DEFINE i == len + 1 - k
  <2>1. i \in 1 .. len /\ (i = 1 <=> k = len) /\ up[k] = calls[i]
    BY <1>1, <1>2
  <2> DEFINE s == p.tree[calls[i]].invoking
  <2> HIDE DEF i
  <2>2. (s = NoState <=> i = 1) /\ (i # 1 => CallAt(s).follow \in States)
    <3>1. Invoked(p, calls, i)
      BY <2>1, InvokedByCalls
    <3> QED BY <3>1 DEF Invoked, s
  <2>3. p.tree[up[k]].invoking = s /\ Follow(k) = CallAt(s).follow
    BY <2>1 DEF CallAt
  <2> HIDE DEF s, Follow
  <2> QED BY <2>1, <2>2, <2>3
<1>4. called = IF len = 0 THEN {} ELSE 1 .. len - 1
  <2> HIDE DEF Follow
  <2>1. DOMAIN up = 1 .. len
    BY <1>2
  <2>2. \A k \in 1 .. len : k \in called <=> k < len
    <3> TAKE k \in 1 .. len
    <3>1. k \in called <=> \A j \in 1 .. k : p.tree[up[j]].invoking # NoState
      BY <2>1
    <3>2. \A j \in 1 .. k : j \in 1 .. len
      BY <1>1
    <3>3. k \in called <=> \A j \in 1 .. k : j # len
      BY <1>3, <3>1, <3>2
    <3>4. (\A j \in 1 .. k : j # len) <=> k < len
      BY <1>1
    <3> QED BY <3>3, <3>4
  <2>3. called \subseteq 1 .. len
    BY <2>1
  <2> HIDE DEF called
  <2>4. \A k : k \in called <=> k \in 1 .. len /\ k < len
    BY <2>2, <2>3
  <2>5. CASE len = 0
    <3>1. \A k : ~(k \in 1 .. len)
      BY <2>5
    <3> QED BY <2>4, <2>5, <3>1
  <2>6. CASE len # 0
    <3>1. \A k : k \in 1 .. len /\ k < len <=> k \in 1 .. len - 1
      BY <1>1
    <3> QED BY <2>4, <2>6, <3>1
  <2> QED BY <2>5, <2>6
<1>5. FollowStates(p, p.ctx) = [k \in called |-> Follow(k)]
  BY DEF FollowStates, up
<1> HIDE DEF called, Follow
<1>6. \A k \in called : Follow(k) \in States
  <2>1. \A k \in called : k \in 1 .. len /\ k # len
    BY <1>1, <1>4
  <2> QED BY <1>3, <2>1
<1>7. \E l \in Nat : called = 1 .. l
  <2>1. CASE len = 0
    BY <1>4, <2>1
  <2>2. CASE len # 0
    BY <1>1, <1>4, <2>2
  <2> QED BY <2>1, <2>2
<1> QED BY <1>5, <1>6, <1>7

(* The precedence of the innermost rule is there to be asked for. *)
LEMMA StackIsNotEmpty ==
  ASSUME NEW p, Typed(p), NEW calls, NEW left, InCalls(p, calls, left)
  PROVE  p.precedenceStack # <<>> /\ p.precedenceStack \in Seq(Nat)
         /\ Head(p.precedenceStack) \in Nat
<1> DEFINE depth == Nested(p, calls, Len(calls))
<1>1. depth \in Nat
  BY ChainFacts, NestedCounts
<1>2. Len(p.precedenceStack) = depth + 1
  <2>1. AreCalls(p, calls, left)
    BY DEF InCalls
  <2> QED BY <2>1, PartsOfCalls
<1> HIDE DEF depth
<1> QED BY <1>1, <1>2, SMTT(60) DEF Typed, Shaped

(* A prediction gives an alternative of the decision, or throws. *)
LEMMA PredictedKeeps ==
  ASSUME PredictsAlternatives, IsParsing, NEW p, NEW left, Sound(p, left),
         p.result = NoContext, p.thrown = "nothing", Len(g.out[p.state]) > 1
  PROVE  Keeps(p, Predicted(p))
<1> DEFINE ahead == [k \in Nat |-> TypeOf(p.index + k)]
           alt   == Predict(g, p.state, ahead, FollowStates(p, p.ctx), Head(p.precedenceStack))
           q     == [p EXCEPT !.alt = alt]
           e     == "no viable alternative"
<1>1. IsSetUp /\ Typed(p) /\ UnderWay(p) /\ p.state \in States
  BY ParsingIsSetUp DEF Sound, UnderWay
<1>2. PICK calls : InCalls(p, calls, left)
  BY DEF Sound
<1>3. FollowStates(p, p.ctx) \in Seq(States) /\ Head(p.precedenceStack) \in Nat
  BY <1>1, <1>2, FollowStatesAreStates, StackIsNotEmpty
<1>4. p.index \in 0 .. Len(input) /\ ahead = Lookahead(input, p.index)
  BY <1>1 DEF Typed, Shaped, Lookahead, TypeOf
<1>5. alt \in {NoViableAlt} \cup 1 .. Len(g.out[p.state])
  <2> HIDE DEF ahead
  <2> QED BY <1>1, <1>3, <1>4 DEF PredictsAlternatives, IsParsing, States
<1>6. Predicted(p) = IF alt = NoViableAlt THEN Throw(p, e, p.state, p.ctx) ELSE q
  BY Zenon DEF Predicted
<1> HIDE DEF alt
<1>7. alt # NoViableAlt => Keeps(p, q)
  <2> SUFFICES ASSUME alt # NoViableAlt PROVE Keeps(p, q)
    OBVIOUS
  <2>1. alt \in 0 .. Len(g.out[p.state])
    BY <1>1, <1>5, SetUpFacts
  <2>2. /\ DOMAIN q = DOMAIN p /\ q.alt = alt
        /\ \A f \in FieldNames \ {"alt"} : q[f] = p[f]
    BY <1>1 DEF Typed, Shaped, FieldNames
  <2> HIDE DEF q
  <2>3. AltTyped(q)
    BY <1>1, <2>1, <2>2 DEF AltTyped, FieldNames, UnderWay
  <2>4. ThrownTyped(q)
    BY <1>1, <2>2 DEF Typed, Shaped, ThrownTyped, Bails, FieldNames
  <2> QED BY <1>1, <2>2, <2>3, <2>4 DEF Keeps, Typed, Shaped, UnderWay, SameCalls,
                                        SameNodes, FieldNames
<1>8. Keeps(p, Throw(p, e, p.state, p.ctx))
  <2>1. e # "nothing" /\ e # "cancelled"
    OBVIOUS
  <2>2. p.ctx \in 1 .. Len(p.tree)
    BY <1>1 DEF Typed, Shaped, IsTree, UnderWay, NoContext
  <2> HIDE DEF e
  <2> QED BY <1>1, <2>1, <2>2, ThrowKeeps, Zenon
<1> QED BY <1>6, <1>7, <1>8

-----------------------------------------------------------------------------
(* The visits that call, regroup and return. *)

(* The operations of the rules throw nothing. *)
LEMMA StillNothing ==
  ASSUME NEW p, Shaped(p), NEW t
  PROVE  /\ EnterRecursionRule(p, t).thrown = p.thrown
         /\ EnterRule(p, t).thrown = p.thrown
         /\ PushNewRecursionContext(p).thrown = p.thrown
<1> USE DEF Shaped, FieldNames
<1>1. EnterRecursionRule(p, t).thrown = p.thrown
  BY DEF EnterRecursionRule
<1>2. EnterRule(p, t).thrown = p.thrown
  <2> DEFINE q == AddChild(p, p.ctx, "rule", Len(p.tree) + 1)
  <2>1. DOMAIN q = DOMAIN p /\ q.thrown = p.thrown
    BY DEF AddChild
  <2> HIDE DEF q
  <2> QED BY <2>1 DEF EnterRule, q
<1>3. PushNewRecursionContext(p).thrown = p.thrown
  BY DEF PushNewRecursionContext
<1> QED BY <1>1, <1>2, <1>3

(* A rule is called. *)
LEMMA RuleSound ==
  ASSUME IsSetUp, NEW left, Sound(parser, left), VisitRule
  PROVE  Sound(parser', left)
<1> DEFINE p == parser
           t == Transition
           q == IF t.rule \in g.precedenceRules THEN EnterRecursionRule(p, t) ELSE EnterRule(p, t)
<1>1. Visiting /\ ~AtStop /\ t.kind = "rule" /\ p.thrown = "nothing"
  BY DEF VisitRule, Visits, Visiting
<1>2. /\ p.state \in States /\ p.result = NoContext /\ t = CallAt(p.state)
      /\ Len(g.out[p.state]) = 1 /\ CallAt(p.state).kind = "rule"
  BY <1>1, TransitionFacts
<1> HIDE DEF t
<1>3. /\ t.rule \in DOMAIN g.start /\ t.level \in Nat
      /\ t.target \in States /\ g.rule[t.target] = t.rule
  BY <1>2, CallFacts
<1>4. Typed(p) /\ UnderWay(p) /\ p.tree[p.ctx].rule = g.rule[p.state]
  BY <1>2 DEF Sound
<1>5. PICK calls : InCalls(p, calls, left)
  BY DEF Sound
<1>6. Typed(q) /\ UnderWay(q) /\ Enters(p, q) /\ Stacks(p, q) /\ q.state = p.state
  <2> HIDE DEF p
  <2> QED BY <1>2, <1>3, <1>4, EnterRecursionRuleFacts, EnterRuleFacts
<1>7. q.thrown = "nothing"
  BY <1>1, <1>4, StillNothing DEF Typed
<1>8. parser' = GoTo(q, t.target)
  BY Zenon DEF VisitRule, q, t
<1> HIDE DEF q
<1>9. InCalls(q, Append(calls, Len(p.tree) + 1), left)
  BY <1>2, <1>3, <1>4, <1>5, <1>6, SetUpFacts, EnteredInCalls
<1>10. q.tree[q.ctx].rule = t.rule
  BY <1>2, <1>6 DEF Enters
<1>11. Sound(GoTo(q, t.target), left)
  BY <1>3, <1>6, <1>7, <1>9, <1>10, GoToSound
<1> QED BY <1>8, <1>11

(* The loop of a left-recursive rule, where its operand is regrouped. *)
LEMMA EpsilonSound ==
  ASSUME IsSetUp, NEW left, Sound(parser, left), VisitEpsilon
  PROVE  Sound(parser', left)
<1> DEFINE p == parser
           s == Transition.target
           q == PushNewRecursionContext(p)
           pushes == p.state \in g.precedenceDecisions /\ g.type[s] # "LOOP_END"
<1>1. Visiting /\ ~AtStop /\ Transition.kind = "epsilon" /\ p.thrown = "nothing"
  BY DEF VisitEpsilon, Visits, Visiting
<1>2. /\ s \in States /\ g.rule[s] = g.rule[p.state] /\ p.state \in States
      /\ p.result = NoContext
  BY <1>1, TransitionFacts
<1>3. parser' = GoTo(IF pushes THEN q ELSE p, s)
  BY Zenon DEF VisitEpsilon, pushes, q, s
<1> HIDE DEF s
<1>4. Typed(p) /\ UnderWay(p) /\ p.tree[p.ctx].rule = g.rule[p.state]
  BY <1>2 DEF Sound
<1>5. PICK calls : InCalls(p, calls, left)
  BY DEF Sound
<1>6. pushes => Sound(GoTo(q, s), left)
  <2> SUFFICES ASSUME pushes PROVE Sound(GoTo(q, s), left)
    OBVIOUS
  <2>1. IsRecursive(p, p.ctx)
    BY <1>4, GrammarFacts DEF IsSetUp, IsATN, IsRecursive
  <2>2. Typed(q) /\ UnderWay(q) /\ Regroups(p, q)
    BY <1>4, <1>5, <2>1, PushFacts
  <2>3. q.thrown = "nothing"
    BY <1>1, <1>4, StillNothing DEF Typed
  <2> HIDE DEF q
  <2>4. InCalls(q, [calls EXCEPT ![Len(calls)] = Len(p.tree) + 1], left)
    BY <1>4, <1>5, <2>2, RegroupedInCalls DEF UnderWay
  <2>5. g.rule[s] = q.tree[q.ctx].rule
    BY <1>2, <1>4, <2>2 DEF Regroups
  <2> QED BY <1>2, <2>2, <2>3, <2>4, <2>5, GoToSound
<1>7. Sound(GoTo(p, s), left)
  BY <1>2, <1>4, <1>5, GoToSound
<1> QED BY <1>3, <1>6, <1>7

(* At the end of a rule nothing is under way but its return. *)
LEMMA AtStopFacts ==
  ASSUME IsSetUp, NEW left, Sound(parser, left), Visiting, AtStop
  PROVE  /\ Typed(parser) /\ UnderWay(parser) /\ parser.thrown = "nothing" /\ parser.alt = 0
         /\ parser.result = NoContext /\ parser.tree[parser.ctx].rule = g.rule[parser.state]
<1>1. Typed(parser) /\ UnderWay(parser) /\ parser.tree[parser.ctx].rule = g.rule[parser.state]
      /\ parser.result = NoContext /\ parser.thrown = "nothing"
  BY DEF Sound, Visiting, Running
<1>2. IsATN(g) /\ parser.state \in States
  BY <1>1, GrammarFacts DEF IsSetUp, UnderWay
<1>3. Len(g.out[parser.state]) = 0
  BY <1>2 DEF IsATN, States, AtStop
<1>4. parser.alt \in 0 .. 0
  BY <1>1, <1>3 DEF Typed, AltTyped
<1> QED BY <1>1, <1>4

(* The caller goes on behind its call. *)
LEMMA RuleStopStateSound ==
  ASSUME IsSetUp, NEW left, Sound(parser, left), VisitRuleStopState
  PROVE  Sound(parser', left)
<1> DEFINE p == parser
           m == Leave(p)
           s == g.out[m.state][1].follow
           q == [m EXCEPT !.state = s]
<1>1. /\ Typed(p) /\ UnderWay(p) /\ p.tree[p.ctx].rule = g.rule[p.state]
      /\ p.thrown = "nothing" /\ p.alt = 0 /\ p.result = NoContext
  BY AtStopFacts DEF VisitRuleStopState
<1>2. PICK calls : InCalls(p, calls, left)
  BY DEF Sound
<1>3. p.tree[p.ctx].invoking # NoState /\ parser' = q
  BY DEF VisitRuleStopState
<1>4. Departs(p, m)
  BY <1>1, <1>2, LeaveFacts
<1> DEFINE len  == Len(calls)
           more == SubSeq(calls, 1, len - 1)
<1>5. InCalls(m, more, left)
  <2>1. p.ctx # NoContext /\ Returns(p, m)
    BY <1>1, <1>4 DEF UnderWay, Departs
  <2> HIDE DEF m
  <2> QED BY <1>1, <1>2, <2>1, ReturnedInCalls
<1>6. len \in Nat /\ len \in 1 .. len /\ p.ctx = calls[len] /\ p.ctx \in 1 .. Len(p.tree)
  <2>1. p.ctx # NoContext
    BY <1>1 DEF UnderWay
  <2> QED BY <1>1, <1>2, <2>1, ChainFacts
<1>7. len # 1 /\ p.tree[p.ctx].parent = calls[len - 1] /\ calls[len - 1] \in 1 .. Len(p.tree)
  <2>1. len # 1
    <3>1. Invoked(p, calls, len)
      BY <1>1, <1>2, <1>6, InvokedByCalls
    <3> QED BY <1>3, <1>6, <3>1 DEF Invoked
  <2>2. len - 1 \in 1 .. len
    <3> DEFINE l == len
    <3>1. l \in Nat /\ l \in 1 .. l /\ l # 1
      BY <1>6, <2>1
    <3> HIDE DEF l
    <3>2. l - 1 \in 1 .. l
      BY <3>1
    <3> QED BY <3>2 DEF l
  <2> QED BY <1>1, <1>2, <1>6, <2>1, <2>2, ChainFacts, SMTT(60)
<1>8. s \in States /\ g.rule[s] = p.tree[calls[len - 1]].rule
  <2>1. m.state = p.tree[calls[len]].invoking
    BY <1>4, <1>6 DEF Departs
  <2> DEFINE i == len
             a == p.tree[calls[i]].invoking
  <2>2. i \in 1 .. Len(calls) /\ i # 1
    BY <1>6, <1>7
  <2>3. CallAt(a).follow \in States /\ g.rule[CallAt(a).follow] = g.rule[a]
        /\ g.rule[a] = p.tree[calls[i - 1]].rule
    <3> HIDE DEF i, p
    <3>1. Invoked(p, calls, i)
      BY <1>1, <1>2, <2>2, InvokedByCalls
    <3> HIDE DEF i
    <3> QED BY <2>2, <3>1 DEF Invoked
  <2>4. s = CallAt(a).follow
    BY <2>1 DEF CallAt
  <2> QED BY <2>3, <2>4
<1> HIDE DEF s, m
<1>9. /\ m.alt = 0 /\ m.thrown = "nothing" /\ m.result = NoContext /\ Shaped(m)
      /\ m.ctx = calls[len - 1] /\ m.ctx # NoContext /\ m.tree[m.ctx].rule = g.rule[s]
  BY <1>1, <1>4, <1>7, <1>8 DEF Departs, Returns, SameNodes, NoContext
<1>10. /\ DOMAIN q = DOMAIN m /\ q.state = s
       /\ \A f \in FieldNames \ {"state"} : q[f] = m[f]
  BY <1>9 DEF Shaped, FieldNames
<1> HIDE DEF q, more
<1>11. ThrownTyped(q)
  BY <1>9, <1>10 DEF Shaped, ThrownTyped, Bails, FieldNames
<1>12. AltTyped(q)
  <2>1. 0 \in 0 .. Len(g.out[s]) /\ 0 \in 0 .. 0
    BY <1>8, SetUpFacts
  <2>2. q.alt = 0
    BY <1>9, <1>10 DEF FieldNames
  <2> QED BY <1>10, <2>1, <2>2 DEF AltTyped
<1>13. Typed(q)
  BY <1>8, <1>9, <1>10, <1>11, <1>12 DEF Typed, Shaped, FieldNames, Maybe
<1>14. Chain(q, more) /\ Alike(m, more, q, more)
  BY <1>5, <1>10 DEF InCalls, Chain, Alike, FieldNames
<1>15. InCalls(q, more, left)
  BY <1>5, <1>14, AlikeInCalls
<1>16. UnderWay(q) /\ q.tree[q.ctx].rule = g.rule[q.state]
  BY <1>8, <1>9, <1>10 DEF UnderWay, FieldNames
<1> QED BY <1>3, <1>13, <1>15, <1>16 DEF Sound

(* The parse ends, with no context left. *)
LEMMA ReturnSound ==
  ASSUME IsSetUp, NEW left, Sound(parser, left), Return
  PROVE  Sound(parser', left)
<1> DEFINE p == parser
           m == Leave(p)
           r == IF StartRule \in g.precedenceRules THEN p.ctx ELSE p.root
           q == [m EXCEPT !.result = r]
<1>1. /\ Typed(p) /\ UnderWay(p) /\ p.tree[p.ctx].rule = g.rule[p.state]
      /\ p.thrown = "nothing" /\ p.alt = 0 /\ p.result = NoContext
  BY AtStopFacts DEF Return
<1>2. PICK calls : InCalls(p, calls, left)
  BY DEF Sound
<1>3. parser' = q
  BY DEF Return
<1>4. Departs(p, m)
  BY <1>1, <1>2, LeaveFacts
<1> DEFINE more == SubSeq(calls, 1, Len(calls) - 1)
<1>5. InCalls(m, more, left)
  <2>1. p.ctx # NoContext /\ Returns(p, m)
    BY <1>1, <1>4 DEF UnderWay, Departs
  <2> HIDE DEF m
  <2> QED BY <1>1, <1>2, <2>1, ReturnedInCalls
<1>6. r \in 1 .. Len(p.tree)
  BY <1>1 DEF Typed, Shaped, IsTree, UnderWay, NoContext
<1> HIDE DEF m, r
<1>7. /\ m.alt = 0 /\ m.thrown = "nothing" /\ m.result = NoContext /\ Shaped(m)
      /\ Len(m.tree) = Len(p.tree)
  BY <1>1, <1>4 DEF Departs, Returns, SameNodes
<1>8. /\ DOMAIN q = DOMAIN m /\ q.result = r
      /\ \A f \in FieldNames \ {"result"} : q[f] = m[f]
  BY <1>7 DEF Shaped, FieldNames
<1> HIDE DEF q, more
<1>9. r # NoContext /\ r \in 0 .. Len(m.tree)
  BY <1>6, <1>7 DEF NoContext
<1>10. ThrownTyped(q)
  BY <1>7, <1>8 DEF Shaped, ThrownTyped, FieldNames
<1>11. AltTyped(q)
  BY <1>7, <1>8, <1>9 DEF AltTyped, FieldNames
<1>12. Typed(q)
  BY <1>7, <1>8, <1>9, <1>10, <1>11 DEF Typed, Shaped, FieldNames
<1>13. Chain(q, more) /\ Alike(m, more, q, more)
  BY <1>5, <1>8 DEF InCalls, Chain, Alike, FieldNames
<1>14. InCalls(q, more, left)
  BY <1>5, <1>13, AlikeInCalls
<1> QED BY <1>3, <1>8, <1>9, <1>12, <1>14 DEF Sound

(* The handler goes on at the end of its own rule. *)
LEMMA HandledSound ==
  ASSUME IsSetUp, NEW left, Sound(parser, left), HandleException
  PROVE  Sound(parser', left)
<1> DEFINE p == parser
           q == Handled(p)
<1>1. Typed(p) /\ UnderWay(p) /\ p.tree[p.ctx].rule = g.rule[p.state] /\ p.thrown # "cancelled"
      /\ parser' = q
  BY DEF Sound, HandleException, Running
<1>2. Typed(q) /\ UnderWay(q) /\ SameCalls(p, q) /\ q.state = g.stop[g.rule[p.state]]
  BY <1>1, HandledKeeps
<1> HIDE DEF q
<1>3. PICK calls : InCalls(p, calls, left)
  BY DEF Sound
<1>4. InCalls(q, calls, left)
  BY <1>1, <1>2, <1>3, SameInCalls
<1>5. g.rule[q.state] = g.rule[p.state]
  BY <1>1, <1>2, GrammarFacts DEF IsSetUp, IsATN, UnderWay, States
<1>6. q.tree[q.ctx].rule = p.tree[p.ctx].rule
  <2>1. p.ctx \in 1 .. Len(p.tree)
    BY <1>1 DEF Typed, Shaped, IsTree, UnderWay, NoContext
  <2> QED BY <1>2, <2>1 DEF SameCalls, SameNodes
<1> QED BY <1>1, <1>2, <1>4, <1>5, <1>6 DEF Sound

-----------------------------------------------------------------------------
(* The other visits. *)

(* Synchronise, and predict. *)
LEMMA DecisionSound ==
  ASSUME PredictsAlternatives, IsParsing, NEW left, Sound(parser, left), VisitDecisionState
  PROVE  Sound(parser', left)
<1> DEFINE q == Sync(parser)
<1>1. IsSetUp /\ parser.result = NoContext /\ Len(g.out[parser.state]) > 1
  BY ParsingIsSetUp DEF VisitDecisionState, IsDecision, Visiting, Running
<1>2. Keeps(parser, q)
  BY <1>1, SyncKeeps
<1>3. parser' = IF q.thrown # "nothing" THEN q ELSE Predicted(q)
  BY DEF VisitDecisionState
<1> HIDE DEF q
<1>4. Sound(q, left) /\ q.result = NoContext /\ q.state = parser.state
  BY <1>1, <1>2, KeepsSound DEF Sound, Keeps
<1>5. q.thrown = "nothing" => Sound(Predicted(q), left)
  <2> SUFFICES ASSUME q.thrown = "nothing" PROVE Sound(Predicted(q), left)
    OBVIOUS
  <2>1. Keeps(q, Predicted(q))
    BY <1>1, <1>4, PredictedKeeps
  <2> QED BY <1>4, <2>1, KeepsSound
<1> QED BY <1>3, <1>4, <1>5

(* Match a token, a set or anything, or recover. *)
LEMMA MatchingSound ==
  ASSUME IsSetUp, NEW left, Sound(parser, left), VisitAtom \/ VisitSet \/ VisitWildcard
  PROVE  Sound(parser', left)
<1> DEFINE p == parser
           s == Transition.target
           r == IF LA(p, 1) \in Transition.label THEN p ELSE RecoverInline(p)
<1>1. Visiting /\ ~AtStop /\ Transition.kind # "rule"
  BY DEF VisitAtom, VisitSet, VisitWildcard, Visits
<1>2. s \in States /\ g.rule[s] = g.rule[p.state] /\ p.result = NoContext
  BY <1>1, TransitionFacts
<1>3. CASE VisitAtom
  <2>1. PICK ttype \in Transition.label : parser' = GoTo(Match(p, ttype), s)
    BY <1>3 DEF VisitAtom
  <2> HIDE DEF s
  <2> QED BY <1>2, <2>1, MatchKeeps, GoesOnSound
<1>4. CASE VisitWildcard
  <2>1. parser' = GoTo(MatchWildcard(p), s)
    BY <1>4 DEF VisitWildcard
  <2> HIDE DEF s
  <2> QED BY <1>2, <2>1, MatchKeeps, GoesOnSound
<1>5. CASE VisitSet
  <2>1. parser' = GoTo(IF r.thrown # "nothing" THEN r ELSE MatchWildcard(r), s)
    BY <1>5 DEF VisitSet
  <2>2. Keeps(p, r)
    BY RecoverInlineKeeps, KeepsSame
  <2> HIDE DEF s, r
  <2>3. Keeps(p, MatchWildcard(r))
    BY <2>2, MatchKeeps, KeepsTwice
  <2>4. Keeps(p, IF r.thrown # "nothing" THEN r ELSE MatchWildcard(r))
    BY <2>2, <2>3
  <2> QED BY <1>2, <2>1, <2>4, GoesOnSound
<1> QED BY <1>3, <1>4, <1>5

(* Predicates and actions. *)
LEMMA PassingSound ==
  ASSUME IsSetUp, NEW left, Sound(parser, left), VisitPredicate \/ VisitPrecedence \/ VisitAction
  PROVE  Sound(parser', left)
<1> DEFINE p == parser
           s == Transition.target
           e == "failed predicate"
           r == Throw(p, e, p.state, p.ctx)
<1>1. Visiting /\ ~AtStop /\ Transition.kind # "rule"
  BY DEF VisitPredicate, VisitPrecedence, VisitAction, Visits
<1>2. s \in States /\ g.rule[s] = g.rule[p.state] /\ p.result = NoContext
  BY <1>1, TransitionFacts
<1>3. Keeps(p, p) /\ Keeps(p, r)
  <2>1. e # "nothing" /\ e # "cancelled"
    OBVIOUS
  <2>2. UnderWay(p) /\ Typed(p) => p.state \in States /\ p.ctx \in 1 .. Len(p.tree)
    BY DEF Typed, Shaped, IsTree, UnderWay, NoContext
  <2> HIDE DEF e
  <2> QED BY <2>1, <2>2, ThrowKeeps, KeepsSame
<1>4. parser' = GoTo(p, s) \/ parser' = GoTo(r, s)
  BY Zenon DEF VisitPredicate, VisitPrecedence, VisitAction, s, r, e
<1> HIDE DEF s, r
<1> QED BY <1>2, <1>3, <1>4, GoesOnSound

-----------------------------------------------------------------------------
(* The start of a parse. *)

(* q has the start rule's context behind those in tree, and above left. *)
Root == NewContext(StartRule, NoContext, NoState, 0)
Starts(q, tree, left) ==
  /\ FieldNames \subseteq DOMAIN q
  /\ q.tree = Append(tree, Root)
  /\ q.root = Len(tree) + 1 /\ q.ctx = Len(tree) + 1 /\ q.result = NoContext
  /\ q.index = 0 /\ q.state = g.start[StartRule] /\ q.alt = 0 /\ q.lastErrorIndex = -1
  /\ ~q.matchedEOF
  /\ q.thrown = "nothing" /\ q.offendingState = NoState /\ q.offendingContext = NoContext
  /\ q.nextTokensContext \in 0 .. Len(tree)
  /\ q.nextTokensContext # NoContext => q.nextTokensState \in States
  /\ IF StartRule \in g.precedenceRules
     THEN /\ q.precedenceStack = <<0, 0>>
          /\ q.parentContextStack = <<[ctx |-> NoContext, state |-> NoState]>> \o left
     ELSE q.precedenceStack = <<0>> /\ q.parentContextStack = left

(* The start rule's context is the only call. *)
LEMMA StartsSound ==
  ASSUME IsSetUp, NEW tree, IsTree(tree), NEW left \in Seq(Parents),
         NEW q, Starts(q, tree, left)
  PROVE  Sound(q, left)
<1> DEFINE n     == Len(tree)
           rec   == StartRule \in g.precedenceRules
           outer == [ctx |-> NoContext, state |-> NoState]
           calls == <<n + 1>>
<1>1. /\ IsATN(g) /\ g.start[StartRule] \in States /\ g.rule[g.start[StartRule]] = StartRule
      /\ StartRule \in DOMAIN g.start
  BY GrammarFacts DEF IsSetUp, IsATN, States, StartRule
<1>2. n \in Nat /\ 0 \in Places /\ -1 \in Places /\ NoContext \in 0 .. n + 1
  BY SetUpFacts DEF IsTree, Places, Undefined, NoContext
<1>3. Root \in Contexts(n + 1)
  <2> DEFINE up == n + 1
  <2>1. up \in Nat /\ NoContext \in 0 .. up /\ NoState \in Maybe(States)
    BY <1>2 DEF Maybe
  <2> HIDE DEF up
  <2>2. NewContext(StartRule, NoContext, NoState, 0) \in Contexts(up)
    BY <1>1, <1>2, <2>1, NewContextTyped
  <2> QED BY <2>2 DEF Root, up
<1>4. IsTree(q.tree) /\ Len(q.tree) = n + 1 /\ q.tree[n + 1] = Root
  BY <1>3, TreeGrows DEF Starts
<1>5. /\ q.tree[n + 1].rule = StartRule /\ q.tree[n + 1].parent = NoContext
      /\ q.tree[n + 1].invoking = NoState
  BY <1>4 DEF Root, NewContext
<1>6. /\ q.precedenceStack \in Seq(Nat)
      /\ Len(q.precedenceStack) = IF rec THEN 2 ELSE 1
      /\ \A i \in 1 .. Len(q.precedenceStack) : q.precedenceStack[i] = 0
  <2>1. q.precedenceStack = IF rec THEN <<0, 0>> ELSE <<0>>
    BY DEF Starts
  <2>2. /\ <<0, 0>> \in Seq(Nat) /\ Len(<<0, 0>>) = 2 /\ \A i \in 1 .. 2 : <<0, 0>>[i] = 0
        /\ <<0>> \in Seq(Nat) /\ Len(<<0>>) = 1 /\ \A i \in 1 .. 1 : <<0>>[i] = 0
    OBVIOUS
  <2> QED BY <2>1, <2>2
<1>7. /\ q.parentContextStack \in Seq(Parents)
      /\ rec => /\ Len(q.parentContextStack) = Len(left) + 1
                /\ q.parentContextStack[1] = outer
                /\ SubSeq(q.parentContextStack, 2, Len(q.parentContextStack)) = left
      /\ ~rec => q.parentContextStack = left
                 /\ SubSeq(q.parentContextStack, 1, Len(q.parentContextStack)) = left
      /\ Len(left) \in Nat
  <2>1. outer \in Parents
    BY DEF Parents, NoContext, Maybe
  <2> DEFINE P == Parents
  <2>2. outer \in P /\ left \in Seq(P)
    BY <2>1
  <2>3. IF rec THEN q.parentContextStack = <<outer>> \o left ELSE q.parentContextStack = left
    BY DEF Starts
  <2> HIDE DEF outer, P
  <2>4. Len(left) \in Nat /\ 1 \in 1 .. Len(left) + 1
    BY <2>2
  <2>5. SubSeq(left, 1, Len(left)) = left
    BY <2>2
  <2>6. CASE rec
    <3>1. /\ <<outer>> \o left \in Seq(P) /\ Len(<<outer>> \o left) = Len(left) + 1
          /\ (<<outer>> \o left)[1] = outer
          /\ SubSeq(<<outer>> \o left, 1 + 1, Len(left) + 1) = SubSeq(left, 1, Len(left))
      BY <2>2, <2>4, SubSeqOfPush
    <3> DEFINE s == <<outer>> \o left
    <3>2. s \in Seq(P) /\ Len(s) = Len(left) + 1 /\ s[1] = outer /\ SubSeq(s, 2, Len(s)) = left
      <4>1. 1 + 1 = 2
        OBVIOUS
      <4> QED BY <2>5, <3>1, <4>1
    <3> HIDE DEF s
    <3>3. q.parentContextStack = s
      BY <2>3, <2>6 DEF s
    <3> QED BY <2>4, <2>6, <3>2, <3>3 DEF P
  <2>7. CASE ~rec
    BY <2>2, <2>3, <2>4, <2>5, <2>7 DEF P
  <2> QED BY <2>6, <2>7
<1>8. Typed(q)
  <2>1. ThrownTyped(q)
    BY DEF Starts, ThrownTyped
  <2>2. AltTyped(q)
    <3>1. 0 \in 0 .. Len(g.out[g.start[StartRule]]) /\ 0 \in 0 .. 0
      BY <1>1, SetUpFacts
    <3> QED BY <3>1 DEF Starts, AltTyped
  <2>3. n + 1 \in 1 .. n + 1 /\ n + 1 \in 0 .. n + 1 /\ 0 \in 0 .. Len(input)
        /\ \A i \in 0 .. n : i \in 0 .. n + 1
    BY <1>2, SetUpFacts
  <2> HIDE DEF n
  <2> QED BY <1>1, <1>2, <1>4, <1>6, <1>7, <2>1, <2>2, <2>3
          DEF Starts, Typed, Shaped, Parents, Maybe, n
<1>9. calls \in Seq(1 .. n + 1) /\ Len(calls) = 1 /\ calls[1] = n + 1
  <2> DEFINE e == n + 1
  <2>1. e \in 1 .. e
    BY <1>2
  <2> HIDE DEF e
  <2> QED BY <2>1 DEF e
<1> HIDE DEF calls
<1>10. Chain(q, calls)
  <2>1. q.ctx = n + 1
    BY DEF Starts
  <2>2. \A i \in 1 .. Len(calls) : i = 1
    BY <1>9
  <2> HIDE DEF n
  <2>3. calls # <<>> /\ Len(calls) <= n + 1
    <3>1. Len(<<>>) = 0 /\ Len(calls) # 0
      BY <1>9
    <3>2. 1 <= n + 1
      BY <1>2
    <3> QED BY <1>9, <3>1, <3>2
  <2> QED BY <1>4, <1>5, <1>9, <2>1, <2>2, <2>3 DEF Chain
<1>11. /\ IsRecursive(q, calls[1]) <=> rec
       /\ Nested(q, calls, 1) = IF rec THEN 1 ELSE 0
  <2>1. IsRecursive(q, calls[1]) <=> rec
    BY <1>5, <1>9 DEF IsRecursive
  <2>2. 0 \in Nat /\ 0 + 1 = 1
    OBVIOUS
  <2>3. /\ Nested(q, calls, 0) = 0
        /\ Nested(q, calls, 0 + 1) =
             Nested(q, calls, 0) + IF IsRecursive(q, calls[0 + 1]) THEN 1 ELSE 0
    BY <2>2, NestedCounts
  <2> QED BY <2>1, <2>2, <2>3
<1>12. WasCalled(q, calls[1])
  BY <1>5, <1>9 DEF WasCalled
<1>13. rec => HasEntry(q, calls[1], 1)
  BY <1>5, <1>7, <1>9 DEF HasEntry, Starts
<1>14. Len(q.precedenceStack) = Nested(q, calls, 1) + 1
       /\ q.precedenceStack[Nested(q, calls, 1) + 1] = 0
  BY <1>6, <1>11
<1>15. SubSeq(q.parentContextStack, Nested(q, calls, 1) + 1, Len(q.parentContextStack)) = left
  BY <1>7, <1>11
<1>16. AreCalls(q, calls, left)
  <2>1. \A i \in 1 .. Len(calls) : i = 1
    BY <1>9
  <2>2. rec => Nested(q, calls, 1) + 1 - Nested(q, calls, 1) = 1
    BY <1>11
  <2>3. \A i \in 1 .. Len(calls) :
          IsRecursive(q, calls[i]) =>
            HasEntry(q, calls[i], Nested(q, calls, Len(calls)) + 1 - Nested(q, calls, i))
    BY <1>9, <1>11, <1>13, <2>1, <2>2
  <2> QED BY <1>9, <1>12, <1>14, <1>15, <2>1, <2>3, PartsOfCalls
<1>17. InCalls(q, calls, left)
  BY <1>7, <1>9, <1>10, <1>11, <1>16 DEF InCalls
<1>18. UnderWay(q) /\ q.tree[q.ctx].rule = g.rule[q.state]
  BY <1>1, <1>2, <1>4, <1>5 DEF Starts, UnderWay, NoContext
<1> QED BY <1>8, <1>17, <1>18 DEF Sound

(* A new parser. *)
LEMMA FreshStarts ==
  ASSUME IsSetUp, parser = Fresh
  PROVE  IsTree(<<>>) /\ <<>> \in Seq(Parents) /\ Starts(parser, <<>>, <<>>)
<1> DEFINE outer == [ctx |-> NoContext, state |-> NoState]
<1>1. IsTree(<<>>) /\ <<>> \in Seq(Parents)
  <2> DEFINE C == Contexts(0)
  <2>1. <<>> \in Seq(C) /\ Len(<<>>) = 0 /\ 0 \in Nat
    OBVIOUS
  <2> QED BY <2>1 DEF IsTree
<1>2. <<outer>> = <<outer>> \o <<>>
  <2> HIDE DEF outer
  <2> QED OBVIOUS
<1>3. Append(<<>>, Root) = <<Root>>
  OBVIOUS
<1>4. Starts(parser, <<>>, <<>>)
  BY <1>2, <1>3 DEF Starts, Fresh, FieldNames, Root, NoContext
<1> QED BY <1>1, <1>4

LEMMA FreshSound ==
  ASSUME IsSetUp, parser = Fresh
  PROVE  Sound(parser, <<>>)
BY FreshStarts, StartsSound

(* One that was reset, upon what an earlier parse left on the stack. *)
LEMMA ResetStarts ==
  ASSUME IsSetUp, NEW left, Sound(parser, left), NEW handler
  PROVE  /\ IsTree(parser.tree) /\ parser.parentContextStack \in Seq(Parents)
         /\ Starts(Reset(parser, handler), parser.tree, parser.parentContextStack)
<1> DEFINE p     == parser
           q     == Reset(p, handler)
           outer == [ctx |-> NoContext, state |-> NoState]
           above == p.parentContextStack
           rec   == StartRule \in g.precedenceRules
<1>1. /\ IsTree(p.tree) /\ above \in Seq(Parents) /\ Len(p.tree) \in Nat
      /\ p.nextTokensContext \in 0 .. Len(p.tree)
      /\ p.nextTokensContext # NoContext => p.nextTokensState \in States
  BY DEF Sound, Typed, Shaped, Parents, IsTree
<1>2. p.tree \o <<Root>> = Append(p.tree, Root)
  <2> DEFINE C == Contexts(Len(p.tree))
  <2>1. p.tree \in Seq(C)
    BY <1>1 DEF IsTree
  <2> HIDE DEF C
  <2> QED BY <2>1
<1>3. <<>> \o above = above
  <2> DEFINE P == Parents
  <2>1. above \in Seq(P)
    BY <1>1
  <2> HIDE DEF P, above
  <2> QED BY <2>1
<1> DEFINE Kept == {"tree", "root", "ctx", "parentContextStack", "handler",
                    "nextTokensContext", "nextTokensState"}
<1>4. /\ DOMAIN q = DOMAIN Fresh
      /\ q.tree = p.tree \o Fresh.tree /\ q.root = Len(p.tree) + 1 /\ q.ctx = Len(p.tree) + 1
      /\ q.parentContextStack = Fresh.parentContextStack \o above
      /\ q.nextTokensContext = IF handler = "kept" THEN p.nextTokensContext ELSE NoContext
      /\ q.nextTokensState = IF handler = "kept" THEN p.nextTokensState ELSE NoState
      /\ \A f \in FieldNames \ Kept : q[f] = Fresh[f]
  BY DEF Reset, Fresh, FieldNames
<1> HIDE DEF q
<1>5. /\ FieldNames \subseteq DOMAIN Fresh
      /\ Fresh.tree = <<Root>> /\ Fresh.index = 0 /\ Fresh.state = g.start[StartRule]
      /\ Fresh.alt = 0 /\ Fresh.result = NoContext /\ Fresh.lastErrorIndex = -1
      /\ Fresh.thrown = "nothing" /\ Fresh.offendingState = NoState
      /\ Fresh.offendingContext = NoContext /\ ~Fresh.matchedEOF
      /\ Fresh.precedenceStack = IF rec THEN <<0, 0>> ELSE <<0>>
      /\ Fresh.parentContextStack = IF rec THEN <<outer>> ELSE <<>>
  BY DEF Fresh, FieldNames, Root
<1>6. /\ ~q.matchedEOF /\ q.result = NoContext /\ q.index = 0 /\ q.state = g.start[StartRule] /\ q.alt = 0
      /\ q.lastErrorIndex = -1 /\ q.thrown = "nothing" /\ q.offendingState = NoState
      /\ q.offendingContext = NoContext
      /\ q.precedenceStack = IF rec THEN <<0, 0>> ELSE <<0>>
  <2> HIDE DEF rec
  <2> QED BY <1>4, <1>5 DEF FieldNames
<1>7. NoContext \in 0 .. Len(p.tree)
  BY <1>1 DEF NoContext
<1>8. Starts(q, p.tree, above)
  <2> HIDE DEF above, p, outer
  <2> QED BY <1>1, <1>2, <1>3, <1>4, <1>5, <1>6, <1>7 DEF Starts, outer
<1> QED BY <1>1, <1>8 DEF q

LEMMA ResetSound ==
  ASSUME IsSetUp, NEW left, Sound(parser, left), NEW handler
  PROVE  Sound(Reset(parser, handler), parser.parentContextStack)
BY ResetStarts, StartsSound

-----------------------------------------------------------------------------
(* The theorems. *)

IsSound ==
  /\ IsParsing /\ (\E S : ended \in Seq(S))
  /\ Sound(parser, LeftBefore)

(* The invariant holds at first. *)
LEMMA InitSound == Init => IsSound
<1> SUFFICES ASSUME Init PROVE IsSound
  OBVIOUS
<1>1. IsParsing /\ ended = <<>> /\ parser = Fresh
  BY DEF Init, IsParsing
<1>2. ended \in Seq({})
  BY <1>1
<1>3. LeftBefore = <<>>
  BY <1>1 DEF LeftBefore
<1>4. Sound(parser, LeftBefore)
  BY <1>1, <1>3, FreshSound, ParsingIsSetUp
<1> QED BY <1>1, <1>2, <1>4 DEF IsSound

(* Every visit keeps it. *)
LEMMA VisitSound ==
  ASSUME PredictsAlternatives, IsParsing, NEW left, Sound(parser, left), Visit
  PROVE  Sound(parser', left)
<1>1. IsSetUp
  BY ParsingIsSetUp
<1> QED BY <1>1, DecisionSound, MatchingSound, PassingSound, RuleSound, EpsilonSound,
           RuleStopStateSound, ReturnSound, HandledSound DEF Visit

(* It is about the grammar and the input only as they are. *)
LEMMA SoundAgain ==
  ASSUME g' = g, input' = input, Sound(parser', LeftBefore')
  PROVE  Sound(parser, LeftBefore)'
<1> DEFINE q == parser'
           left == LeftBefore'
<1>1. States' = States /\ Places' = Places
  BY DEF States, Places
<1>2. Typed(parser)'
  BY <1>1, Zenon DEF Sound, Typed, Shaped, AltTyped, ThrownTyped, IsTree, Contexts,
                     Children, Maybe, Bails
<1>3. (\E calls : InCalls(parser, calls, LeftBefore))'
  <2>1. PICK calls : InCalls(parser', calls, LeftBefore')
    BY DEF Sound
  <2>2. Chain(parser, calls)'
    BY <2>1, Zenon DEF InCalls, Chain
  <2>3. \A c : IsRecursive(parser, c)' <=> IsRecursive(parser', c)
    BY DEF IsRecursive
  <2>4. \A s : CallAt(s)' = CallAt(s)
    BY DEF CallAt
  <2>5. \A i : Nested(parser, calls, i)' = Nested(parser', calls, i)
    BY <2>3, Zenon DEF Nested
  <2>6. AreCalls(parser, calls, LeftBefore)'
    BY <2>1, <2>3, <2>4, <2>5, ZenonT(60) DEF InCalls, AreCalls
  <2>7. (Len(parser.parentContextStack) >= Nested(parser, calls, Len(calls)))'
    <3>1. Len(parser'.parentContextStack) >= Nested(parser', calls, Len(calls))
      BY <2>1, Zenon DEF InCalls
    <3> QED BY <2>5, <3>1, Zenon
  <2> QED BY <2>2, <2>6, <2>7 DEF InCalls
<1>4. (parser.result = NoContext =>
         UnderWay(parser) /\ parser.tree[parser.ctx].rule = g.rule[parser.state])'
  BY <1>1, Zenon DEF Sound, UnderWay
<1> QED BY <1>2, <1>3, <1>4 DEF Sound

(* The next parse starts with it. *)
LEMMA ParseAgainSound ==
  ASSUME IsSound, ParseAgain
  PROVE  IsSound'
<1>1. IsSetUp /\ g' = g /\ input' = input /\ ended' = Append(ended, Outcome(parser))
  BY ParsingIsSetUp DEF IsSound, ParseAgain
<1>2. PICK S : ended \in Seq(S)
  BY DEF IsSound
<1>3. ended' \in Seq(S \cup {Outcome(parser)}) /\ ended' # <<>>
      /\ ended'[Len(ended')] = Outcome(parser)
  <2> DEFINE o == Outcome(parser)
             T == S \cup {o}
  <2>1. ended \in Seq(T) /\ o \in T
    <3> HIDE DEF o
    <3> QED BY <1>2
  <2> HIDE DEF o, T
  <2>2. Append(ended, o) \in Seq(T) /\ Append(ended, o) # <<>>
        /\ Append(ended, o)[Len(Append(ended, o))] = o
    BY <2>1
  <2> QED BY <1>1, <2>2 DEF o, T
<1>4. LeftBefore' = parser.parentContextStack
  BY <1>3 DEF LeftBefore, Outcome
<1>5. PICK h : parser' = Reset(parser, h)
  BY Zenon DEF ParseAgain
<1>6. Sound(Reset(parser, h), parser.parentContextStack)
  BY <1>1, ResetSound DEF IsSound
<1>7. Sound(parser', LeftBefore')
  BY <1>4, <1>5, <1>6, Zenon
<1> QED BY <1>1, <1>3, <1>7, SoundAgain DEF IsSound, IsParsing

(* Every step keeps it. *)
LEMMA NextSound ==
  ASSUME PredictsAlternatives
  PROVE  IsSound /\ [Next]_vars => IsSound'
<1> SUFFICES ASSUME IsSound, [Next]_vars PROVE IsSound'
  OBVIOUS
<1>1. CASE Visit /\ UNCHANGED <<g, input, handlers, ended>>
  <2> DEFINE left == LeftBefore
  <2>1. IsParsing /\ Sound(parser, left)
    BY DEF IsSound
  <2>2. LeftBefore' = left
    BY <1>1 DEF LeftBefore
  <2> HIDE DEF left
  <2>3. Sound(parser', left)
    BY <1>1, <2>1, VisitSound
  <2>4. Sound(parser', LeftBefore')
    BY <2>2, <2>3
  <2> QED BY <1>1, <2>4, SoundAgain DEF IsSound, IsParsing
<1>2. CASE ParseAgain
  BY <1>2, ParseAgainSound
<1>3. CASE UNCHANGED vars
  <2>1. LeftBefore' = LeftBefore /\ parser' = parser
    BY <1>3 DEF vars, LeftBefore
  <2>2. Sound(parser', LeftBefore')
    BY <2>1 DEF IsSound
  <2> QED BY <1>3, <2>2, SoundAgain DEF IsSound, IsParsing, vars
<1> QED BY <1>1, <1>2, <1>3 DEF Next

(* The types are a part of it. *)
LEMMA SoundIsTypeOK ==
  ASSUME IsSound
  PROVE  TypeOK
<1> DEFINE p == parser
           n == Len(p.tree)
<1>1. Typed(p) /\ Shaped(p) /\ IsSetUp
  BY ParsingIsSetUp DEF IsSound, Sound, Typed
<1>2. PICK calls : InCalls(p, calls, LeftBefore)
  BY DEF IsSound, Sound
<1>3. p.precedenceStack \in Seq(Nat) /\ p.precedenceStack # <<>>
  BY <1>1, <1>2, StackIsNotEmpty
<1>4. Running <=> p.result = NoContext /\ p.thrown # "cancelled"
  BY DEF Running
<1>5. n \in Nat /\ Nodes = 1 .. n /\ \A c \in 1 .. n : p.tree[c] \in Contexts(n)
  BY <1>1 DEF Shaped, IsTree, Nodes
<1>6. Running => p.ctx # NoContext /\ p.state # NoState
  BY <1>1, <1>4, SetUpFacts DEF IsSound, Sound, UnderWay
<1>7. /\ p.index \in 0 .. Len(input) /\ p.lastErrorIndex \in Places
      /\ p.state \in DOMAIN g.type \cup {NoState}
      /\ p.ctx \in Nodes \cup {NoContext} /\ p.nextTokensContext \in Nodes \cup {NoContext}
  BY <1>1, <1>5 DEF Shaped, Maybe, States, NoContext
<1>8. p.alt \in 0 .. (IF Running THEN Len(g.out[p.state]) ELSE 0)
  BY <1>1, <1>4 DEF Typed, AltTyped
<1>9. IF p.thrown = "nothing"
      THEN p.offendingState = NoState /\ p.offendingContext = NoContext
      ELSE IF p.thrown = "cancelled" THEN Bails(p) /\ p.result = NoContext
      ELSE Running /\ p.offendingState \in DOMAIN g.type /\ p.offendingContext \in Nodes
  BY <1>1, <1>4, <1>5 DEF Shaped, ThrownTyped, States
<1>10. ASSUME NEW c \in Nodes
       PROVE  /\ Node(c).parent \in Nodes \cup {NoContext}
              /\ Node(c).start \in Places /\ Node(c).stop \in Places
              /\ \A i \in DOMAIN Node(c).children :
                   LET child == Node(c).children[i] IN
                   \/ child.kind = "rule" /\ child.at \in Nodes
                   \/ child.kind = "terminal" /\ child.at \in 0 .. Len(input)
                   \/ child.kind = "error" /\ child.at \in Places
  <2>1. Node(c) = p.tree[c] /\ p.tree[c] \in Contexts(n)
    BY <1>5 DEF Node
  <2>2. /\ Node(c).parent \in 0 .. n /\ Node(c).start \in Places /\ Node(c).stop \in Places
        /\ Node(c).children \in Seq(Children(n))
    BY <2>1 DEF Contexts
  <2>3. \A i \in DOMAIN Node(c).children : Node(c).children[i] \in Children(n)
    BY <2>2
  <2>4. \A child \in Children(n) :
          \/ child.kind = "rule" /\ child.at \in Nodes
          \/ child.kind = "terminal" /\ child.at \in 0 .. Len(input)
          \/ child.kind = "error" /\ child.at \in Places
    BY <1>5 DEF Children
  <2>5. 0 .. n \subseteq Nodes \cup {NoContext}
    BY <1>5 DEF NoContext
  <2> HIDE DEF n
  <2> QED BY <2>2, <2>3, <2>4, <2>5
<1> QED BY <1>3, <1>6, <1>7, <1>8, <1>9, <1>10, Zenon DEF TypeOK

(* The calls of the invariant are those that the contexts show. *)
LEMMA SoundIsContextsAreCalls ==
  ASSUME IsSound
  PROVE  ContextsAreCalls
<1> DEFINE p == parser
           up == Upwards(p, p.ctx)
<1>1. Typed(p) /\ Len(p.tree) \in Nat
  BY DEF IsSound, Sound, Typed, Shaped, IsTree
<1>2. PICK calls : InCalls(p, calls, LeftBefore)
  BY DEF IsSound, Sound
<1> DEFINE len == Len(calls)
<1>3. len \in Nat /\ \E S : calls \in Seq(S)
  BY <1>1, <1>2, ChainFacts
<1>4. up = [k \in 1 .. len |-> calls[len + 1 - k]]
  BY <1>1, <1>2, UpwardsAreCalls DEF InCalls
<1>5. Active = [i \in DOMAIN up |-> up[Len(up) + 1 - i]]
  BY DEF Active
<1> HIDE DEF up
<1>6. DOMAIN up = 1 .. len /\ Len(up) = len
  <2> HIDE DEF len
  <2> QED BY <1>3, <1>4
<1>7. \A i \in 1 .. len : up[len + 1 - i] = calls[i]
  <2> HIDE DEF len
  <2> TAKE i \in 1 .. len
  <2>1. len + 1 - i \in 1 .. len /\ len + 1 - (len + 1 - i) = i
    BY <1>3
  <2> QED BY <1>4, <2>1
<1>8. Active = [i \in 1 .. len |-> calls[i]]
  <2> HIDE DEF len
  <2> QED BY <1>5, <1>6, <1>7
<1>9. Active = calls
  BY <1>3, <1>8
<1>10. AreCalls(p, Active, LeftBefore)
  BY <1>2, <1>9 DEF InCalls
<1>11. Running => Node(p.ctx).rule = g.rule[p.state]
  BY DEF IsSound, Sound, Running, Node
<1> QED BY <1>10, <1>11 DEF ContextsAreCalls

(* The fields keep their types, whatever was matched, mended or thrown:   *)
(* the cursor stays within the input, every context, child and offending  *)
(* state exists, and no exception is left over. It takes predictions that *)
(* give alternatives of their decisions (ParserInterpreter.ts,            *)
(* DefaultErrorStrategy.ts).                                              *)
THEOREM ParserTypes == ASSUME PredictsAlternatives PROVE Spec => []TypeOK
BY InitSound, NextSound, SoundIsTypeOK, PTL DEF Spec

(* The contexts from the current one up are the calls under way, and the  *)
(* stacks of the left-recursive rules hold what each of those was called  *)
(* with and where it returns to (Parser.enterRecursionRule,               *)
(* pushNewRecursionContext, unrollRecursionContexts).                     *)
THEOREM ContextsAreAlwaysCalls == ASSUME PredictsAlternatives PROVE Spec => []ContextsAreCalls
BY InitSound, NextSound, SoundIsContextsAreCalls, PTL DEF Spec
===========================================================================
