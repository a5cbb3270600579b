------------------------- MODULE ParserTreeProofs --------------------------
(***************************************************************************)
(* LeavesAreInput and NodesSpanLeaves of ParserInterpreter, for every      *)
(* grammar, input, error strategy and number of parses.                    *)
(*                                                                         *)
(* The tokens that a parse has taken are counted from 0 on, EOF each time  *)
(* it is taken again.  A node that is complete has a span of them (G), in  *)
(* which each child follows the one before; a context under way has the    *)
(* number it began at (at), and its children so far lead to where the next *)
(* context under way began, or, if it is the current one, to the number of *)
(* tokens taken (Laid).  So the tree of a finished parse spells the input; *)
(* that what Leaves reads off the tree is this spelling is shown along the *)
(* order in which the nodes were completed (rank).                         *)
(***************************************************************************)
EXTENDS ParserInterpreterProofs

-----------------------------------------------------------------------------
(* Children that follow one another. *)

(* The place in the input of the n-th token taken: behind the last is EOF. *)
Clamp(n) == IF n < Len(input) THEN n ELSE Len(input)

Leads(G, child, a, b) ==
  IF child.kind = "rule"
  THEN child.at \in DOMAIN G /\ G[child.at].from = a /\ G[child.at].to = b
  ELSE IF child.at = Conjured THEN b = a
  ELSE child.at = Clamp(a) /\ b = a + 1

(* The first k children lead from the a-th token to the b-th. *)
Spells(G, children, k, a, b) ==
  \E m \in [0 .. k -> Nat] :
    m[0] = a /\ m[k] = b /\ \A i \in 1 .. k : Leads(G, children[i], m[i - 1], m[i])

Widens(G, H) == \A c \in DOMAIN G : c \in DOMAIN H /\ H[c] = G[c]

(* No child leads nowhere. *)
LEMMA SpellsNothing ==
  ASSUME NEW G, NEW children, NEW a \in Nat
  PROVE  Spells(G, children, 0, a, a)
<1> DEFINE m == [j \in 0 .. 0 |-> a]
<1>1. m \in [0 .. 0 -> Nat] /\ m[0] = a
  OBVIOUS
<1>2. \A i \in 1 .. 0 : Leads(G, children[i], m[i - 1], m[i])
  OBVIOUS
<1> QED BY <1>1, <1>2 DEF Spells

(* One child more. *)
LEMMA SpellsOn ==
  ASSUME NEW G, NEW children, NEW k \in Nat, NEW a, NEW b, NEW c \in Nat,
         Spells(G, children, k, a, b), Leads(G, children[k + 1], b, c)
  PROVE  Spells(G, children, k + 1, a, c)
<1>1. PICK m \in [0 .. k -> Nat] :
        m[0] = a /\ m[k] = b /\ \A i \in 1 .. k : Leads(G, children[i], m[i - 1], m[i])
  BY DEF Spells
<1> DEFINE l == [j \in 0 .. k + 1 |-> IF j = k + 1 THEN c ELSE m[j]]
<1>2. \A j \in 0 .. k + 1 : j # k + 1 => j \in 0 .. k /\ m[j] \in Nat
  BY <1>1
<1>3. l \in [0 .. k + 1 -> Nat]
  BY <1>2
<1>4. l[0] = a /\ l[k + 1] = c /\ \A j \in 0 .. k : l[j] = m[j]
  BY <1>1
<1> HIDE DEF l
<1>5. ASSUME NEW i \in 1 .. k + 1 PROVE Leads(G, children[i], l[i - 1], l[i])
  <2>1. CASE i = k + 1
    <3>1. i - 1 = k /\ k \in 0 .. k
      BY <2>1
    <3> QED BY <1>1, <1>4, <2>1, <3>1
  <2>2. CASE i # k + 1
    <3>1. i \in 1 .. k /\ i - 1 \in 0 .. k /\ i \in 0 .. k
      BY <2>2
    <3> QED BY <1>1, <1>4, <3>1
  <2> QED BY <2>1, <2>2
<1> QED BY <1>3, <1>4, <1>5 DEF Spells

(* The same children, with more spans known. *)
LEMMA SpellsAlike ==
  ASSUME NEW G, NEW H, Widens(G, H), NEW k \in Nat, NEW children, NEW more,
         \A i \in 1 .. k : more[i] = children[i], NEW a, NEW b, Spells(G, children, k, a, b)
  PROVE  Spells(H, more, k, a, b)
<1>1. PICK m \in [0 .. k -> Nat] :
        m[0] = a /\ m[k] = b /\ \A i \in 1 .. k : Leads(G, children[i], m[i - 1], m[i])
  BY DEF Spells
<1>2. \A i \in 1 .. k : Leads(H, more[i], m[i - 1], m[i])
  BY <1>1 DEF Leads, Widens
<1> QED BY <1>1, <1>2 DEF Spells

LEMMA SpellsWidens ==
  ASSUME NEW G, NEW H, Widens(G, H), NEW k \in Nat, NEW children, NEW a, NEW b,
         Spells(G, children, k, a, b)
  PROVE  Spells(H, children, k, a, b)
BY SpellsAlike

(* Where the cursor is. *)
LEMMA ClampFacts ==
  ASSUME IsSetUp, NEW n \in Nat
  PROVE  /\ Clamp(n) \in 0 .. Len(input)
         /\ Clamp(n + 1) = IF TypeOf(Clamp(n)) = EOF THEN Clamp(n) ELSE Clamp(n) + 1
         /\ TypeOf(Clamp(n)) = EOF <=> n >= Len(input)
         /\ Clamp(n) # Len(input) => Clamp(n) = n
<1>1. Len(input) \in Nat /\ \A i \in 0 .. Len(input) : TypeOf(i) = EOF <=> i = Len(input)
  BY InputFacts DEF IsSetUp
<1>2. Clamp(n) \in 0 .. Len(input)
  BY <1>1 DEF Clamp
<1>3. Clamp(n) = Len(input) <=> n >= Len(input)
  BY <1>1 DEF Clamp
<1>4. TypeOf(Clamp(n)) = EOF <=> n >= Len(input)
  BY <1>1, <1>2, <1>3
<1> QED BY <1>1, <1>2, <1>4 DEF Clamp

-----------------------------------------------------------------------------
(* A parse under way. *)

Spans == [from : Nat, to : Nat, rank : Nat]
Made(p) == p.root .. Len(p.tree)
InvolvedIn(calls) == {calls[i] : i \in 1 .. Len(calls)}

(* A node is complete: its children follow one another over its span, were *)
(* complete before it, and it starts and stops where its span does.        *)
Complete(p, G, c) ==
  LET node == p.tree[c] IN
  /\ Spells(G, node.children, Len(node.children), G[c].from, G[c].to)
  /\ \A i \in 1 .. Len(node.children) :
       node.children[i].kind = "rule" => G[node.children[i].at].rank < G[c].rank
  /\ node.start = Clamp(G[c].from)
  /\ \/ node.stop = Clamp(G[c].to) - 1
     \/ node.stop = Len(input) /\ G[c].to > Len(input)

(* The context under way that has called another.  A left-recursive rule   *)
(* joins the tree when it ends, others when they are called.               *)
Calling(p, calls, at, G, i) ==
  LET children == p.tree[calls[i]].children
      k        == Len(children)
  IN IF IsRecursive(p, calls[i + 1]) THEN Spells(G, children, k, at[i], at[i + 1])
     ELSE /\ k # 0 /\ children[k] = [kind |-> "rule", at |-> calls[i + 1]]
          /\ Spells(G, children, k - 1, at[i], at[i + 1])

Current(p, calls, at, G, taken) ==
  LET children == p.tree[p.ctx].children IN
  Spells(G, children, Len(children), at[Len(calls)], taken)

AreSpans(p, calls, G) ==
  /\ G \in [Made(p) \ InvolvedIn(calls) -> Spans]
  /\ \E M \in Nat : \A c \in DOMAIN G : G[c].rank < M
  /\ \A c \in DOMAIN G : Complete(p, G, c)

AreUnderWay(p, calls, at) ==
  /\ Chain(p, calls) /\ calls # <<>> /\ InvolvedIn(calls) \subseteq Made(p)
  /\ p.tree[calls[1]].rule = StartRule
  /\ StartRule \notin g.precedenceRules => calls[1] = p.root
  /\ at \in [1 .. Len(calls) -> Nat] /\ at[1] = 0
  /\ \A i \in 1 .. Len(calls) : p.tree[calls[i]].start = Clamp(at[i])

Laid(p, calls, at, G, taken) ==
  /\ AreUnderWay(p, calls, at) /\ AreSpans(p, calls, G)
  /\ \A i \in 1 .. Len(calls) - 1 : Calling(p, calls, at, G, i)
  /\ Current(p, calls, at, G, taken)
  /\ taken \in Nat /\ p.index = Clamp(taken)

(* What p and what comes of it have in common, if only the current context *)
(* gets more children.                                                     *)
Within(p, q) ==
  /\ Len(q.tree) = Len(p.tree) /\ q.root = p.root /\ q.ctx = p.ctx
  /\ \A c \in 1 .. Len(p.tree) :
       /\ q.tree[c].rule = p.tree[c].rule /\ q.tree[c].parent = p.tree[c].parent
       /\ q.tree[c].start = p.tree[c].start
       /\ c # p.ctx => q.tree[c].children = p.tree[c].children /\ q.tree[c].stop = p.tree[c].stop

(* Then it has only to be said what the children lead to. *)
LEMMA LaidWithin ==
  ASSUME NEW p, Typed(p), NEW calls, NEW at, NEW G, NEW taken, Laid(p, calls, at, G, taken),
         NEW q, Within(p, q), NEW now \in Nat, Current(q, calls, at, G, now),
         q.index = Clamp(now)
  PROVE  Laid(q, calls, at, G, now)
<1> DEFINE n   == Len(p.tree)
           len == Len(calls)
<1>1. n \in Nat /\ p.root \in 1 .. n /\ Made(q) = Made(p) /\ Made(p) \subseteq 1 .. n
  BY DEF Typed, Shaped, IsTree, Made, Within
<1>2. /\ Chain(p, calls) /\ len \in Nat /\ len # 0
      /\ \A i \in 1 .. len : calls[i] \in 1 .. n
      /\ p.ctx = calls[len] /\ \A i, j \in 1 .. len : calls[i] = calls[j] => i = j
  <2>1. Chain(p, calls) /\ calls # <<>>
    BY DEF Laid, AreUnderWay
  <2> QED BY <2>1 DEF Chain
<1>3. Chain(q, calls)
  BY <1>2 DEF Within, Chain
<1>4. AreUnderWay(q, calls, at)
  <2>1. AreUnderWay(p, calls, at) /\ 1 \in 1 .. len
    BY <1>2 DEF Laid
  <2> QED BY <1>1, <1>2, <1>3, <2>1 DEF AreUnderWay, Within
<1>5. AreSpans(q, calls, G)
  <2>1. AreSpans(p, calls, G) /\ p.ctx \in InvolvedIn(calls)
    BY <1>2 DEF Laid, InvolvedIn
  <2>2. \A c \in DOMAIN G : c \in 1 .. n /\ c # p.ctx /\ Complete(p, G, c)
    BY <1>1, <2>1 DEF AreSpans
  <2>3. \A c \in DOMAIN G : Complete(q, G, c)
    BY <2>2 DEF Complete, Within
  <2> QED BY <1>1, <2>1, <2>3 DEF AreSpans
<1>6. ASSUME NEW i \in 1 .. len - 1 PROVE Calling(q, calls, at, G, i)
  <2>1. i \in 1 .. len /\ i + 1 \in 1 .. len /\ i # len
    BY <1>2
  <2>2. /\ calls[i] \in 1 .. n /\ calls[i] # p.ctx /\ calls[i + 1] \in 1 .. n
    BY <1>2, <2>1
  <2>3. Calling(p, calls, at, G, i)
    BY DEF Laid
  <2> QED BY <2>2, <2>3 DEF Calling, Within, IsRecursive
<1> QED BY <1>4, <1>5, <1>6 DEF Laid

-----------------------------------------------------------------------------
(* Matching and recovering: from p comes q, with the same contexts, and    *)
(* each token taken in between is a child of the current one.              *)

Further(p, q, calls, at, G, taken) ==
  \E now \in Nat :
    /\ Laid(q, calls, at, G, now) /\ now >= taken
    /\ q.matchedEOF => p.matchedEOF \/ now > Len(input)

Lays(p, q) ==
  Typed(p) /\ UnderWay(p) =>
    \A calls, at, G, taken : Laid(p, calls, at, G, taken) => Further(p, q, calls, at, G, taken)

Tells(p, q) == Keeps(p, q) /\ Lays(p, q)

(* Tells is transitive. *)
LEMMA TellsTwice ==
  ASSUME IsSetUp, NEW p, NEW q, NEW r, Tells(p, q), Tells(q, r)
  PROVE  Tells(p, r)
<1>1. Keeps(p, r)
  BY KeepsTwice DEF Tells
<1>2. Lays(p, r)
  <2> SUFFICES ASSUME Typed(p), UnderWay(p),
                      NEW calls, NEW at, NEW G, NEW taken, Laid(p, calls, at, G, taken)
               PROVE  Further(p, r, calls, at, G, taken)
    BY DEF Lays
  <2>1. Typed(q) /\ UnderWay(q)
    BY DEF Tells, Keeps
  <2>2. PICK now \in Nat : /\ Laid(q, calls, at, G, now) /\ now >= taken
                           /\ q.matchedEOF => p.matchedEOF \/ now > Len(input)
    BY DEF Tells, Lays, Further
  <2>3. PICK later \in Nat : /\ Laid(r, calls, at, G, later) /\ later >= now
                             /\ r.matchedEOF => q.matchedEOF \/ later > Len(input)
    BY <2>1, <2>2 DEF Tells, Lays, Further
  <2>4. now >= taken /\ later >= now /\ taken \in Nat
    BY <2>2, <2>3, Zenon DEF Laid
  <2>5. later >= taken /\ (now > Len(input) => later > Len(input))
    BY <2>4, SetUpFacts
  <2>6. r.matchedEOF => p.matchedEOF \/ later > Len(input)
    BY <2>2, <2>3, <2>5, Zenon
  <2> QED BY <2>3, <2>5, <2>6, Zenon DEF Further
<1> QED BY <1>1, <1>2 DEF Tells

(* What leaves the tree and the cursor alone. *)
LEMMA TellsSame ==
  ASSUME NEW p, NEW q, Keeps(p, q),
         Typed(p) => /\ q.tree = p.tree /\ q.root = p.root /\ q.ctx = p.ctx
                     /\ q.index = p.index /\ (q.matchedEOF => p.matchedEOF)
  PROVE  Tells(p, q)
<1> SUFFICES ASSUME Typed(p), UnderWay(p),
                    NEW calls, NEW at, NEW G, NEW taken, Laid(p, calls, at, G, taken)
             PROVE  /\ Laid(q, calls, at, G, taken) /\ taken \in Nat /\ taken >= taken
                    /\ q.matchedEOF => p.matchedEOF \/ taken > Len(input)
  BY DEF Tells, Lays, Further
<1>1. Within(p, q) /\ taken \in Nat
  BY DEF Within, Laid
<1>2. Current(q, calls, at, G, taken) /\ q.index = Clamp(taken)
  BY DEF Laid, Current
<1> QED BY <1>1, <1>2, LaidWithin

(* Other children of the current context. *)
Grown(p, q, all) ==
  /\ Within(p, q) /\ DOMAIN q = DOMAIN p /\ q.tree[p.ctx].children = all
  /\ \A f \in FieldNames \ {"tree"} : q[f] = p[f]

LEMMA ChildrenTree ==
  ASSUME NEW p, Typed(p), UnderWay(p), NEW all
  PROVE  Grown(p, [p EXCEPT !.tree[p.ctx].children = all], all)
<1> DEFINE c    == p.ctx
           node == [p.tree[c] EXCEPT !.children = all]
           tree == [p.tree EXCEPT ![c] = node]
           q    == [p EXCEPT !.tree = tree]
<1>1. [p EXCEPT !.tree[p.ctx].children = all] = q
  BY DEF Typed, Shaped, FieldNames
<1>2. /\ p.tree \in Seq(Contexts(Len(p.tree))) /\ c \in 1 .. Len(p.tree)
      /\ p.tree[c] \in Contexts(Len(p.tree))
  BY DEF Typed, Shaped, IsTree, UnderWay, NoContext
<1>3. /\ node.children = all /\ node.rule = p.tree[c].rule
      /\ node.parent = p.tree[c].parent /\ node.start = p.tree[c].start
  BY <1>2 DEF Contexts
<1> HIDE DEF node
<1>4. /\ Len(tree) = Len(p.tree)
      /\ \A d \in 1 .. Len(p.tree) : tree[d] = IF d = c THEN node ELSE p.tree[d]
  BY <1>2
<1> HIDE DEF tree
<1>5. /\ DOMAIN q = DOMAIN p /\ q.tree = tree
      /\ \A f \in FieldNames \ {"tree"} : q[f] = p[f]
  BY DEF Typed, Shaped, FieldNames
<1> HIDE DEF q
<1>6. Within(p, q)
  BY <1>2, <1>3, <1>4, <1>5 DEF Within, FieldNames
<1>7. q.tree[c].children = all
  BY <1>2, <1>3, <1>4, <1>5
<1>8. Grown(p, q, all)
  BY <1>5, <1>6, <1>7, Zenon DEF Grown
<1> QED BY <1>1, <1>8, Zenon

(* One child more. *)
LEMMA ChildTree ==
  ASSUME NEW p, Typed(p), UnderWay(p), NEW kind, NEW at
  PROVE  Grown(p, AddChild(p, p.ctx, kind, at),
                  Append(p.tree[p.ctx].children, [kind |-> kind, at |-> at]))
<1> DEFINE all == Append(p.tree[p.ctx].children, [kind |-> kind, at |-> at])
<1>1. AddChild(p, p.ctx, kind, at) = [p EXCEPT !.tree[p.ctx].children = all]
  BY Zenon DEF AddChild
<1> HIDE DEF all
<1>2. Grown(p, AddChild(p, p.ctx, kind, at), all)
  BY <1>1, ChildrenTree, Zenon
<1> QED BY <1>2 DEF all

(* The children of a context are a sequence. *)
LEMMA ChildrenFacts ==
  ASSUME NEW p, Typed(p), NEW c \in 1 .. Len(p.tree)
  PROVE  p.tree[c] \in Contexts(Len(p.tree)) /\ p.tree[c].children \in Seq(Children(Len(p.tree)))
<1>1. p.tree[c] \in Contexts(Len(p.tree))
  BY DEF Typed, Shaped, IsTree
<1> QED BY <1>1 DEF Contexts

(* Children and one more. *)
LEMMA OneMore ==
  ASSUME NEW S, NEW s \in Seq(S), NEW e
  PROVE  /\ Len(Append(s, e)) = Len(s) + 1 /\ Len(s) \in Nat
         /\ \A i \in 1 .. Len(s) : Append(s, e)[i] = s[i]
         /\ Append(s, e)[Len(s) + 1] = e
<1> DEFINE T == S \cup {e}
<1>1. s \in Seq(T) /\ e \in T
  OBVIOUS
<1> HIDE DEF T
<1> QED BY <1>1

(* A leaf more, which leads on from where the context's children led. *)
LEMMA LeafAdded ==
  ASSUME NEW p, Typed(p), UnderWay(p), NEW kind, NEW at,
         NEW calls, NEW starts, NEW G, NEW taken, Laid(p, calls, starts, G, taken),
         NEW now \in Nat, Leads(G, [kind |-> kind, at |-> at], taken, now),
         NEW q, q.tree = AddChild(p, p.ctx, kind, at).tree, q.root = p.root, q.ctx = p.ctx,
         q.index = Clamp(now)
  PROVE  Laid(q, calls, starts, G, now)
<1> DEFINE m    == AddChild(p, p.ctx, kind, at)
           leaf == [kind |-> kind, at |-> at]
           old  == p.tree[p.ctx].children
           new  == Append(old, leaf)
           k    == Len(old)
<1>1. /\ Within(p, m) /\ DOMAIN m = DOMAIN p /\ m.tree[p.ctx].children = new
  <2>1. Grown(p, m, new)
    BY ChildTree, Zenon
  <2> QED BY <2>1, Zenon DEF Grown
<1>2. q.tree = m.tree
  OBVIOUS
<1> HIDE DEF m
<1>3. Within(p, q) /\ q.ctx = p.ctx
  BY <1>1, <1>2 DEF Within
<1>4. old \in Seq(Children(Len(p.tree)))
  <2>1. p.ctx \in 1 .. Len(p.tree)
    BY DEF Typed, Shaped, IsTree, UnderWay, NoContext
  <2> QED BY <2>1, ChildrenFacts
<1> HIDE DEF leaf
<1>5. Len(new) = k + 1 /\ k \in Nat /\ (\A i \in 1 .. k : new[i] = old[i]) /\ new[k + 1] = leaf
  <2> HIDE DEF old
  <2> QED BY <1>4, OneMore
<1> HIDE DEF new
<1>6. Spells(G, old, k, starts[Len(calls)], taken)
  BY DEF Laid, Current
<1>7. Widens(G, G)
  BY DEF Widens
<1>8. Spells(G, new, k, starts[Len(calls)], taken)
  <2> HIDE DEF old, k
  <2> QED BY <1>5, <1>6, <1>7, SpellsAlike
<1>9. Spells(G, new, k + 1, starts[Len(calls)], now)
  <2>1. Leads(G, new[k + 1], taken, now)
    BY <1>5 DEF leaf
  <2> HIDE DEF old, k
  <2> QED BY <1>5, <1>8, <2>1, SpellsOn
<1>10. Current(q, calls, starts, G, now)
  BY <1>1, <1>2, <1>3, <1>5, <1>9 DEF Current
<1> QED BY <1>3, <1>10, LaidWithin

(* A token consumed is one more taken. *)
LEMMA ConsumeLays ==
  ASSUME IsSetUp, NEW p, Typed(p), UnderWay(p),
         NEW calls, NEW at, NEW G, NEW taken, Laid(p, calls, at, G, taken)
  PROVE  /\ Laid(Consume(p), calls, at, G, taken + 1)
         /\ Consume(p).matchedEOF = p.matchedEOF /\ LA(p, 1) = TypeOf(Clamp(taken))
<1> DEFINE kind == LeafKind(p)
           here == p.index
           m    == AddChild(p, p.ctx, kind, here)
           q    == Consume(p)
           now  == taken + 1
<1>1. taken \in Nat /\ now \in Nat /\ here = Clamp(taken) /\ here \in 0 .. Len(input)
  BY DEF Laid, Typed, Shaped
<1>2. LA(p, 1) = TypeOf(here)
  BY <1>1, SetUpFacts DEF LA
<1>3. kind # "rule" /\ here # Conjured
  BY <1>1, SetUpFacts DEF LeafKind, Conjured
<1> HIDE DEF kind
<1>4. /\ DOMAIN m = DOMAIN p /\ \A f \in FieldNames \ {"tree"} : m[f] = p[f]
  <2> HIDE DEF here
  <2>1. Grown(p, m, Append(p.tree[p.ctx].children, [kind |-> kind, at |-> here]))
    BY ChildTree, Zenon
  <2> QED BY <2>1, Zenon DEF Grown
<1>5. q = [m EXCEPT !.index = IF LA(p, 1) = EOF THEN m.index ELSE m.index + 1]
  BY Zenon DEF Consume, m, kind, here
<1> HIDE DEF m, q
<1>6. /\ q.tree = m.tree /\ q.root = p.root /\ q.ctx = p.ctx /\ q.matchedEOF = p.matchedEOF
      /\ q.index = IF LA(p, 1) = EOF THEN here ELSE here + 1
  BY <1>4, <1>5 DEF Typed, Shaped, FieldNames
<1>7. q.index = Clamp(now)
  BY <1>1, <1>2, <1>6, ClampFacts
<1>8. Leads(G, [kind |-> kind, at |-> here], taken, now)
  BY <1>1, <1>3 DEF Leads
<1>9. Laid(q, calls, at, G, now)
  <2> HIDE DEF here, now
  <2> QED BY <1>1, <1>6, <1>7, <1>8, LeafAdded DEF m
<1> QED BY <1>1, <1>2, <1>6, <1>9 DEF q

LEMMA ConsumeTells ==
  ASSUME IsSetUp, NEW p
  PROVE  Tells(p, Consume(p))
<1> DEFINE q == Consume(p)
<1>1. Keeps(p, q)
  BY ConsumeKeeps
<1>2. ASSUME Typed(p), UnderWay(p),
             NEW calls, NEW at, NEW G, NEW taken, Laid(p, calls, at, G, taken)
      PROVE  Further(p, q, calls, at, G, taken)
  <2>1. Laid(q, calls, at, G, taken + 1) /\ q.matchedEOF = p.matchedEOF
    BY <1>2, ConsumeLays
  <2>2. taken + 1 \in Nat /\ taken + 1 >= taken
    BY <1>2 DEF Laid
  <2> HIDE DEF q
  <2> QED BY <2>1, <2>2 DEF Further
<1> QED BY <1>1, <1>2, Zenon DEF Tells, Lays

(* A token that was made up is none of those taken. *)
LEMMA ConjureTells ==
  ASSUME IsSetUp, NEW p
  PROVE  Tells(p, AddChild(p, p.ctx, "error", Conjured))
<1> DEFINE q    == AddChild(p, p.ctx, "error", Conjured)
           kind == "error"
<1>1. Keeps(p, q)
  <2>1. Typed(p) => [kind |-> kind, at |-> Conjured] \in Children(Len(p.tree))
    BY DEF Children, Conjured, Places, Undefined
  <2> HIDE DEF kind
  <2>2. Keeps(p, AddChild(p, p.ctx, kind, Conjured))
    BY <2>1, AddChildKeeps, Zenon
  <2> QED BY <2>2 DEF kind
<1>2. ASSUME Typed(p), UnderWay(p),
             NEW calls, NEW at, NEW G, NEW taken, Laid(p, calls, at, G, taken)
      PROVE  Further(p, q, calls, at, G, taken)
  <2>1. taken \in Nat /\ p.index = Clamp(taken)
    BY <1>2 DEF Laid
  <2>2. \A f \in FieldNames \ {"tree"} : q[f] = p[f]
    <3>1. Grown(p, q, Append(p.tree[p.ctx].children, [kind |-> kind, at |-> Conjured]))
      BY <1>2, ChildTree, Zenon
    <3> QED BY <3>1, Zenon DEF Grown
  <2>3. Leads(G, [kind |-> kind, at |-> Conjured], taken, taken)
    BY DEF Leads
  <2> HIDE DEF q, kind
  <2>4. /\ q.root = p.root /\ q.ctx = p.ctx /\ q.index = Clamp(taken)
        /\ q.matchedEOF = p.matchedEOF
    BY <2>1, <2>2 DEF FieldNames
  <2>5. Laid(q, calls, at, G, taken)
    BY <1>2, <2>1, <2>3, <2>4, LeafAdded DEF q, kind
  <2> QED BY <2>1, <2>4, <2>5 DEF Further
<1> HIDE DEF q
<1> QED BY <1>1, <1>2, Zenon DEF Tells, Lays, q

(* More leaves, one after the other. *)
LEMMA SpellsFurther ==
  ASSUME NEW G, NEW children, NEW k \in Nat, NEW a, NEW b, Spells(G, children, k, a, b),
         NEW l \in Nat, \A i \in 1 .. l : Leads(G, children[k + i], b + i - 1, b + i)
  PROVE  Spells(G, children, k + l, a, b + l)
<1>1. PICK m \in [0 .. k -> Nat] :
        m[0] = a /\ m[k] = b /\ \A i \in 1 .. k : Leads(G, children[i], m[i - 1], m[i])
  BY DEF Spells
<1> DEFINE n == [j \in 0 .. k + l |-> IF j <= k THEN m[j] ELSE b + (j - k)]
<1>2. b \in Nat
  BY <1>1
<1>3. n \in [0 .. k + l -> Nat]
  <2>1. \A j \in 0 .. k + l : j <= k => j \in 0 .. k /\ m[j] \in Nat
    BY <1>1
  <2>2. \A j \in 0 .. k + l : ~(j <= k) => b + (j - k) \in Nat
    BY <1>2
  <2> QED BY <2>1, <2>2
<1>4. /\ n[0] = a /\ \A j \in 0 .. k : n[j] = m[j]
      /\ \A i \in 0 .. l : n[k + i] = b + i
  <2>1. \A i \in 0 .. l : k + i \in 0 .. k + l /\ (k + i <= k => i = 0) /\ k + i - k = i
    OBVIOUS
  <2>2. \A j \in 0 .. k : j \in 0 .. k + l /\ j <= k
    OBVIOUS
  <2>3. \A j \in 0 .. k : n[j] = m[j]
    BY <2>2
  <2>4. \A i \in 0 .. l : n[k + i] = b + i
    <3> TAKE i \in 0 .. l
    <3>1. CASE k + i <= k
      <4>1. i = 0 /\ k + i = k /\ k \in 0 .. k /\ b + i = b
        BY <1>2, <2>1, <3>1
      <4> HIDE DEF n
      <4> QED BY <1>1, <2>3, <4>1
    <3>2. CASE ~(k + i <= k)
      BY <1>2, <2>1, <3>2
    <3> QED BY <3>1, <3>2
  <2>5. 0 \in 0 .. k
    OBVIOUS
  <2> HIDE DEF n
  <2> QED BY <1>1, <2>3, <2>4, <2>5
<1> HIDE DEF n
<1>5. ASSUME NEW i \in 1 .. k + l PROVE Leads(G, children[i], n[i - 1], n[i])
  <2>1. CASE i <= k
    <3>1. i \in 1 .. k /\ i \in 0 .. k /\ i - 1 \in 0 .. k
      BY <2>1
    <3> QED BY <1>1, <1>4, <3>1
  <2>2. CASE ~(i <= k)
    <3> DEFINE h == i - k
    <3>1. h \in 1 .. l /\ h \in 0 .. l /\ h - 1 \in 0 .. l /\ i = k + h /\ i - 1 = k + (h - 1)
      BY <2>2
    <3> HIDE DEF h
    <3>2. n[i] = b + h /\ n[i - 1] = b + (h - 1) /\ b + (h - 1) = b + h - 1
      BY <1>2, <1>4, <3>1
    <3> QED BY <3>1, <3>2
  <2> QED BY <2>1, <2>2
<1>6. n[k + l] = b + l
  <2>1. l \in 0 .. l
    OBVIOUS
  <2> QED BY <1>4, <2>1
<1> QED BY <1>3, <1>4, <1>5, <1>6 DEF Spells

(* The tokens that are skipped are taken, one after the other. *)
LEMMA ConsumeUntilTells ==
  ASSUME IsSetUp, NEW p, NEW set
  PROVE  Tells(p, ConsumeUntil(p, set))
<1> DEFINE S     == {i \in p.index .. Len(input) : TypeOf(i) = EOF \/ TypeOf(i) \in set}
           stop  == MinimumOf(S)
           l     == stop - p.index
           kind  == LeafKind(p)
           old   == p.tree[p.ctx].children
           more  == [i \in 1 .. l |-> [kind |-> kind, at |-> p.index + i - 1]]
           new   == old \o more
           m     == [p EXCEPT !.tree[p.ctx].children = new]
           q     == ConsumeUntil(p, set)
<1>1. Keeps(p, q)
  BY ConsumeUntilKeeps
<1>2. ASSUME Typed(p), UnderWay(p),
             NEW calls, NEW at, NEW G, NEW taken, Laid(p, calls, at, G, taken)
      PROVE  Further(p, q, calls, at, G, taken)
  <2>1. taken \in Nat /\ p.index = Clamp(taken) /\ p.index \in 0 .. Len(input)
    BY <1>2 DEF Laid, Typed, Shaped
  <2>2. S \in SUBSET Nat /\ Len(input) \in S
    BY <2>1, SetUpFacts, InputFacts DEF IsSetUp
  <2>3. stop \in p.index .. Len(input)
    <3> HIDE DEF S
    <3>1. stop \in S
      BY <2>2, MinimumIsLeast
    <3> QED BY <3>1 DEF S
  <2>4. q = [m EXCEPT !.index = stop]
    <3> HIDE DEF S, more
    <3>1. q = [p EXCEPT !.index = stop, !.tree[p.ctx].children = new]
      BY Zenon DEF ConsumeUntil, stop, S, more, l, kind
    <3> HIDE DEF new, q, stop
    <3> QED BY <1>2, <3>1 DEF Typed, Shaped, FieldNames
  <2> HIDE DEF stop, new
  <2>5. Grown(p, m, new)
    BY <1>2, ChildrenTree, Zenon
  <2> HIDE DEF m, q
  <2>6. /\ q.tree = m.tree /\ q.root = p.root /\ q.ctx = p.ctx /\ q.matchedEOF = p.matchedEOF
        /\ q.index = stop
    BY <1>2, <2>4, <2>5 DEF Grown, Typed, Shaped, FieldNames
  <2>7. Within(p, q) /\ q.tree[q.ctx].children = new
    BY <2>5, <2>6 DEF Grown, Within
  <2>8. l \in Nat /\ l + p.index = stop
    BY <2>1, <2>3, SetUpFacts
  <2>9. /\ taken + l \in Nat /\ taken + l >= taken /\ stop = Clamp(taken + l)
        /\ \A i \in 1 .. l : /\ p.index + i - 1 = Clamp(taken + i - 1)
                             /\ p.index + i - 1 # Conjured
    <3>1. CASE taken < Len(input)
      BY <2>1, <2>3, <2>8, <3>1, SetUpFacts DEF Clamp, Conjured
    <3>2. CASE ~(taken < Len(input))
      BY <2>1, <2>3, <2>8, <3>2, SetUpFacts DEF Clamp, Conjured
    <3> QED BY <3>1, <3>2
  <2> HIDE DEF l
  <2>10. old \in Seq(Children(Len(p.tree)))
    <3>1. p.ctx \in 1 .. Len(p.tree)
      BY <1>2 DEF Typed, Shaped, IsTree, UnderWay, NoContext
    <3> QED BY <1>2, <3>1, ChildrenFacts
  <2> DEFINE k == Len(old)
  <2>11. /\ k \in Nat /\ Len(new) = k + l /\ \A i \in 1 .. k : new[i] = old[i]
         /\ \A i \in 1 .. l : new[k + i] = [kind |-> kind, at |-> p.index + i - 1]
    <3> DEFINE Leaf(i) == [kind |-> kind, at |-> p.index + i - 1]
               T == Children(Len(p.tree)) \cup {Leaf(i) : i \in 1 .. l}
    <3>1. \A i \in 1 .. l : Leaf(i) \in T
      OBVIOUS
    <3>2. old \in Seq(T)
      <4>1. \A i \in 1 .. Len(old) : old[i] \in T
        BY <2>10
      <4> HIDE DEF T, old
      <4> QED BY <2>10, <4>1
    <3> HIDE DEF Leaf, T, old
    <3>3. more = [i \in 1 .. l |-> Leaf(i)]
      BY DEF Leaf
    <3> HIDE DEF more
    <3>4. more \in Seq(T) /\ Len(more) = l /\ \A i \in 1 .. l : more[i] = Leaf(i)
      BY <2>8, <3>1, <3>3
    <3>5. k \in Nat /\ Len(new) = k + l /\ (\A i \in 1 .. k : new[i] = old[i])
          /\ \A i \in 1 .. l : new[k + i] = more[i]
      BY <3>2, <3>4 DEF new
    <3> QED BY <3>4, <3>5 DEF Leaf
  <2>12. \A i \in 1 .. l : Leads(G, new[k + i], taken + i - 1, taken + i)
    <3> TAKE i \in 1 .. l
    <3>1. kind # "rule"
      BY DEF LeafKind
    <3> HIDE DEF old, k, kind
    <3>3. new[k + i].kind # "rule" /\ new[k + i].at = p.index + i - 1
      <4> DEFINE here == p.index + i - 1
      <4>1. new[k + i] = [kind |-> kind, at |-> here]
        BY <2>11, Zenon
      <4> HIDE DEF here
      <4>2. new[k + i].kind = kind /\ new[k + i].at = here
        BY <4>1
      <4> QED BY <3>1, <4>2, Zenon DEF here
    <3>2. taken + i = taken + i - 1 + 1
      BY <2>1, <2>8
    <3> QED BY <2>9, <3>2, <3>3 DEF Leads
  <2>13. Spells(G, new, k + l, at[Len(calls)], taken + l)
    <3>1. Spells(G, old, k, at[Len(calls)], taken)
      BY <1>2 DEF Laid, Current
    <3> HIDE DEF old, k
    <3>2. Spells(G, new, k, at[Len(calls)], taken)
      <4>1. Widens(G, G)
        BY DEF Widens
      <4> QED BY <2>11, <3>1, <4>1, SpellsAlike
    <3> QED BY <2>8, <2>11, <2>12, <3>2, SpellsFurther
  <2>14. Current(q, calls, at, G, taken + l)
    BY <2>7, <2>11, <2>13 DEF Current
  <2> DEFINE now == taken + l
  <2>15. now \in Nat /\ now >= taken /\ q.index = Clamp(now)
    BY <2>6, <2>9
  <2> HIDE DEF now
  <2>16. Laid(q, calls, at, G, now)
    BY <1>2, <2>7, <2>14, <2>15, LaidWithin DEF now
  <2> QED BY <2>6, <2>15, <2>16 DEF Further
<1> HIDE DEF q
<1> QED BY <1>1, <1>2, Zenon DEF Tells, Lays, q

(* Nothing else that matches or recovers takes a token. *)
LEMMA QuietTells ==
  ASSUME NEW p
  PROVE  /\ Tells(p, p) /\ Tells(p, ReportMatch(p))
         /\ \A message, expected : Tells(p, Report(p, message, expected))
         /\ \A e, s, c : Keeps(p, Throw(p, e, s, c)) => Tells(p, Throw(p, e, s, c))
         /\ Bails(p) => Tells(p, Cancel(p))
<1>1. Tells(p, p)
  BY KeepsSame, TellsSame
<1>2. Tells(p, ReportMatch(p))
  <2>1. Typed(p) => LET q == ReportMatch(p) IN
          /\ q.tree = p.tree /\ q.root = p.root /\ q.ctx = p.ctx
          /\ q.index = p.index /\ (q.matchedEOF => p.matchedEOF)
    BY DEF ReportMatch, Typed, Shaped, FieldNames
  <2> QED BY <2>1, ReportMatchKeeps, TellsSame
<1>3. ASSUME NEW message, NEW expected PROVE Tells(p, Report(p, message, expected))
  <2> DEFINE more == Append(p.reports, [message |-> message, at |-> p.index,
                                        expected |-> expected])
             q == [p EXCEPT !.errorRecoveryMode = TRUE, !.reports = more]
             r == Report(p, message, expected)
  <2>1. r = IF p.errorRecoveryMode THEN p ELSE q
    BY Zenon DEF Report
  <2> HIDE DEF more
  <2>2. Typed(p) => /\ q.tree = p.tree /\ q.root = p.root /\ q.ctx = p.ctx
                    /\ q.index = p.index /\ (q.matchedEOF => p.matchedEOF)
    BY DEF Typed, Shaped, FieldNames
  <2>3. Keeps(p, r)
    BY ReportKeeps
  <2> HIDE DEF q, r
  <2> QED BY <2>1, <2>2, <2>3, TellsSame DEF r
<1>4. ASSUME NEW e, NEW s, NEW c, Keeps(p, Throw(p, e, s, c)) PROVE Tells(p, Throw(p, e, s, c))
  <2> DEFINE q == Throw(p, e, s, c)
  <2>1. Typed(p) => /\ q.tree = p.tree /\ q.root = p.root /\ q.ctx = p.ctx
                    /\ q.index = p.index /\ (q.matchedEOF => p.matchedEOF)
    BY DEF Throw, Typed, Shaped, FieldNames
  <2> HIDE DEF q
  <2> QED BY <1>4, <2>1, TellsSame DEF q
<1>5. ASSUME Bails(p) PROVE Tells(p, Cancel(p))
  <2> DEFINE q == Cancel(p)
  <2>1. Typed(p) => /\ q.tree = p.tree /\ q.root = p.root /\ q.ctx = p.ctx
                    /\ q.index = p.index /\ (q.matchedEOF => p.matchedEOF)
    BY DEF Cancel, Typed, Shaped, FieldNames
  <2>2. Keeps(p, q)
    BY <1>5, CancelKeeps
  <2> HIDE DEF q
  <2> QED BY <2>1, <2>2, TellsSame DEF q
<1> QED BY <1>1, <1>2, <1>3, <1>4, <1>5

(* singleTokenDeletion takes the token, into an error node. *)
LEMMA DeletionTells ==
  ASSUME IsSetUp, NEW p
  PROVE  Tells(p, SingleTokenDeletion(p))
<1> DEFINE r == Report(p, "extraneous input", Expected(p))
<1>1. Tells(p, r)
  BY QuietTells, Zenon
<1> HIDE DEF r
<1>2. Tells(p, Consume(r))
  BY <1>1, ConsumeTells, TellsTwice
<1>3. Tells(p, ReportMatch(Consume(r)))
  <2>1. Tells(Consume(r), ReportMatch(Consume(r)))
    BY QuietTells, Zenon
  <2> QED BY <1>2, <2>1, TellsTwice
<1> QED BY <1>3, Zenon DEF SingleTokenDeletion, r

LEMMA RecoverInlineTells ==
  ASSUME IsSetUp, NEW p
  PROVE  Tells(p, RecoverInline(p))
<1> DEFINE e == "mismatched input"
<1>1. Tells(p, Consume(SingleTokenDeletion(p)))
  BY DeletionTells, ConsumeTells, TellsTwice
<1>2. Tells(p, Report(p, "missing", Expected(p)))
  BY QuietTells, Zenon
<1>3. Bails(p) => Tells(p, Cancel(p))
  BY QuietTells, Zenon
<1>4. Keeps(p, RecoverInline(p))
  BY RecoverInlineKeeps
<1>5. ASSUME NEW s, NEW c, RecoverInline(p) = Throw(p, e, s, c) PROVE Tells(p, RecoverInline(p))
  <2> HIDE DEF e
  <2> QED BY <1>4, <1>5, QuietTells, Zenon
<1>6. \/ RecoverInline(p) = Consume(SingleTokenDeletion(p))
      \/ RecoverInline(p) = Report(p, "missing", Expected(p))
      \/ Bails(p) /\ RecoverInline(p) = Cancel(p)
      \/ \E s, c : RecoverInline(p) = Throw(p, e, s, c)
  BY Zenon DEF RecoverInline
<1> HIDE DEF e
<1> QED BY <1>1, <1>2, <1>3, <1>5, <1>6, Zenon

LEMMA MatchIfTells ==
  ASSUME IsSetUp, NEW p, NEW accepted
  PROVE  Tells(p, MatchIf(p, accepted))
<1>1. Tells(p, Consume(ReportMatch(p)))
  <2>1. Tells(p, ReportMatch(p))
    BY QuietTells, Zenon
  <2> QED BY <2>1, ConsumeTells, TellsTwice
<1> DEFINE r == RecoverInline(p)
           q == AddChild(r, p.ctx, "error", Conjured)
<1>2. Tells(p, r)
  BY RecoverInlineTells
<1>3. Tells(p, q)
  <2>1. CASE Typed(p) /\ UnderWay(p)
    <3> HIDE DEF r
    <3>1. r.ctx = p.ctx
      BY <1>2, <2>1 DEF Tells, Keeps, SameCalls
    <3>2. Tells(r, AddChild(r, r.ctx, "error", Conjured))
      BY ConjureTells
    <3> QED BY <1>2, <3>1, <3>2, TellsTwice
  <2>2. CASE ~(Typed(p) /\ UnderWay(p))
    <3> HIDE DEF q
    <3> QED BY <2>2, Zenon DEF Tells, Keeps, Lays
  <2> QED BY <2>1, <2>2
<1> QED BY <1>1, <1>2, <1>3, Zenon DEF MatchIf

(* match: EOF is matched only if all tokens have been taken. *)
LEMMA MatchTells ==
  ASSUME IsSetUp, NEW p, NEW ttype
  PROVE  Tells(p, Match(p, ttype)) /\ Tells(p, MatchWildcard(p))
<1> DEFINE v == p.matchedEOF \/ (ttype = EOF /\ LA(p, 1) = EOF)
           q == [p EXCEPT !.matchedEOF = v]
           r == ReportMatch(q)
           d == Match(p, ttype)
<1>1. Tells(p, MatchWildcard(p))
  BY MatchIfTells, Zenon DEF MatchWildcard
<1>2. Keeps(p, q) /\ (Typed(p) => \A f \in FieldNames \ {"matchedEOF"} : q[f] = p[f])
      /\ (Typed(p) => q.matchedEOF = v)
  <2> HIDE DEF v
  <2> QED BY DEF Keeps, Typed, Shaped, UnderWay, SameCalls, SameNodes, ThrownTyped, AltTyped,
                 Bails, FieldNames
<1>3. d = MatchIf(q, LA(p, 1) = ttype)
  BY Zenon DEF Match, q
<1> HIDE DEF q, d
<1>4. ASSUME ttype # EOF \/ LA(p, 1) # EOF PROVE Tells(p, d)
  <2>1. Typed(p) => /\ q.tree = p.tree /\ q.root = p.root /\ q.ctx = p.ctx
                    /\ q.index = p.index /\ (q.matchedEOF => p.matchedEOF)
    BY <1>2, <1>4 DEF FieldNames
  <2>2. Tells(p, q)
    BY <1>2, <2>1, TellsSame
  <2>3. Tells(q, d)
    BY <1>3, MatchIfTells
  <2> QED BY <2>2, <2>3, TellsTwice
<1>5. ASSUME ttype = EOF, LA(p, 1) = EOF PROVE Tells(p, d)
  <2>1. d = Consume(r)
    BY <1>3, <1>5, Zenon DEF MatchIf
  <2>2. Keeps(p, d)
    BY MatchKeeps DEF d
  <2>3. ASSUME Typed(p), UnderWay(p),
               NEW calls, NEW at, NEW G, NEW taken, Laid(p, calls, at, G, taken)
        PROVE  Further(p, d, calls, at, G, taken)
    <3>1. Typed(q) /\ UnderWay(q)
      BY <1>2, <2>3 DEF Keeps
    <3>2. Typed(r) /\ UnderWay(r)
      BY <3>1, ReportMatchKeeps DEF Keeps
    <3>3. r.tree = p.tree /\ r.root = p.root /\ r.ctx = p.ctx /\ r.index = p.index
      <4>1. r.tree = q.tree /\ r.root = q.root /\ r.ctx = q.ctx /\ r.index = q.index
        BY <3>1 DEF ReportMatch, Typed, Shaped, FieldNames
      <4> QED BY <1>2, <2>3, <4>1 DEF FieldNames
    <3> HIDE DEF r
    <3>4. Laid(r, calls, at, G, taken)
      <4>1. Within(p, r)
        BY <3>3 DEF Within
      <4>2. Current(r, calls, at, G, taken) /\ r.index = Clamp(taken) /\ taken \in Nat
        BY <2>3, <3>3 DEF Laid, Current
      <4> QED BY <2>3, <4>1, <4>2, LaidWithin
    <3>5. Laid(d, calls, at, G, taken + 1) /\ LA(r, 1) = TypeOf(Clamp(taken))
      BY <2>1, <3>2, <3>4, ConsumeLays
    <3>6. TypeOf(Clamp(taken)) = EOF /\ taken \in Nat
      <4>1. LA(r, 1) = LA(p, 1)
        BY <3>3 DEF LA
      <4> QED BY <1>5, <2>3, <3>5, <4>1 DEF Laid
    <3>7. taken + 1 \in Nat /\ taken + 1 >= taken /\ taken + 1 > Len(input)
      BY <3>6, ClampFacts, SetUpFacts
    <3> QED BY <3>5, <3>7 DEF Further
  <2> QED BY <2>2, <2>3, Zenon DEF Tells, Lays
<1> QED BY <1>1, <1>4, <1>5, Zenon DEF d

LEMMA SyncTells ==
  ASSUME IsSetUp, NEW p
  PROVE  Tells(p, Sync(p))
<1> DEFINE set == Expected(p) \cup ErrorRecoverySet(p)
           r   == Report(p, "extraneous input", Expected(p))
           c   == ConsumeUntil(r, set)
           e   == "mismatched input"
           t   == Throw(p, e, p.state, p.ctx)
           Tracked(a, b) == [p EXCEPT !.nextTokensContext = a, !.nextTokensState = b]
<1>1. Keeps(p, Sync(p))
  BY SyncKeeps
<1>2. ASSUME NEW a, NEW b, Sync(p) = Tracked(a, b)
      PROVE  Tells(p, Sync(p))
  <2> DEFINE q == Tracked(a, b)
  <2>1. Typed(p) => /\ q.tree = p.tree /\ q.root = p.root /\ q.ctx = p.ctx
                    /\ q.index = p.index /\ (q.matchedEOF => p.matchedEOF)
    BY DEF Typed, Shaped, FieldNames
  <2>2. Keeps(p, q)
    BY <1>1, <1>2
  <2> HIDE DEF q
  <2>3. Tells(p, q)
    BY <2>1, <2>2, TellsSame
  <2> QED BY <1>2, <2>3 DEF q
<1>3. Tells(p, c)
  <2>1. Tells(p, r)
    BY QuietTells, Zenon
  <2> HIDE DEF r, set
  <2>2. Tells(r, c)
    BY ConsumeUntilTells
  <2> QED BY <2>1, <2>2, TellsTwice
<1>4. ASSUME Sync(p) = t PROVE Tells(p, Sync(p))
  <2> HIDE DEF e
  <2> QED BY <1>1, <1>4, QuietTells, Zenon
<1>5. Tells(p, SingleTokenDeletion(p)) /\ Tells(p, p)
  BY DeletionTells, QuietTells, Zenon
<1>6. Sync(p) \in {p, SingleTokenDeletion(p), t, c,
                   Tracked(NoContext, NoState), Tracked(p.ctx, p.state)}
  BY Zenon DEF Sync
<1> HIDE DEF c, Tracked, e, t
<1> QED BY <1>2, <1>3, <1>4, <1>5, <1>6, Zenon

(* What is laid is the same wherever the parser is otherwise. *)
LEMMA LaidSame ==
  ASSUME NEW p, NEW calls, NEW at, NEW G, NEW taken, Laid(p, calls, at, G, taken),
         NEW q, q.tree = p.tree, q.root = p.root, q.ctx = p.ctx, q.index = p.index
  PROVE  Laid(q, calls, at, G, taken)
<1>1. AreUnderWay(q, calls, at)
  BY DEF Laid, AreUnderWay, Chain, Made
<1>2. AreSpans(q, calls, G)
  <2>1. \A c : Complete(p, G, c) => Complete(q, G, c)
    BY DEF Complete
  <2> QED BY <2>1 DEF Laid, AreSpans, Made
<1>3. \A i \in 1 .. Len(calls) - 1 : Calling(q, calls, at, G, i)
  BY DEF Laid, Calling, IsRecursive
<1>4. Current(q, calls, at, G, taken)
  BY DEF Laid, Current
<1> QED BY <1>1, <1>2, <1>3, <1>4 DEF Laid

(* Handling an exception takes the tokens it skips. *)
LEMMA HandledTells ==
  ASSUME IsSetUp, NEW p, Typed(p), UnderWay(p), p.thrown # "cancelled",
         NEW calls, NEW at, NEW G, NEW taken, Laid(p, calls, at, G, taken)
  PROVE  Further(p, Handled(p), calls, at, G, taken)
<1> DEFINE expected  == IF p.thrown = "mismatched input"
                        THEN ExpectedTokens(p, p.offendingState, p.offendingContext) ELSE {}
           stop      == g.stop[g.rule[p.state]]
           atStop    == [p EXCEPT !.state = stop, !.alt = 0]
           reported  == Report(atStop, p.thrown, expected)
           failsafe  == IF reported.lastErrorIndex = reported.index
                           /\ reported.state \in reported.lastErrorStates
                        THEN Consume(reported) ELSE reported
           marked    == [failsafe EXCEPT !.lastErrorIndex = failsafe.index,
                                         !.lastErrorStates = @ \cup {reported.state}]
           recovered == ConsumeUntil(marked, ErrorRecoverySet(marked))
           handled   == [recovered EXCEPT !.thrown = "nothing", !.offendingState = NoState,
                                          !.offendingContext = NoContext]
           mended    == AddChild(handled, p.ctx, "error", Conjured)
<1>1. stop \in States
  BY GrammarFacts DEF IsSetUp, IsATN, UnderWay, States
<1>2. /\ Typed(atStop) /\ UnderWay(atStop) /\ SameCalls(p, atStop)
      /\ \A f \in FieldNames \ {"state", "alt"} : atStop[f] = p[f]
  <2> HIDE DEF stop
  <2> QED BY <1>1, StateFacts
<1>3. Tells(atStop, reported)
  <2> HIDE DEF atStop, expected
  <2> QED BY QuietTells, Zenon
<1>4. Tells(reported, failsafe)
  <2> HIDE DEF reported
  <2> QED BY ConsumeTells, QuietTells, Zenon
<1>5. Tells(failsafe, marked)
  <2> HIDE DEF failsafe, reported
  <2>1. Keeps(failsafe, marked)
    BY SetUpFacts DEF Keeps, Typed, Shaped, UnderWay, SameCalls, SameNodes,
                      ThrownTyped, AltTyped, Bails, FieldNames, Places
  <2>2. Typed(failsafe) =>
          /\ marked.tree = failsafe.tree /\ marked.root = failsafe.root
          /\ marked.ctx = failsafe.ctx /\ marked.index = failsafe.index
          /\ marked.matchedEOF => failsafe.matchedEOF
    BY DEF Typed, Shaped, FieldNames
  <2> HIDE DEF marked
  <2> QED BY <2>1, <2>2, TellsSame
<1>6. Tells(marked, recovered)
  <2> HIDE DEF marked
  <2> QED BY ConsumeUntilTells, Zenon
<1> HIDE DEF recovered
<1>7. Tells(recovered, handled)
  <2>1. Typed(recovered) =>
          /\ handled.tree = recovered.tree /\ handled.root = recovered.root
          /\ handled.ctx = recovered.ctx /\ handled.index = recovered.index
          /\ handled.matchedEOF => recovered.matchedEOF
    BY DEF Typed, Shaped, FieldNames
  <2>2. Keeps(recovered, handled)
    BY NothingThrownKeeps
  <2> HIDE DEF handled
  <2> QED BY <2>1, <2>2, TellsSame
<1>8. Handled(p) = IF Bails(p) THEN Cancel(reported)
                   ELSE IF recovered.index = p.index THEN mended ELSE handled
  BY Zenon DEF Handled, Recover, recovered
<1> HIDE DEF atStop, reported, failsafe, marked, handled
<1>9. Tells(atStop, handled)
  BY <1>3, <1>4, <1>5, <1>6, <1>7, TellsTwice
<1>10. Tells(atStop, mended)
  <2>1. handled.ctx = p.ctx
    BY <1>2, <1>9 DEF Tells, Keeps, SameCalls
  <2>2. Tells(handled, AddChild(handled, handled.ctx, "error", Conjured))
    BY ConjureTells
  <2> QED BY <1>9, <2>1, <2>2, TellsTwice
<1> HIDE DEF mended
<1>11. Bails(p) => Tells(atStop, Cancel(reported))
  <2>1. Bails(p) => Bails(reported)
    BY <1>2, <1>3 DEF Tells, Keeps, SameCalls, Bails
  <2>2. Bails(reported) => Tells(reported, Cancel(reported))
    BY QuietTells, Zenon
  <2> QED BY <1>3, <2>1, <2>2, TellsTwice
<1>12. Tells(atStop, Handled(p))
  BY <1>8, <1>9, <1>10, <1>11, Zenon
<1>13. Laid(atStop, calls, at, G, taken)
  <2>1. /\ atStop.tree = p.tree /\ atStop.root = p.root /\ atStop.ctx = p.ctx
        /\ atStop.index = p.index
    BY <1>2 DEF FieldNames
  <2> QED BY <2>1, LaidSame
<1>14. Further(atStop, Handled(p), calls, at, G, taken)
  BY <1>2, <1>12, <1>13 DEF Tells, Lays
<1>15. atStop.matchedEOF = p.matchedEOF
  BY <1>2 DEF FieldNames
<1> QED BY <1>14, <1>15 DEF Further

-----------------------------------------------------------------------------
(* The invariant. *)

SoFar(p) ==
  \E calls, at, G, taken :
    Laid(p, calls, at, G, taken) /\ (p.matchedEOF => taken > Len(input))

(* What matches and recovers keeps it. *)
LEMMA TellsSoFar ==
  ASSUME IsSetUp, NEW p, NEW q, Typed(p), UnderWay(p), SoFar(p), Tells(p, q)
  PROVE  SoFar(q)
<1>1. PICK calls, at, G, taken :
        Laid(p, calls, at, G, taken) /\ (p.matchedEOF => taken > Len(input))
  BY DEF SoFar
<1>2. Further(p, q, calls, at, G, taken)
  BY <1>1 DEF Tells, Lays
<1>3. PICK now \in Nat : /\ Laid(q, calls, at, G, now) /\ now >= taken
                         /\ q.matchedEOF => p.matchedEOF \/ now > Len(input)
  BY <1>2 DEF Further
<1>4. taken \in Nat
  BY <1>1 DEF Laid
<1>5. taken > Len(input) => now > Len(input)
  BY <1>3, <1>4, SetUpFacts
<1> QED BY <1>1, <1>3, <1>5, Zenon DEF SoFar

-----------------------------------------------------------------------------
(* Calls. *)

(* There is one chain from the root to the current context. *)
LEMMA ChainIsOne ==
  ASSUME NEW p, Len(p.tree) \in Nat, NEW calls, NEW more, Chain(p, calls), Chain(p, more)
  PROVE  more = calls
<1> DEFINE k == Len(calls)
           l == Len(more)
           N == 1 .. Len(p.tree)
<1>1. calls \in Seq(N) /\ more \in Seq(N)
  BY DEF Chain
<1>2. [i \in 1 .. k |-> calls[k + 1 - i]] = [i \in 1 .. l |-> more[l + 1 - i]]
  BY UpwardsAreCalls
<1> HIDE DEF N
<1>3. k \in Nat /\ l \in Nat
  BY <1>1
<1> HIDE DEF k, l
<1>4. 1 .. k = 1 .. l
  <2> DEFINE f == [i \in 1 .. k |-> calls[k + 1 - i]]
             h == [i \in 1 .. l |-> more[l + 1 - i]]
  <2>1. f = h /\ DOMAIN f = 1 .. k /\ DOMAIN h = 1 .. l
    BY <1>2
  <2> HIDE DEF f, h
  <2> QED BY <2>1
<1>5. k = l
  <2>1. \A i : i \in 1 .. k <=> i \in 1 .. l
    BY <1>4
  <2>2. CASE k = 0
    <3>1. l # 0 => 1 \in 1 .. l
      BY <1>3
    <3>2. 1 \notin 1 .. k
      BY <2>2
    <3> QED BY <2>1, <2>2, <3>1, <3>2
  <2>3. CASE k # 0
    <3>1. k \in 1 .. k /\ (l # 0 => l \in 1 .. l)
      BY <1>3, <2>3
    <3>2. k \in 1 .. l
      BY <2>1, <3>1
    <3>3. l # 0 /\ k <= l
      BY <1>3, <3>2
    <3>4. l <= k
      <4>1. l \in 1 .. k
        BY <2>1, <3>1, <3>3
      <4> QED BY <1>3, <4>1
    <3> QED BY <1>3, <3>3, <3>4
  <2> QED BY <2>2, <2>3
<1>6. \A i \in 1 .. k : calls[i] = more[i]
  <2> TAKE i \in 1 .. k
  <2> DEFINE j == k + 1 - i
  <2>1. j \in 1 .. k /\ k + 1 - j = i
    BY <1>3
  <2> HIDE DEF j
  <2>2. [h \in 1 .. k |-> calls[k + 1 - h]][j] = calls[i]
    BY <2>1
  <2>3. [h \in 1 .. k |-> more[k + 1 - h]][j] = more[i]
    BY <2>1
  <2> QED BY <1>2, <1>5, <2>2, <2>3
<1> QED BY <1>1, <1>5, <1>6, SeqEqual DEF k, l

(* The contexts under way, and the others. *)
Placed(p, calls, at, G) ==
  /\ Len(p.tree) \in Nat /\ p.root \in 1 .. Len(p.tree)
  /\ calls \in Seq(1 .. Len(p.tree)) /\ Len(calls) \in 1 .. Len(p.tree)
  /\ \A i \in 1 .. Len(calls) : calls[i] \in Made(p) /\ calls[i] \in 1 .. Len(p.tree)
  /\ \A i \in 1 .. Len(calls) : at[i] \in Nat
  /\ \A i, j \in 1 .. Len(calls) : calls[i] = calls[j] => i = j
  /\ p.ctx = calls[Len(calls)] /\ p.ctx \in Made(p) /\ p.ctx \in 1 .. Len(p.tree)
  /\ DOMAIN G = Made(p) \ InvolvedIn(calls)
  /\ \A c \in DOMAIN G : /\ c \in 1 .. Len(p.tree) /\ c # p.ctx /\ G[c] \in Spans
                         /\ \A i \in 1 .. Len(calls) : calls[i] # c

LEMMA LaidFacts ==
  ASSUME NEW p, Typed(p), NEW calls, NEW at, NEW G, NEW taken, Laid(p, calls, at, G, taken)
  PROVE  Placed(p, calls, at, G)
<1> DEFINE n == Len(p.tree)
           len == Len(calls)
<1>1. n \in Nat /\ p.root \in 1 .. n /\ Made(p) \subseteq 1 .. n
  BY DEF Typed, Shaped, IsTree, Made
<1>2. Chain(p, calls) /\ calls # <<>> /\ InvolvedIn(calls) \subseteq Made(p)
      /\ at \in [1 .. len -> Nat]
  BY DEF Laid, AreUnderWay
<1>3. calls \in Seq(1 .. n) /\ len <= n /\ p.ctx = calls[len]
      /\ \A i, j \in 1 .. len : calls[i] = calls[j] => i = j
  BY <1>2 DEF Chain
<1>4. len \in 1 .. n
  BY <1>1, <1>2, <1>3
<1>5. \A i \in 1 .. len :
        calls[i] \in Made(p) /\ calls[i] \in 1 .. n /\ calls[i] \in InvolvedIn(calls)
  BY <1>1, <1>2 DEF InvolvedIn
<1>6. len \in 1 .. len
  BY <1>4
<1>7. G \in [Made(p) \ InvolvedIn(calls) -> Spans]
  BY DEF Laid, AreSpans
<1>8. \A c \in DOMAIN G : c \in 1 .. n /\ c \notin InvolvedIn(calls) /\ G[c] \in Spans
  BY <1>1, <1>7
<1> HIDE DEF n, len
<1>9. \A c \in DOMAIN G : c # p.ctx /\ \A i \in 1 .. len : calls[i] # c
  BY <1>3, <1>5, <1>6, <1>8
<1> QED BY <1>1, <1>2, <1>3, <1>4, <1>5, <1>6, <1>7, <1>8, <1>9 DEF n, len, Placed

(* What p and what comes of it have in common otherwise. *)
SamePlace(p, q) ==
  q.root = p.root /\ q.index = p.index /\ (q.matchedEOF => p.matchedEOF)

(* A rule is called: p goes to q. *)
EntersTree(p, q) ==
  /\ SamePlace(p, q) /\ Len(q.tree) = Len(p.tree) + 1 /\ q.ctx = Len(p.tree) + 1
  /\ \A c \in 1 .. Len(p.tree) :
       /\ q.tree[c].rule = p.tree[c].rule /\ q.tree[c].start = p.tree[c].start
       /\ c # p.ctx => q.tree[c].children = p.tree[c].children /\ q.tree[c].stop = p.tree[c].stop
  /\ q.tree[q.ctx].children = <<>> /\ q.tree[q.ctx].start = p.index
  /\ LET old == p.tree[p.ctx].children
     IN q.tree[p.ctx].children =
          IF IsRecursive(q, q.ctx) THEN old ELSE Append(old, [kind |-> "rule", at |-> q.ctx])

LEMMA LaidEntered ==
  ASSUME NEW p, Typed(p), NEW calls, NEW at, NEW G, NEW taken, Laid(p, calls, at, G, taken),
         NEW q, EntersTree(p, q), Chain(q, Append(calls, q.ctx))
  PROVE  \E more, starts : Laid(q, more, starts, G, taken)
<1> USE DEF EntersTree, SamePlace
<1> DEFINE n      == Len(p.tree)
           len    == Len(calls)
           more   == Append(calls, n + 1)
           starts == [i \in 1 .. len + 1 |-> IF i = len + 1 THEN taken ELSE at[i]]
           old    == p.tree[p.ctx].children
           new    == q.tree[p.ctx].children
<1>1. /\ n \in Nat /\ p.root \in 1 .. n /\ len \in 1 .. n
      /\ \A i \in 1 .. len : calls[i] \in Made(p) /\ calls[i] \in 1 .. n
      /\ \A i, j \in 1 .. len : calls[i] = calls[j] => i = j
      /\ p.ctx = calls[len] /\ p.ctx \in 1 .. n /\ calls \in Seq(1 .. n)
      /\ DOMAIN G = Made(p) \ InvolvedIn(calls)
      /\ \A c \in DOMAIN G : c \in 1 .. n /\ c # p.ctx
      /\ \A i \in 1 .. len : at[i] \in Nat
  <2>1. Placed(p, calls, at, G)
    BY LaidFacts
  <2> QED BY <2>1, Zenon DEF Placed
<1>2. /\ Len(more) = len + 1 /\ \A i \in 1 .. len : more[i] = calls[i]
      /\ more[len + 1] = n + 1 /\ more # <<>> /\ Chain(q, more)
  BY <1>1, AppendFacts
<1>3. taken \in Nat /\ p.index = Clamp(taken)
  BY DEF Laid
<1>4. /\ starts \in [1 .. len + 1 -> Nat] /\ starts[len + 1] = taken
      /\ \A i \in 1 .. len : starts[i] = at[i]
  <2>1. \A i \in 1 .. len + 1 : i # len + 1 => i \in 1 .. len
    BY <1>1
  <2>2. \A i \in 1 .. len : i \in 1 .. len + 1 /\ i # len + 1
    BY <1>1
  <2>3. len + 1 \in 1 .. len + 1
    BY <1>1
  <2> QED BY <1>1, <1>3, <2>1, <2>2, <2>3
<1> HIDE DEF more, starts
<1>5. Made(q) = Made(p) \cup {n + 1} /\ n + 1 \notin Made(p)
  BY <1>1 DEF Made
<1>6. InvolvedIn(more) = InvolvedIn(calls) \cup {n + 1}
  <2>1. \A i \in 1 .. len + 1 : i = len + 1 \/ i \in 1 .. len
    BY <1>1
  <2>2. len + 1 \in 1 .. len + 1 /\ \A i \in 1 .. len : i \in 1 .. len + 1
    BY <1>1
  <2> QED BY <1>2, <2>1, <2>2 DEF InvolvedIn
<1>7. AreSpans(q, more, G)
  <2>1. AreSpans(p, calls, G)
    BY DEF Laid
  <2>2. Made(q) \ InvolvedIn(more) = Made(p) \ InvolvedIn(calls)
    BY <1>5, <1>6
  <2>3. \A c \in DOMAIN G : Complete(q, G, c)
    <3>1. \A c \in DOMAIN G : Complete(p, G, c) /\ c \in 1 .. n /\ c # p.ctx
      BY <1>1, <2>1 DEF AreSpans
    <3> QED BY <3>1 DEF Complete
  <2> QED BY <2>1, <2>2, <2>3 DEF AreSpans
<1>8. AreUnderWay(q, more, starts)
  <2>1. AreUnderWay(p, calls, at) /\ 1 \in 1 .. len
    BY <1>1 DEF Laid
  <2>2. InvolvedIn(more) \subseteq Made(q)
    BY <1>5, <1>6, <2>1 DEF AreUnderWay
  <2>3. more[1] = calls[1] /\ starts[1] = 0 /\ calls[1] \in 1 .. n
    BY <1>1, <1>2, <1>4, <2>1 DEF AreUnderWay
  <2>4. \A i \in 1 .. len + 1 : q.tree[more[i]].start = Clamp(starts[i])
    <3> TAKE i \in 1 .. len + 1
    <3>1. CASE i = len + 1
      BY <1>2, <1>3, <1>4, <3>1
    <3>2. CASE i # len + 1
      <4>1. i \in 1 .. len
        BY <1>1, <3>2
      <4>2. more[i] = calls[i] /\ starts[i] = at[i] /\ calls[i] \in 1 .. n
        BY <1>1, <1>2, <1>4, <4>1
      <4>3. p.tree[calls[i]].start = Clamp(at[i])
        BY <2>1, <4>1 DEF AreUnderWay
      <4> QED BY <4>2, <4>3
    <3> QED BY <3>1, <3>2
  <2> QED BY <1>2, <1>4, <2>1, <2>2, <2>3, <2>4 DEF AreUnderWay
<1>9. ASSUME NEW i \in 1 .. Len(more) - 1
      PROVE  Calling(q, more, starts, G, i)
  <2>1. i \in 1 .. len
    BY <1>1, <1>2
  <2>2. CASE i # len
    <3>1. i \in 1 .. len - 1 /\ i + 1 \in 1 .. len
      BY <1>1, <2>1, <2>2
    <3>2. Calling(p, calls, at, G, i)
      BY <3>1 DEF Laid
    <3>3. calls[i] \in 1 .. n /\ calls[i] # p.ctx /\ calls[i + 1] \in 1 .. n
      <4>1. len \in 1 .. len
        BY <1>1
      <4> QED BY <1>1, <2>1, <2>2, <3>1, <4>1
    <3>4. /\ more[i] = calls[i] /\ more[i + 1] = calls[i + 1]
          /\ starts[i] = at[i] /\ starts[i + 1] = at[i + 1]
      BY <1>2, <1>4, <2>1, <3>1
    <3> QED BY <3>2, <3>3, <3>4 DEF Calling, IsRecursive
  <2>3. CASE i = len
    <3>1. more[i] = p.ctx /\ more[i + 1] = n + 1 /\ starts[i] = at[len] /\ starts[i + 1] = taken
      BY <1>1, <1>2, <1>4, <2>1, <2>3
    <3>2. Spells(G, old, Len(old), at[len], taken)
      BY DEF Laid, Current
    <3>3. CASE IsRecursive(q, n + 1)
      BY <3>1, <3>2, <3>3 DEF Calling
    <3>4. CASE ~IsRecursive(q, n + 1)
      <4> DEFINE k    == Len(old)
                 leaf == [kind |-> "rule", at |-> n + 1]
      <4>1. new = Append(old, leaf)
        BY <3>4
      <4>2. old \in Seq(Children(n))
        BY <1>1, ChildrenFacts
      <4> HIDE DEF leaf, new, old
      <4>3. /\ Len(new) = k + 1 /\ k \in Nat /\ (\A j \in 1 .. k : new[j] = old[j])
            /\ new[k + 1] = leaf
        BY <4>1, <4>2, OneMore
      <4>4. Spells(G, new, k, at[len], taken)
        <5>1. Widens(G, G)
          BY DEF Widens
        <5> QED BY <3>2, <4>3, <5>1, SpellsAlike
      <4> HIDE DEF k
      <4>5. Len(new) # 0 /\ Len(new) - 1 = k
        BY <4>3
      <4>6. /\ new[Len(new)] = [kind |-> "rule", at |-> n + 1]
            /\ Spells(G, new, Len(new) - 1, at[len], taken)
        BY <4>3, <4>4, <4>5 DEF leaf
      <4> QED BY <3>1, <3>4, <4>5, <4>6 DEF Calling, new
    <3> QED BY <3>3, <3>4
  <2> QED BY <2>2, <2>3
<1>10. Current(q, more, starts, G, taken)
  <2>1. Len(<<>>) = 0
    OBVIOUS
  <2>2. starts[Len(more)] = taken
    BY <1>2, <1>4
  <2>3. Spells(G, <<>>, 0, taken, taken)
    BY <1>3, SpellsNothing
  <2> QED BY <2>1, <2>2, <2>3 DEF Current
<1>11. Laid(q, more, starts, G, taken)
  BY <1>3, <1>7, <1>8, <1>9, <1>10 DEF Laid
<1> QED BY <1>11

-----------------------------------------------------------------------------
(* A context is complete. *)

(* The rules among children that follow one another have spans. *)
LEMMA SpelledKnown ==
  ASSUME NEW G, NEW k \in Nat, NEW children, NEW a, NEW b, Spells(G, children, k, a, b)
  PROVE  \A i \in 1 .. k : children[i].kind = "rule" => children[i].at \in DOMAIN G
<1>1. PICK m \in [0 .. k -> Nat] :
        m[0] = a /\ m[k] = b /\ \A i \in 1 .. k : Leads(G, children[i], m[i - 1], m[i])
  BY DEF Spells
<1> QED BY <1>1 DEF Leads

(* A node stays complete when more spans are known. *)
LEMMA CompleteWidens ==
  ASSUME NEW p, NEW q, NEW G, NEW H, Widens(G, H), NEW c \in DOMAIN G, Complete(p, G, c),
         Len(p.tree[c].children) \in Nat, q.tree[c].children = p.tree[c].children,
         q.tree[c].start = p.tree[c].start, q.tree[c].stop = p.tree[c].stop
  PROVE  Complete(q, H, c)
<1> DEFINE children == p.tree[c].children
           k        == Len(children)
<1>1. Spells(G, children, k, G[c].from, G[c].to) /\ H[c] = G[c] /\ k \in Nat
  BY DEF Complete, Widens
<1>2. Spells(H, children, k, H[c].from, H[c].to)
  <2> HIDE DEF children, k
  <2> QED BY <1>1, SpellsWidens
<1>3. \A i \in 1 .. k : children[i].kind = "rule" => H[children[i].at].rank < H[c].rank
  <2>1. \A i \in 1 .. k : children[i].kind = "rule" => children[i].at \in DOMAIN G
    BY <1>1, SpelledKnown
  <2>2. \A i \in 1 .. k : children[i].kind = "rule" => G[children[i].at].rank < G[c].rank
    BY DEF Complete
  <2> HIDE DEF children, k
  <2> QED BY <1>1, <2>1, <2>2 DEF Widens
<1> QED BY <1>1, <1>2, <1>3 DEF Complete

(* H has a span for the current context of p too, which q has ended. *)
Closes(p, q, calls, at, G, taken, H) ==
  /\ H \in [DOMAIN G \cup {p.ctx} -> Spans] /\ Widens(G, H)
  /\ H[p.ctx].from = at[Len(calls)] /\ H[p.ctx].to = taken
  /\ \E M \in Nat : \A c \in DOMAIN H : H[c].rank < M
  /\ \A c \in DOMAIN H : Complete(q, H, c)

Stops(p, q, taken) ==
  \/ q.tree[p.ctx].stop = Clamp(taken) - 1
  \/ q.tree[p.ctx].stop = Len(input) /\ taken > Len(input)

LEMMA SpansClosed ==
  ASSUME NEW p, Typed(p), NEW calls, NEW at, NEW G, NEW taken, Laid(p, calls, at, G, taken),
         NEW q, Stops(p, q, taken),
         \A c \in DOMAIN G \cup {p.ctx} :
           /\ q.tree[c].children = p.tree[c].children /\ q.tree[c].start = p.tree[c].start
           /\ c # p.ctx => q.tree[c].stop = p.tree[c].stop
  PROVE  \E H : Closes(p, q, calls, at, G, taken, H)
<1> DEFINE len == Len(calls)
           D   == DOMAIN G \cup {p.ctx}
<1>1. Placed(p, calls, at, G)
  BY LaidFacts
<1>2. /\ \A c \in DOMAIN G : c \in 1 .. Len(p.tree) /\ c # p.ctx /\ G[c] \in Spans
      /\ p.ctx \in 1 .. Len(p.tree) /\ len \in Nat /\ len \in 1 .. len /\ p.ctx = calls[len]
      /\ at[len] \in Nat
  BY <1>1 DEF Placed
<1>3. AreSpans(p, calls, G) /\ AreUnderWay(p, calls, at) /\ Current(p, calls, at, G, taken)
      /\ taken \in Nat
  BY DEF Laid
<1>4. PICK M \in Nat : \A c \in DOMAIN G : G[c].rank < M
  BY <1>3 DEF AreSpans
<1>5. \A c \in D : Len(p.tree[c].children) \in Nat
  <2>1. \A c \in D : c \in 1 .. Len(p.tree)
    BY <1>2
  <2>2. \A c \in 1 .. Len(p.tree) : Len(p.tree[c].children) \in Nat
    BY ChildrenFacts
  <2> QED BY <2>1, <2>2
<1> DEFINE span == [from |-> at[len], to |-> taken, rank |-> M]
           H    == [c \in D |-> IF c = p.ctx THEN span ELSE G[c]]
<1>6. span \in Spans /\ span.from = at[len] /\ span.to = taken /\ span.rank = M
  BY <1>2, <1>3 DEF Spans
<1> HIDE DEF span, len
<1>7. H \in [D -> Spans] /\ H[p.ctx] = span /\ \A c \in DOMAIN G : c \in D /\ H[c] = G[c]
  BY <1>2, <1>6
<1> HIDE DEF H
<1>8. Widens(G, H)
  BY <1>7 DEF Widens
<1>9. ASSUME NEW c \in DOMAIN G PROVE Complete(q, H, c)
  <2>1. Complete(p, G, c) /\ c \in D /\ c # p.ctx
    BY <1>2, <1>3 DEF AreSpans
  <2> QED BY <1>5, <1>8, <2>1, CompleteWidens
<1>10. Complete(q, H, p.ctx)
  <2> DEFINE children == p.tree[p.ctx].children
             k        == Len(children)
  <2>1. Spells(G, children, k, at[len], taken) /\ k \in Nat
    BY <1>3, <1>5 DEF Current, len
  <2>2. q.tree[p.ctx].children = children /\ q.tree[p.ctx].start = p.tree[p.ctx].start
    OBVIOUS
  <2> HIDE DEF children, k
  <2>3. Spells(H, children, k, at[len], taken)
    BY <1>8, <2>1, SpellsWidens
  <2>4. \A i \in 1 .. k : children[i].kind = "rule" => H[children[i].at].rank < M
    <3>1. \A i \in 1 .. k : children[i].kind = "rule" => children[i].at \in DOMAIN G
      BY <2>1, SpelledKnown
    <3> QED BY <1>4, <1>7, <3>1
  <2>5. p.tree[p.ctx].start = Clamp(at[len])
    BY <1>2, <1>3 DEF AreUnderWay, len
  <2> QED BY <1>6, <1>7, <2>2, <2>3, <2>4, <2>5 DEF Complete, Stops, k
<1>11. M + 1 \in Nat /\ \A c \in D : H[c].rank < M + 1
  <2>1. \A c \in DOMAIN G : G[c].rank \in Nat /\ G[c].rank < M
    BY <1>2, <1>4 DEF Spans
  <2> QED BY <1>6, <1>7, <2>1
<1>12. Closes(p, q, calls, at, G, taken, H)
  <2>1. DOMAIN H = D
    BY <1>7
  <2>2. \A c \in D : Complete(q, H, c)
    BY <1>9, <1>10
  <2> QED BY <1>6, <1>7, <1>8, <1>11, <2>1, <2>2 DEF Closes, len
<1> QED BY <1>12

(* What has called another leads to it still. *)
LEMMA CallingWidens ==
  ASSUME NEW p, NEW q, NEW calls, NEW more, NEW at, NEW starts, NEW G, NEW H, Widens(G, H),
         NEW i, Calling(p, calls, at, G, i), more[i] = calls[i],
         starts[i] = at[i], starts[i + 1] = at[i + 1],
         Len(p.tree[calls[i]].children) \in Nat,
         q.tree[more[i]].children = p.tree[calls[i]].children,
         IsRecursive(q, more[i + 1]) <=> IsRecursive(p, calls[i + 1]),
         ~IsRecursive(q, more[i + 1]) => more[i + 1] = calls[i + 1]
  PROVE  Calling(q, more, starts, H, i)
<1> DEFINE children == p.tree[calls[i]].children
           k        == Len(children)
<1>1. k \in Nat /\ q.tree[more[i]].children = children
  OBVIOUS
<1>2. CASE IsRecursive(q, more[i + 1])
  <2>1. Spells(G, children, k, at[i], at[i + 1])
    BY <1>2 DEF Calling
  <2> HIDE DEF children, k
  <2>2. Spells(H, children, k, at[i], at[i + 1])
    BY <1>1, <2>1, SpellsWidens
  <2> QED BY <1>1, <1>2, <2>2 DEF Calling, k
<1>3. CASE ~IsRecursive(q, more[i + 1])
  <2>1. /\ k # 0 /\ children[k] = [kind |-> "rule", at |-> calls[i + 1]]
        /\ Spells(G, children, k - 1, at[i], at[i + 1])
    BY <1>3 DEF Calling
  <2>2. k - 1 \in Nat
    BY <1>1, <2>1
  <2> HIDE DEF children, k
  <2>3. Spells(H, children, k - 1, at[i], at[i + 1])
    BY <2>1, <2>2, SpellsWidens
  <2> QED BY <1>1, <1>3, <2>1, <2>3 DEF Calling, k
<1> QED BY <1>2, <1>3

(* The current context becomes the left operand of a new one. *)
RegroupsTree(p, q) ==
  /\ SamePlace(p, q) /\ Len(q.tree) = Len(p.tree) + 1 /\ q.ctx = Len(p.tree) + 1
  /\ \A c \in 1 .. Len(p.tree) :
       /\ q.tree[c].rule = p.tree[c].rule /\ q.tree[c].start = p.tree[c].start
       /\ q.tree[c].children = p.tree[c].children
       /\ c # p.ctx => q.tree[c].stop = p.tree[c].stop
  /\ q.tree[p.ctx].stop = p.index - 1
  /\ q.tree[q.ctx].children = <<[kind |-> "rule", at |-> p.ctx]>>
  /\ q.tree[q.ctx].start = p.tree[p.ctx].start /\ q.tree[q.ctx].rule = p.tree[p.ctx].rule

LEMMA LaidRegrouped ==
  ASSUME NEW p, Typed(p), NEW calls, NEW at, NEW G, NEW taken, Laid(p, calls, at, G, taken),
         IsRecursive(p, p.ctx), NEW q, RegroupsTree(p, q),
         Chain(q, [calls EXCEPT ![Len(calls)] = Len(p.tree) + 1])
  PROVE  \E more, starts, H : Laid(q, more, starts, H, taken)
<1> USE DEF RegroupsTree, SamePlace
<1> DEFINE n    == Len(p.tree)
           len  == Len(calls)
           more == [calls EXCEPT ![len] = n + 1]
<1>1. Placed(p, calls, at, G)
  BY LaidFacts
<1>2. /\ n \in Nat /\ p.root \in 1 .. n /\ len \in 1 .. n
      /\ \A i \in 1 .. len : calls[i] \in Made(p) /\ calls[i] \in 1 .. n /\ at[i] \in Nat
      /\ \A i, j \in 1 .. len : calls[i] = calls[j] => i = j
      /\ p.ctx = calls[len] /\ p.ctx \in 1 .. n /\ p.ctx \in Made(p) /\ calls \in Seq(1 .. n)
      /\ DOMAIN G = Made(p) \ InvolvedIn(calls)
      /\ \A c \in DOMAIN G : c \in 1 .. n /\ c # p.ctx
  BY <1>1, Zenon DEF Placed
<1>3. PICK H : Closes(p, q, calls, at, G, taken, H)
  <2>1. \A c \in DOMAIN G \cup {p.ctx} : c \in 1 .. n
    BY <1>2
  <2>2. Stops(p, q, taken)
    BY DEF Stops, Laid
  <2> QED BY <2>1, <2>2, SpansClosed
<1>4. AreUnderWay(p, calls, at) /\ taken \in Nat /\ p.index = Clamp(taken)
  BY DEF Laid
<1>5. /\ Chain(q, more) /\ Len(more) = len /\ len \in 1 .. len
      /\ \A i \in 1 .. len : more[i] = IF i = len THEN n + 1 ELSE calls[i]
  <2>1. calls \in Seq(1 .. n) /\ len \in 1 .. len
    BY <1>2
  <2> QED BY <2>1
<1> HIDE DEF more
<1>6. more # <<>> /\ n + 1 \notin 1 .. n
  <2>1. Len(more) # 0 /\ Len(<<>>) = 0
    BY <1>2, <1>5
  <2> QED BY <1>2, <2>1
<1>7. Made(q) = Made(p) \cup {n + 1} /\ \A c \in Made(p) : c \in 1 .. n
  BY <1>2 DEF Made
<1>8. InvolvedIn(more) = (InvolvedIn(calls) \ {p.ctx}) \cup {n + 1}
  <2>1. \A i \in 1 .. len : calls[i] = p.ctx <=> i = len
    BY <1>2, <1>5
  <2>2. \A c : c \in InvolvedIn(more) <=> c \in (InvolvedIn(calls) \ {p.ctx}) \cup {n + 1}
    BY <1>5, <2>1 DEF InvolvedIn
  <2> QED BY <2>2
<1>9. DOMAIN H = Made(q) \ InvolvedIn(more)
  <2>1. p.ctx \in InvolvedIn(calls) /\ p.ctx \in Made(p) /\ n + 1 \notin Made(p)
    BY <1>2, <1>5, <1>6, <1>7 DEF InvolvedIn
  <2>2. DOMAIN H = DOMAIN G \cup {p.ctx}
    BY <1>3 DEF Closes
  <2> QED BY <1>2, <1>7, <1>8, <2>1, <2>2
<1>10. AreSpans(q, more, H)
  <2>1. /\ H \in [DOMAIN H -> Spans] /\ (\E M \in Nat : \A c \in DOMAIN H : H[c].rank < M)
        /\ \A c \in DOMAIN H : Complete(q, H, c)
    BY <1>3 DEF Closes
  <2> QED BY <1>9, <2>1 DEF AreSpans
<1>11. AreUnderWay(q, more, at)
  <2>1. InvolvedIn(more) \subseteq Made(q)
    BY <1>4, <1>7, <1>8 DEF AreUnderWay
  <2>2. \A i \in 1 .. len : q.tree[more[i]].start = Clamp(at[i])
                           /\ q.tree[more[i]].rule = p.tree[calls[i]].rule
    <3> TAKE i \in 1 .. len
    <3>1. p.tree[calls[i]].start = Clamp(at[i])
      BY <1>4 DEF AreUnderWay
    <3>2. CASE i = len
      BY <1>2, <1>5, <3>1, <3>2
    <3>3. CASE i # len
      <4>1. more[i] = calls[i] /\ calls[i] \in 1 .. n
        BY <1>2, <1>5, <3>3
      <4> QED BY <3>1, <4>1
    <3> QED BY <3>2, <3>3
  <2>3. 1 \in 1 .. len
    BY <1>2
  <2>4. p.tree[calls[1]].rule = StartRule
    BY <1>4 DEF AreUnderWay
  <2>5. StartRule \notin g.precedenceRules => more[1] = q.root
    <3>1. 1 = len => StartRule \in g.precedenceRules
      BY <1>2, <2>4 DEF IsRecursive
    <3>2. 1 # len => more[1] = calls[1]
      BY <1>5, <2>3
    <3> QED BY <1>4, <3>1, <3>2 DEF AreUnderWay
  <2> QED BY <1>4, <1>5, <1>6, <2>1, <2>2, <2>3, <2>4, <2>5 DEF AreUnderWay
<1>12. ASSUME NEW i \in 1 .. Len(more) - 1 PROVE Calling(q, more, at, H, i)
  <2>1. i \in 1 .. len /\ i + 1 \in 1 .. len /\ i # len /\ i \in 1 .. len - 1
    <3>1. i \in 1 .. len - 1 /\ len \in Nat
      BY <1>2, <1>5
    <3> HIDE DEF len, RegroupsTree
    <3> QED BY <3>1
  <2>2. more[i] = calls[i] /\ calls[i] \in 1 .. n /\ Calling(p, calls, at, G, i)
    BY <1>2, <1>5, <2>1 DEF Laid
  <2>3. Len(p.tree[calls[i]].children) \in Nat
    <3>1. \A c \in 1 .. Len(p.tree) : Len(p.tree[c].children) \in Nat
      BY ChildrenFacts
    <3> QED BY <2>2, <3>1
  <2>4. q.tree[more[i]].children = p.tree[calls[i]].children
    BY <2>2
  <2>5. /\ IsRecursive(q, more[i + 1]) <=> IsRecursive(p, calls[i + 1])
        /\ ~IsRecursive(q, more[i + 1]) => more[i + 1] = calls[i + 1]
    <3>1. CASE i + 1 = len
      <4>1. more[i + 1] = q.ctx /\ calls[i + 1] = p.ctx
        BY <1>2, <1>5, <3>1
      <4>2. q.tree[q.ctx].rule = p.tree[p.ctx].rule
        OBVIOUS
      <4> HIDE DEF RegroupsTree, n, len
      <4> QED BY <4>1, <4>2, Zenon DEF IsRecursive
    <3>2. CASE i + 1 # len
      <4>1. more[i + 1] = calls[i + 1] /\ calls[i + 1] \in 1 .. n
        <5> HIDE DEF RegroupsTree, n, len
        <5> QED BY <1>2, <1>5, <2>1, <3>2
      <4>2. q.tree[more[i + 1]].rule = p.tree[calls[i + 1]].rule
        BY <4>1
      <4> HIDE DEF RegroupsTree, n, len
      <4> QED BY <4>1, <4>2, Zenon DEF IsRecursive
    <3> QED BY <3>1, <3>2
  <2>6. Widens(G, H)
    BY <1>3 DEF Closes
  <2> QED BY <2>2, <2>3, <2>4, <2>5, <2>6, CallingWidens
<1>13. Current(q, more, at, H, taken)
  <2> DEFINE leaf     == [kind |-> "rule", at |-> p.ctx]
             children == <<leaf>>
  <2>1. Len(children) = 1 /\ children[0 + 1] = leaf /\ q.tree[q.ctx].children = children
    <3> HIDE DEF leaf
    <3>1. Len(<<leaf>>) = 1 /\ <<leaf>>[0 + 1] = leaf
      OBVIOUS
    <3> QED BY <3>1 DEF leaf
  <2>2. Leads(H, leaf, at[len], taken)
    <3>1. p.ctx \in DOMAIN H /\ H[p.ctx].from = at[len] /\ H[p.ctx].to = taken
      BY <1>3 DEF Closes
    <3> QED BY <3>1 DEF Leads
  <2> HIDE DEF children, leaf
  <2>3. Spells(H, children, 0, at[len], at[len]) /\ at[len] \in Nat
    BY <1>2, <1>5, SpellsNothing
  <2>4. Spells(H, children, 0 + 1, at[len], taken)
    <3>1. Leads(H, children[0 + 1], at[len], taken) /\ 0 \in Nat
      BY <2>1, <2>2
    <3> QED BY <1>4, <2>3, <3>1, SpellsOn
  <2> QED BY <1>5, <2>1, <2>4 DEF Current
<1>14. Laid(q, more, at, H, taken)
  BY <1>4, <1>10, <1>11, <1>12, <1>13 DEF Laid
<1> QED BY <1>14

(* The rule of the current context ends: a left-recursive one joins the    *)
(* tree then, where its caller's children have led.                        *)
ReturnsTree(p, q) ==
  /\ SamePlace(p, q) /\ Len(q.tree) = Len(p.tree) /\ q.ctx = p.tree[p.ctx].parent
  /\ \A c \in 1 .. Len(p.tree) :
       /\ q.tree[c].rule = p.tree[c].rule /\ q.tree[c].start = p.tree[c].start
       /\ c # q.ctx => q.tree[c].children = p.tree[c].children
       /\ c # p.ctx => q.tree[c].stop = p.tree[c].stop
  /\ \/ q.tree[p.ctx].stop = p.index - 1
     \/ q.tree[p.ctx].stop = p.index /\ p.matchedEOF
  /\ q.ctx # NoContext =>
       LET old == p.tree[q.ctx].children
       IN q.tree[q.ctx].children =
            IF IsRecursive(p, p.ctx) THEN Append(old, [kind |-> "rule", at |-> p.ctx]) ELSE old

(* The context is complete. *)
LEMMA ReturnStops ==
  ASSUME IsSetUp, NEW p, NEW calls, NEW at, NEW G, NEW taken, Laid(p, calls, at, G, taken),
         p.matchedEOF => taken > Len(input), NEW q, ReturnsTree(p, q)
  PROVE  Stops(p, q, taken)
<1>1. p.index = Clamp(taken) /\ taken \in Nat /\ Len(input) \in Nat
  BY SetUpFacts DEF Laid
<1>2. taken > Len(input) => Clamp(taken) = Len(input)
  BY <1>1 DEF Clamp
<1> QED BY <1>1, <1>2 DEF ReturnsTree, Stops

LEMMA LaidReturned ==
  ASSUME IsSetUp, NEW p, Typed(p),
         NEW calls, NEW at, NEW G, NEW taken, Laid(p, calls, at, G, taken),
         p.matchedEOF => taken > Len(input), Len(calls) # 1,
         NEW q, ReturnsTree(p, q), Chain(q, SubSeq(calls, 1, Len(calls) - 1))
  PROVE  \E more, starts, H : Laid(q, more, starts, H, taken)
<1> USE DEF ReturnsTree, SamePlace
<1> DEFINE n      == Len(p.tree)
           len    == Len(calls)
           l      == len - 1
           more   == SubSeq(calls, 1, l)
           starts == [i \in 1 .. l |-> at[i]]
<1>1. Placed(p, calls, at, G)
  BY LaidFacts
<1>2. /\ n \in Nat /\ p.root \in 1 .. n /\ len \in 1 .. n
      /\ \A i \in 1 .. len : calls[i] \in Made(p) /\ calls[i] \in 1 .. n /\ at[i] \in Nat
      /\ \A i, j \in 1 .. len : calls[i] = calls[j] => i = j
      /\ p.ctx = calls[len] /\ p.ctx \in 1 .. n /\ p.ctx \in Made(p) /\ calls \in Seq(1 .. n)
      /\ DOMAIN G = Made(p) \ InvolvedIn(calls)
      /\ \A c \in DOMAIN G : c \in 1 .. n /\ c # p.ctx /\ \A i \in 1 .. len : calls[i] # c
  BY <1>1, Zenon DEF Placed
<1>3. /\ l \in 1 .. len /\ l + 1 = len /\ l \in Nat /\ l # 0 /\ len \in 1 .. len /\ l # len
      /\ \A i \in 1 .. l : i \in 1 .. len /\ i # len
      /\ l \in 1 .. l /\ 1 \in 1 .. l
      /\ \A i \in 1 .. len : i # len => i \in 1 .. l
      /\ \A i \in 1 .. l - 1 :
           /\ i \in 1 .. l /\ i + 1 \in 1 .. l /\ i # l /\ i \in 1 .. len - 1
           /\ i \in 1 .. len /\ i + 1 \in 1 .. len
  <2>1. len \in Nat /\ len >= 1 /\ len # 1
    BY <1>2
  <2> HIDE DEF len
  <2>2. /\ l \in 1 .. len /\ l + 1 = len /\ l \in Nat /\ l # 0 /\ len \in 1 .. len /\ l # len
        /\ l \in 1 .. l /\ 1 \in 1 .. l
    BY <2>1
  <2>3. \A i \in 1 .. l : i \in 1 .. len /\ i # len
    BY <2>1
  <2>4. \A i \in 1 .. len : i # len => i \in 1 .. l
    BY <2>1
  <2>5. \A i \in 1 .. l - 1 :
          /\ i \in 1 .. l /\ i + 1 \in 1 .. l /\ i # l /\ i \in 1 .. len - 1
          /\ i \in 1 .. len /\ i + 1 \in 1 .. len
    BY <2>1
  <2> QED BY <2>2, <2>3, <2>4, <2>5
<1>4. q.ctx = calls[l] /\ q.ctx # p.ctx /\ q.ctx \in 1 .. n /\ q.ctx # NoContext
  <2>1. Chain(p, calls)
    BY DEF Laid, AreUnderWay
  <2>2. p.tree[calls[len]].parent = calls[l]
    <3>1. len # 1
      OBVIOUS
    <3> HIDE DEF l
    <3> QED BY <1>2, <1>3, <2>1, <3>1 DEF Chain
  <2> HIDE DEF l, len
  <2>3. q.ctx = calls[l]
    BY <1>2, <2>2
  <2>4. calls[l] \in 1 .. n /\ calls[l] # calls[len]
    BY <1>2, <1>3
  <2> QED BY <1>2, <2>3, <2>4 DEF NoContext
<1>5. PICK H : Closes(p, q, calls, at, G, taken, H)
  <2>1. \A c \in DOMAIN G \cup {p.ctx} : c \in 1 .. n /\ c # q.ctx
    <3> HIDE DEF l, len
    <3>1. \A c \in DOMAIN G : c \in 1 .. n /\ c # calls[l]
      BY <1>2, <1>3
    <3> QED BY <1>2, <1>4, <3>1
  <2>2. Stops(p, q, taken)
    BY ReturnStops
  <2> QED BY <2>1, <2>2, SpansClosed
<1>6. AreUnderWay(p, calls, at) /\ taken \in Nat /\ p.index = Clamp(taken)
  BY DEF Laid
<1>7. /\ Chain(q, more) /\ Len(more) = l /\ \A i \in 1 .. l : more[i] = calls[i]
  <2>1. calls \in Seq(1 .. n) /\ l \in 1 .. len /\ Chain(q, more)
    BY <1>2, <1>3
  <2> HIDE DEF l
  <2> QED BY <2>1, FrontFacts
<1>8. starts \in [1 .. l -> Nat] /\ \A i \in 1 .. l : starts[i] = at[i]
  BY <1>2, <1>3
<1> HIDE DEF more, starts
<1>9. more # <<>>
  <2>1. Len(<<>>) = 0
    OBVIOUS
  <2> QED BY <1>3, <1>7, <2>1
<1>10. Made(q) = Made(p)
  BY DEF Made
<1>11. InvolvedIn(more) = InvolvedIn(calls) \ {p.ctx}
  <2> HIDE DEF l
  <2>1. \A i \in 1 .. len : calls[i] = p.ctx <=> i = len
    BY <1>2, <1>3
  <2>2. \A c : c \in InvolvedIn(more) <=> c \in InvolvedIn(calls) /\ c # p.ctx
    <3>1. \A c : c \in InvolvedIn(calls) <=> \E i \in 1 .. len : calls[i] = c
      BY Zenon DEF InvolvedIn
    <3>2. \A c : c \in InvolvedIn(more) <=> \E i \in 1 .. l : more[i] = c
      BY <1>7, Zenon DEF InvolvedIn
    <3>3. /\ \A i \in 1 .. l : i \in 1 .. len /\ i # len /\ more[i] = calls[i]
          /\ \A i \in 1 .. len : i # len => i \in 1 .. l
      BY <1>3, <1>7
    <3> HIDE DEF len, l
    <3>4. ASSUME NEW c, c \in InvolvedIn(more) PROVE c \in InvolvedIn(calls) /\ c # p.ctx
      <4>1. PICK i \in 1 .. l : more[i] = c
        BY <3>2, <3>4
      <4>2. i \in 1 .. len /\ i # len /\ calls[i] = c
        BY <3>3, <4>1
      <4> QED BY <2>1, <3>1, <4>2
    <3>5. ASSUME NEW c, c \in InvolvedIn(calls), c # p.ctx PROVE c \in InvolvedIn(more)
      <4>1. PICK i \in 1 .. len : calls[i] = c
        BY <3>1, <3>5
      <4>2. i \in 1 .. l
        BY <2>1, <3>3, <3>5, <4>1
      <4>3. more[i] = c
        BY <3>3, <4>1, <4>2
      <4> QED BY <3>2, <4>2, <4>3
    <3> QED BY <3>4, <3>5
  <2> QED BY <2>2
<1>12. AreSpans(q, more, H)
  <2>1. /\ H \in [DOMAIN H -> Spans] /\ (\E M \in Nat : \A c \in DOMAIN H : H[c].rank < M)
        /\ (\A c \in DOMAIN H : Complete(q, H, c)) /\ DOMAIN H = DOMAIN G \cup {p.ctx}
    BY <1>5 DEF Closes
  <2>2. p.ctx \in InvolvedIn(calls)
    BY <1>2, <1>3 DEF InvolvedIn
  <2>3. DOMAIN H = Made(q) \ InvolvedIn(more)
    BY <1>2, <1>10, <1>11, <2>1, <2>2
  <2> QED BY <2>1, <2>3 DEF AreSpans
<1>13. AreUnderWay(q, more, starts)
  <2>1. InvolvedIn(more) \subseteq Made(q)
    BY <1>6, <1>10, <1>11 DEF AreUnderWay
  <2>2. \A i \in 1 .. l : q.tree[more[i]].start = Clamp(starts[i])
                         /\ q.tree[more[i]].rule = p.tree[calls[i]].rule
    <3> TAKE i \in 1 .. l
    <3>1. p.tree[calls[i]].start = Clamp(at[i]) /\ calls[i] \in 1 .. n
      BY <1>2, <1>3, <1>6 DEF AreUnderWay
    <3> QED BY <1>7, <1>8, <3>1
  <2> HIDE DEF l, len
  <2> QED BY <1>3, <1>6, <1>7, <1>8, <1>9, <2>1, <2>2 DEF AreUnderWay
<1>14. ASSUME NEW i \in 1 .. Len(more) - 1 PROVE Calling(q, more, starts, H, i)
  <2>1. i \in 1 .. l /\ i + 1 \in 1 .. l /\ i # l /\ i \in 1 .. len - 1
    BY <1>3, <1>7
  <2>2. /\ more[i] = calls[i] /\ calls[i] \in 1 .. n /\ Calling(p, calls, at, G, i)
        /\ more[i + 1] = calls[i + 1] /\ calls[i + 1] \in 1 .. n
        /\ starts[i] = at[i] /\ starts[i + 1] = at[i + 1] /\ calls[i] # q.ctx
    <3>1. Calling(p, calls, at, G, i)
      BY <2>1 DEF Laid
    <3> HIDE DEF l, len
    <3>2. calls[i] \in 1 .. n /\ calls[i + 1] \in 1 .. n /\ calls[i] # q.ctx
      <4>1. i \in 1 .. len /\ i + 1 \in 1 .. len
        BY <1>3, <1>7
      <4>2. calls[i] = calls[l] => i = l
        BY <1>2, <1>3, <4>1
      <4> QED BY <1>2, <1>4, <2>1, <4>1, <4>2
    <3> QED BY <1>7, <1>8, <2>1, <3>1, <3>2
  <2>3. Len(p.tree[calls[i]].children) \in Nat
    <3>1. \A c \in 1 .. Len(p.tree) : Len(p.tree[c].children) \in Nat
      BY ChildrenFacts
    <3> QED BY <2>2, <3>1
  <2>4. q.tree[more[i]].children = p.tree[calls[i]].children
    BY <2>2
  <2>5. IsRecursive(q, more[i + 1]) <=> IsRecursive(p, calls[i + 1])
    BY <2>2 DEF IsRecursive
  <2>6. Widens(G, H)
    BY <1>5 DEF Closes
  <2> QED BY <2>2, <2>3, <2>4, <2>5, <2>6, CallingWidens
<1>15. Current(q, more, starts, H, taken)
  <2> DEFINE leaf == [kind |-> "rule", at |-> p.ctx]
             old  == p.tree[q.ctx].children
             new  == q.tree[q.ctx].children
             k    == Len(old)
  <2>1. Calling(p, calls, at, G, l) /\ starts[Len(more)] = at[l] /\ Widens(G, H)
        /\ calls[l + 1] = p.ctx
    <3>1. l \in 1 .. len - 1
      BY <1>3
    <3> QED BY <1>2, <1>3, <1>5, <1>7, <1>8, <3>1 DEF Laid, Closes
  <2>2. Leads(H, leaf, at[len], taken)
    <3>1. p.ctx \in DOMAIN H /\ H[p.ctx].from = at[len] /\ H[p.ctx].to = taken
      BY <1>5 DEF Closes
    <3> QED BY <3>1 DEF Leads
  <2>3. old \in Seq(Children(n)) /\ k \in Nat
    BY <1>4, ChildrenFacts
  <2>4. CASE IsRecursive(p, p.ctx)
    <3>1. Spells(G, old, k, at[l], at[len]) /\ new = Append(old, leaf)
      BY <1>3, <1>4, <2>1, <2>4 DEF Calling
    <3> HIDE DEF leaf, old, new, l, len
    <3>2. /\ Len(new) = k + 1 /\ (\A j \in 1 .. k : new[j] = old[j]) /\ new[k + 1] = leaf
      BY <2>3, <3>1, OneMore
    <3> HIDE DEF k, ReturnsTree
    <3>3. Spells(H, new, k, at[l], at[len])
      BY <2>1, <2>3, <3>1, <3>2, SpellsAlike
    <3>4. Spells(H, new, k + 1, at[l], taken)
      BY <1>6, <2>2, <2>3, <3>2, <3>3, SpellsOn
    <3> QED BY <2>1, <3>2, <3>4 DEF Current, new
  <2>5. CASE ~IsRecursive(p, p.ctx)
    <3>1. /\ k # 0 /\ old[k] = leaf /\ Spells(G, old, k - 1, at[l], at[len]) /\ new = old
      BY <1>3, <1>4, <2>1, <2>5 DEF Calling
    <3> HIDE DEF leaf, old, new, k, l, len, n, ReturnsTree
    <3>2. k - 1 \in Nat /\ k - 1 + 1 = k
      BY <2>3, <3>1
    <3>3. Spells(H, old, k - 1, at[l], at[len])
      BY <2>1, <3>1, <3>2, SpellsWidens
    <3>4. Spells(H, old, k - 1 + 1, at[l], taken)
      BY <1>6, <2>2, <3>1, <3>2, <3>3, SpellsOn
    <3> QED BY <2>1, <3>1, <3>2, <3>4 DEF Current, new, k
  <2> QED BY <2>4, <2>5
<1>16. Laid(q, more, starts, H, taken)
  BY <1>6, <1>12, <1>13, <1>14, <1>15 DEF Laid
<1> QED BY <1>16

(* The last rule ends: every context of this parse is complete.            *)
IsDone(p, G, T) ==
  /\ G \in [Made(p) -> Spans] /\ \A c \in Made(p) : Complete(p, G, c)
  /\ p.result \in Made(p) /\ G[p.result].from = 0 /\ G[p.result].to = T
  /\ T \in Nat /\ p.index = Clamp(T)

Done(p) == \E G, T : IsDone(p, G, T)

LEMMA LaidEnded ==
  ASSUME IsSetUp, NEW p, Typed(p),
         NEW calls, NEW at, NEW G, NEW taken, Laid(p, calls, at, G, taken),
         p.matchedEOF => taken > Len(input), Len(calls) = 1,
         NEW q, ReturnsTree(p, q), q.ctx = NoContext,
         q.result = IF StartRule \in g.precedenceRules THEN p.ctx ELSE p.root
  PROVE  Done(q)
<1> DEFINE n == Len(p.tree)
<1>1. Placed(p, calls, at, G)
  BY LaidFacts
<1>2. /\ n \in Nat /\ p.ctx = calls[1] /\ p.ctx \in 1 .. n /\ p.ctx \in Made(p)
      /\ DOMAIN G = Made(p) \ InvolvedIn(calls)
      /\ \A c \in DOMAIN G : c \in 1 .. n /\ c # p.ctx
  BY <1>1 DEF Placed
<1>3. /\ at[1] = 0 /\ (StartRule \notin g.precedenceRules => calls[1] = p.root)
      /\ taken \in Nat /\ p.index = Clamp(taken)
  BY DEF Laid, AreUnderWay
<1>4. InvolvedIn(calls) = {p.ctx}
  <2>1. 1 .. Len(calls) = {1}
    OBVIOUS
  <2> QED BY <1>2, <2>1 DEF InvolvedIn
<1>5. PICK H : Closes(p, q, calls, at, G, taken, H)
  <2>1. Stops(p, q, taken)
    BY ReturnStops
  <2>2. \A c \in DOMAIN G \cup {p.ctx} : c \in 1 .. n /\ c # q.ctx
    BY <1>2 DEF NoContext
  <2>3. \A c \in DOMAIN G \cup {p.ctx} :
          /\ q.tree[c].children = p.tree[c].children /\ q.tree[c].start = p.tree[c].start
          /\ c # p.ctx => q.tree[c].stop = p.tree[c].stop
    BY <2>2 DEF ReturnsTree
  <2> QED BY <2>1, <2>3, SpansClosed
<1>6. Made(q) = Made(p) /\ q.index = p.index
  BY DEF Made, ReturnsTree, SamePlace
<1>7. DOMAIN G \cup {p.ctx} = Made(q)
  BY <1>2, <1>4, <1>6
<1>8. H \in [Made(q) -> Spans] /\ \A c \in Made(q) : Complete(q, H, c)
  BY <1>5, <1>7 DEF Closes
<1>9. q.result = p.ctx
  BY <1>2, <1>3
<1>10. H[p.ctx].from = 0 /\ H[p.ctx].to = taken
  BY <1>3, <1>5 DEF Closes
<1>11. IsDone(q, H, taken)
  BY <1>2, <1>3, <1>6, <1>8, <1>9, <1>10 DEF IsDone
<1> QED BY <1>11 DEF Done

-----------------------------------------------------------------------------
(* The rules' own operations do so. *)

(* An element is replaced, and another appended. *)
LEMMA ReplacedThenMore ==
  ASSUME NEW S, NEW s \in Seq(S), NEW k \in 1 .. Len(s), NEW v, NEW e
  PROVE  LET t == Append([s EXCEPT ![k] = v], e) IN
         /\ Len(t) = Len(s) + 1 /\ t[Len(s) + 1] = e /\ t[k] = v
         /\ \A i \in 1 .. Len(s) : i # k => t[i] = s[i]
<1> DEFINE T == S \cup {v, e}
           r == [s EXCEPT ![k] = v]
           t == Append(r, e)
<1>1. s \in Seq(T) /\ v \in T /\ e \in T /\ Len(s) \in Nat
  OBVIOUS
<1> HIDE DEF T
<1>2. r \in Seq(T) /\ Len(r) = Len(s) /\ \A i \in 1 .. Len(s) : r[i] = IF i = k THEN v ELSE s[i]
  BY <1>1
<1> HIDE DEF r
<1>3. /\ Len(t) = Len(s) + 1 /\ t[Len(s) + 1] = e /\ \A i \in 1 .. Len(s) : t[i] = r[i]
  BY <1>1, <1>2
<1> HIDE DEF t
<1>4. Len(t) = Len(s) + 1 /\ t[Len(s) + 1] = e /\ t[k] = v
      /\ \A i \in 1 .. Len(s) : i # k => t[i] = s[i]
  BY <1>2, <1>3
<1> QED BY <1>4 DEF t, r

(* A child is added. *)
SameBut(p, q, tree) ==
  /\ DOMAIN q = DOMAIN p /\ q.tree = tree
  /\ \A f \in FieldNames \ {"tree"} : q[f] = p[f]

PutIn(p, q, c, child, v) ==
  /\ SameBut(p, q, [p.tree EXCEPT ![c] = v])
  /\ v.children = Append(p.tree[c].children, child)
  /\ v.rule = p.tree[c].rule /\ v.start = p.tree[c].start /\ v.stop = p.tree[c].stop

LEMMA ChildPut ==
  ASSUME NEW p, FieldNames \subseteq DOMAIN p, NEW c, NEW n, p.tree[c] \in Contexts(n),
         NEW kind, NEW at
  PROVE  \E v : PutIn(p, AddChild(p, c, kind, at), c, [kind |-> kind, at |-> at], v)
<1> DEFINE all == Append(p.tree[c].children, [kind |-> kind, at |-> at])
           v   == [p.tree[c] EXCEPT !.children = all]
           q   == AddChild(p, c, kind, at)
<1>1. q = [p EXCEPT !.tree[c].children = all]
  BY Zenon DEF AddChild
<1> HIDE DEF all
<1>2. v.children = all /\ v.rule = p.tree[c].rule /\ v.start = p.tree[c].start
      /\ v.stop = p.tree[c].stop
  BY DEF Contexts
<1>3. q = [p EXCEPT !.tree = [p.tree EXCEPT ![c] = v]]
  <2> HIDE DEF q
  <2> QED BY <1>1 DEF FieldNames
<1> DEFINE tree == [p.tree EXCEPT ![c] = v]
<1> HIDE DEF v, q
<1>4. q = [p EXCEPT !.tree = tree]
  BY <1>3
<1> HIDE DEF tree
<1>5. SameBut(p, q, tree)
  BY <1>4 DEF SameBut, FieldNames
<1>6. PutIn(p, q, c, [kind |-> kind, at |-> at], v)
  BY <1>2, <1>5 DEF all, tree, PutIn
<1> QED BY <1>6 DEF q

(* A new context has no children, and starts at the cursor. *)
LEMMA NewContextFacts ==
  ASSUME NEW r, NEW parent, NEW invoking, NEW start
  PROVE  LET c == NewContext(r, parent, invoking, start) IN
         c.rule = r /\ c.children = <<>> /\ c.start = start
BY DEF NewContext

LEMMA EnterRuleTree ==
  ASSUME NEW p, Typed(p), UnderWay(p), NEW t, t.rule \notin g.precedenceRules
  PROVE  EntersTree(p, EnterRule(p, t))
<1> DEFINE n    == Len(p.tree)
           c    == p.ctx
           kind == "rule"
           m    == AddChild(p, c, kind, n + 1)
           node == NewContext(t.rule, p.ctx, p.state, p.index)
           q    == EnterRule(p, t)
<1>1. n \in Nat /\ c \in 1 .. n /\ p.tree \in Seq(Contexts(n)) /\ p.tree[c] \in Contexts(n)
      /\ FieldNames \subseteq DOMAIN p
  BY DEF Typed, Shaped, IsTree, UnderWay, NoContext
<1>2. PICK v : PutIn(p, m, c, [kind |-> kind, at |-> n + 1], v)
  <2> DEFINE here == n + 1
  <2> HIDE DEF kind, here, c
  <2>1. \E v : PutIn(p, AddChild(p, c, kind, here), c, [kind |-> kind, at |-> here], v)
    BY <1>1, ChildPut
  <2> QED BY <2>1, Zenon DEF here
<1>3. q = [m EXCEPT !.tree = Append(m.tree, node), !.ctx = n + 1]
  BY Zenon DEF EnterRule, m, n, c, kind, node
<1>4. node.rule = t.rule /\ node.children = <<>> /\ node.start = p.index
  BY NewContextFacts
<1> DEFINE tree == Append([p.tree EXCEPT ![c] = v], node)
<1> HIDE DEF m, node, q
<1>5. /\ q.tree = tree /\ q.ctx = n + 1 /\ SamePlace(p, q)
  BY <1>1, <1>2, <1>3 DEF PutIn, SameBut, FieldNames, SamePlace
<1>6. /\ Len(tree) = n + 1 /\ tree[n + 1] = node /\ tree[c] = v
      /\ \A d \in 1 .. n : d # c => tree[d] = p.tree[d]
  <2> DEFINE S == Contexts(n)
  <2>1. p.tree \in Seq(S)
    BY <1>1
  <2> HIDE DEF S
  <2> QED BY <1>1, <2>1, ReplacedThenMore
<1> HIDE DEF tree
<1>7. ~IsRecursive(q, q.ctx)
  BY <1>4, <1>5, <1>6 DEF IsRecursive
<1>8. EntersTree(p, q)
  BY <1>1, <1>2, <1>4, <1>5, <1>6, <1>7 DEF PutIn, EntersTree
<1> QED BY <1>8 DEF q

LEMMA EnterRecursionRuleTree ==
  ASSUME NEW p, Typed(p), UnderWay(p), NEW t, t.rule \in g.precedenceRules
  PROVE  EntersTree(p, EnterRecursionRule(p, t))
<1> DEFINE n     == Len(p.tree)
           node  == NewContext(t.rule, p.ctx, p.state, p.index)
           outer == [ctx |-> p.ctx, state |-> p.state]
           tree  == Append(p.tree, node)
           q     == EnterRecursionRule(p, t)
<1>1. n \in Nat /\ p.ctx \in 1 .. n /\ p.tree \in Seq(Contexts(n)) /\ FieldNames \subseteq DOMAIN p
  BY DEF Typed, Shaped, IsTree, UnderWay, NoContext
<1>2. q = [p EXCEPT !.tree = tree, !.ctx = n + 1,
                    !.parentContextStack = <<outer>> \o p.parentContextStack,
                    !.precedenceStack = <<t.level>> \o p.precedenceStack]
  BY Zenon DEF EnterRecursionRule, tree, n, node, outer
<1>3. node.rule = t.rule /\ node.children = <<>> /\ node.start = p.index
  BY NewContextFacts
<1> HIDE DEF node, outer
<1>4. /\ Len(tree) = n + 1 /\ tree[n + 1] = node /\ \A d \in 1 .. n : tree[d] = p.tree[d]
  <2> DEFINE S == Contexts(n)
  <2>1. p.tree \in Seq(S)
    BY <1>1
  <2> HIDE DEF S
  <2> QED BY <2>1, OneMore
<1> HIDE DEF tree, q
<1>5. q.tree = tree /\ q.ctx = n + 1 /\ SamePlace(p, q)
  BY <1>1, <1>2 DEF FieldNames, SamePlace
<1>6. IsRecursive(q, q.ctx)
  BY <1>3, <1>4, <1>5 DEF IsRecursive
<1>7. EntersTree(p, q)
  BY <1>1, <1>3, <1>4, <1>5, <1>6 DEF EntersTree
<1> QED BY <1>7 DEF q

(* The last token before the cursor. *)
LEMMA LastTokenIs ==
  ASSUME NEW p, Typed(p)
  PROVE  LastToken(p) = p.index - 1
<1>1. p.index \in 0 .. Len(input)
  BY DEF Typed, Shaped
<1> QED BY <1>1 DEF LastToken, Undefined

LEMMA PushTree ==
  ASSUME NEW p, Typed(p), UnderWay(p)
  PROVE  RegroupsTree(p, PushNewRecursionContext(p))
<1> DEFINE n       == Len(p.tree)
           c       == p.ctx
           outer   == Head(p.parentContextStack)
           leaf    == <<[kind |-> "rule", at |-> c]>>
           node    == [NewContext(p.tree[c].rule, outer.ctx, outer.state, p.tree[c].start)
                         EXCEPT !.children = leaf]
           s       == g.start[g.rule[p.state]]
           up      == n + 1
           last    == LastToken(p)
           operand == [p.tree[c] EXCEPT !.parent = up, !.invoking = s, !.stop = last]
           tree    == Append([p.tree EXCEPT ![c] = operand], node)
           q       == PushNewRecursionContext(p)
<1>1. /\ n \in Nat /\ c \in 1 .. n /\ p.tree \in Seq(Contexts(n)) /\ p.tree[c] \in Contexts(n)
      /\ FieldNames \subseteq DOMAIN p
  BY DEF Typed, Shaped, IsTree, UnderWay, NoContext
<1>2. q = [p EXCEPT !.tree = tree, !.ctx = n + 1]
  BY Zenon DEF PushNewRecursionContext, tree, operand, node, leaf, s, up, last
<1>3. last = p.index - 1
  BY LastTokenIs
<1>4. node.rule = p.tree[c].rule /\ node.children = leaf /\ node.start = p.tree[c].start
  <2> HIDE DEF leaf, outer, c
  <2> QED BY DEF NewContext
<1>5. /\ operand.rule = p.tree[c].rule /\ operand.children = p.tree[c].children
      /\ operand.start = p.tree[c].start /\ operand.stop = last
  <2> HIDE DEF s, up, last, c
  <2> QED BY <1>1 DEF Contexts
<1> HIDE DEF node, operand, last
<1>6. /\ Len(tree) = n + 1 /\ tree[n + 1] = node /\ tree[c] = operand
      /\ \A d \in 1 .. n : d # c => tree[d] = p.tree[d]
  <2> DEFINE S == Contexts(n)
  <2>1. p.tree \in Seq(S)
    BY <1>1
  <2> HIDE DEF S
  <2> QED BY <1>1, <2>1, ReplacedThenMore
<1> HIDE DEF tree, q
<1>7. q.tree = tree /\ q.ctx = n + 1 /\ SamePlace(p, q)
  BY <1>1, <1>2 DEF FieldNames, SamePlace
<1>8. RegroupsTree(p, q)
  BY <1>1, <1>3, <1>4, <1>5, <1>6, <1>7 DEF RegroupsTree
<1> QED BY <1>8 DEF q

LEMMA ExitTree ==
  ASSUME NEW p, Typed(p), UnderWay(p), ~IsRecursive(p, p.ctx)
  PROVE  ReturnsTree(p, ExitRule(p))
<1> DEFINE n    == Len(p.tree)
           c    == p.ctx
           stop == IF p.matchedEOF THEN p.index ELSE LastToken(p)
           node == [p.tree[c] EXCEPT !.stop = stop]
           tree == [p.tree EXCEPT ![c] = node]
           s    == p.tree[c].invoking
           up   == p.tree[c].parent
           q    == ExitRule(p)
<1>1. /\ n \in Nat /\ c \in 1 .. n /\ p.tree \in Seq(Contexts(n)) /\ p.tree[c] \in Contexts(n)
      /\ FieldNames \subseteq DOMAIN p
  BY DEF Typed, Shaped, IsTree, UnderWay, NoContext
<1>2. stop = p.index - 1 \/ (stop = p.index /\ p.matchedEOF)
  BY LastTokenIs
<1>3. /\ node.rule = p.tree[c].rule /\ node.children = p.tree[c].children
      /\ node.start = p.tree[c].start /\ node.stop = stop
  <2> HIDE DEF stop, c
  <2> QED BY <1>1 DEF Contexts
<1>4. q = [p EXCEPT !.tree = tree, !.state = s, !.ctx = up]
  BY Zenon DEF ExitRule, node, tree, stop, up, s
<1> HIDE DEF node, stop
<1>5. Len(tree) = n /\ tree[c] = node /\ \A d \in 1 .. n : d # c => tree[d] = p.tree[d]
  <2> DEFINE S == Contexts(n)
  <2>1. p.tree \in Seq(S)
    BY <1>1
  <2> HIDE DEF S
  <2> QED BY <1>1, <2>1
<1> HIDE DEF tree, q, s, up
<1>6. q.tree = tree /\ q.ctx = up /\ SamePlace(p, q)
  BY <1>1, <1>4 DEF FieldNames, SamePlace
<1>7. ReturnsTree(p, q)
  <2>1. up = p.tree[p.ctx].parent
    BY DEF up
  <2>2. up \in 1 .. n \/ up = NoContext
    <3>1. up \in 0 .. n
      BY <1>1 DEF Contexts, up
    <3> QED BY <1>1, <3>1 DEF NoContext
  <2>3. \A d \in 1 .. n : tree[d].children = p.tree[d].children
    BY <1>3, <1>5
  <2> QED BY <1>2, <1>3, <1>5, <1>6, <2>1, <2>2, <2>3 DEF ReturnsTree
<1> QED BY <1>7 DEF q

LEMMA UnrollTree ==
  ASSUME NEW p, Typed(p), UnderWay(p), NEW calls, NEW left, InCalls(p, calls, left),
         IsRecursive(p, p.ctx)
  PROVE  ReturnsTree(p, UnrollRecursionContexts(p))
<1> DEFINE n     == Len(p.tree)
           c     == p.ctx
           outer == Head(p.parentContextStack)
           stop  == LastToken(p)
           up    == outer.ctx
           node  == [p.tree[c] EXCEPT !.stop = stop, !.parent = up]
           tree  == [p.tree EXCEPT ![c] = node]
           m     == [p EXCEPT !.parentContextStack = Tail(@), !.precedenceStack = Tail(@),
                              !.tree[c].stop = stop, !.tree[c].parent = up,
                              !.ctx = up, !.state = outer.state]
           kind  == "rule"
           q     == UnrollRecursionContexts(p)
<1>1. /\ n \in Nat /\ c \in 1 .. n /\ p.tree \in Seq(Contexts(n)) /\ p.tree[c] \in Contexts(n)
      /\ FieldNames \subseteq DOMAIN p
  BY DEF Typed, Shaped, IsTree, UnderWay, NoContext
<1>2. stop = p.index - 1 /\ up = p.tree[c].parent
  BY LastTokenIs, InnermostEntry DEF UnderWay
<1>3. up \in 0 .. n
  BY <1>1, <1>2 DEF Contexts
<1>4. /\ node.rule = p.tree[c].rule /\ node.children = p.tree[c].children
      /\ node.start = p.tree[c].start /\ node.stop = stop
  <2> HIDE DEF stop, c, up
  <2> QED BY <1>1 DEF Contexts
<1>5. q = IF up = NoContext THEN m ELSE AddChild(m, up, kind, c)
  BY Zenon DEF UnrollRecursionContexts, m, stop, outer, c, kind, up
<1>6. m.tree = tree
  <2> DEFINE a == [p.tree[c] EXCEPT !.stop = stop]
             t == [p.tree EXCEPT ![c] = a]
  <2>1. m.tree = [t EXCEPT ![c] = [t[c] EXCEPT !.parent = up]]
    <3> HIDE DEF outer, stop, up, c
    <3> QED BY <1>1 DEF FieldNames
  <2>2. c \in DOMAIN p.tree
    BY <1>1
  <2>3. node = [a EXCEPT !.parent = up]
    OBVIOUS
  <2> HIDE DEF a, node, m
  <2> QED BY <2>1, <2>2, <2>3
<1>7. m.ctx = up /\ SamePlace(p, m) /\ FieldNames \subseteq DOMAIN m
  <2> HIDE DEF outer, stop, up, c
  <2> QED BY <1>1 DEF FieldNames, SamePlace
<1>8. up # NoContext => p.tree[up] \in Contexts(n) /\ up \in 1 .. n
  BY <1>1, <1>3 DEF NoContext
<1>9. node \in Contexts(n)
  <2>1. stop \in Places
    BY SetUpFacts DEF Typed, Shaped, Places, LastToken, Undefined
  <2> HIDE DEF stop, up
  <2> QED BY <1>1, <1>3, <2>1 DEF Contexts
<1> HIDE DEF node, stop, outer, up, m
<1>10. Len(tree) = n /\ tree[c] = node /\ \A d \in 1 .. n : d # c => tree[d] = p.tree[d]
  <2> DEFINE S == Contexts(n)
  <2>1. p.tree \in Seq(S)
    BY <1>1
  <2> HIDE DEF S
  <2> QED BY <1>1, <2>1
<1> HIDE DEF tree
<1>11. \A d \in 1 .. n :
         /\ tree[d].rule = p.tree[d].rule /\ tree[d].start = p.tree[d].start
         /\ tree[d].children = p.tree[d].children
         /\ d # p.ctx => tree[d].stop = p.tree[d].stop
  BY <1>4, <1>10
<1>12. CASE up = NoContext
  <2>1. q = m
    BY <1>5, <1>12
  <2> HIDE DEF q
  <2>2. ReturnsTree(p, m)
    BY <1>2, <1>4, <1>6, <1>7, <1>10, <1>11, <1>12 DEF ReturnsTree
  <2> QED BY <2>1, <2>2 DEF q
<1>13. CASE up # NoContext
  <2>1. up \in 1 .. n /\ m.tree[up] \in Contexts(n) /\ m.tree = tree
    BY <1>6, <1>8, <1>9, <1>10, <1>13
  <2> HIDE DEF kind, c, q
  <2>2. PICK v : PutIn(m, AddChild(m, up, kind, c), up, [kind |-> kind, at |-> c], v)
    BY <1>7, <2>1, ChildPut
  <2>3. PutIn(m, q, up, [kind |-> "rule", at |-> p.ctx], v)
    BY <1>5, <1>13, <2>2, Zenon DEF kind, c
  <2>4. q.tree = [tree EXCEPT ![up] = v] /\ q.ctx = up /\ SamePlace(p, q)
    BY <1>7, <2>1, <2>3 DEF PutIn, SameBut, FieldNames, SamePlace
  <2>5. /\ v.children = Append(p.tree[up].children, [kind |-> "rule", at |-> p.ctx])
        /\ v.rule = tree[up].rule /\ v.start = tree[up].start /\ v.stop = tree[up].stop
    BY <1>11, <2>1, <2>3 DEF PutIn
  <2>6. Len(q.tree) = n /\ q.tree[up] = v /\ \A d \in 1 .. n : d # up => q.tree[d] = tree[d]
    <3>1. DOMAIN tree = 1 .. n
      BY <1>1 DEF tree
    <3>2. /\ DOMAIN q.tree = 1 .. n /\ q.tree[up] = v
          /\ \A d \in 1 .. n : d # up => q.tree[d] = tree[d]
      BY <2>1, <2>4, <3>1
    <3>3. \A t : DOMAIN t = 1 .. n => Len(t) = n
      BY <1>1
    <3> QED BY <3>2, <3>3
  <2>7. q.tree[p.ctx].stop = p.index - 1
    BY <1>2, <1>4, <1>10, <2>5, <2>6, <1>1 DEF c
  <2>8. \A d \in 1 .. n :
          /\ q.tree[d].rule = p.tree[d].rule /\ q.tree[d].start = p.tree[d].start
          /\ d # up => q.tree[d].children = p.tree[d].children
          /\ d # p.ctx => q.tree[d].stop = p.tree[d].stop
    BY <1>11, <2>5, <2>6
  <2>9. ReturnsTree(p, q)
    BY <1>2, <2>4, <2>5, <2>6, <2>7, <2>8 DEF ReturnsTree, c
  <2> QED BY <2>9 DEF q
<1> QED BY <1>12, <1>13

LEMMA LeaveTree ==
  ASSUME NEW p, Typed(p), UnderWay(p), NEW calls, NEW left, InCalls(p, calls, left),
         p.tree[p.ctx].rule = g.rule[p.state]
  PROVE  ReturnsTree(p, Leave(p))
BY ExitTree, UnrollTree DEF Leave, IsRecursive

-----------------------------------------------------------------------------
(* Every visit leaves the tree spelling what was taken. *)

(* The calls under way are those of the invariant. *)
LEMMA LaidCalls ==
  ASSUME NEW p, Typed(p), NEW calls, NEW left, InCalls(p, calls, left), SoFar(p)
  PROVE  \E at, G, taken :
           Laid(p, calls, at, G, taken) /\ (p.matchedEOF => taken > Len(input))
<1>1. PICK known, at, G, taken :
        Laid(p, known, at, G, taken) /\ (p.matchedEOF => taken > Len(input))
  BY DEF SoFar
<1>2. Chain(p, known) /\ Chain(p, calls) /\ Len(p.tree) \in Nat
  BY <1>1 DEF Laid, AreUnderWay, InCalls, Typed, Shaped, IsTree
<1>3. known = calls
  BY <1>2, ChainIsOne
<1> QED BY <1>1, <1>3

LEMMA SoFarSame ==
  ASSUME NEW p, SoFar(p), NEW q, q.tree = p.tree, q.ctx = p.ctx, SamePlace(p, q)
  PROVE  SoFar(q)
<1>1. PICK calls, at, G, taken :
        Laid(p, calls, at, G, taken) /\ (p.matchedEOF => taken > Len(input))
  BY DEF SoFar
<1>2. Laid(q, calls, at, G, taken)
  BY <1>1, LaidSame DEF SamePlace
<1> QED BY <1>1, <1>2 DEF SoFar, SamePlace

LEMMA SoFarEntered ==
  ASSUME NEW p, Typed(p), NEW calls, NEW left, InCalls(p, calls, left), SoFar(p),
         NEW q, EntersTree(p, q), Chain(q, Append(calls, q.ctx))
  PROVE  SoFar(q)
<1>1. PICK at, G, taken :
        Laid(p, calls, at, G, taken) /\ (p.matchedEOF => taken > Len(input))
  BY LaidCalls
<1>2. \E more, starts : Laid(q, more, starts, G, taken)
  BY <1>1, LaidEntered
<1> QED BY <1>1, <1>2 DEF SoFar, EntersTree, SamePlace

LEMMA SoFarRegrouped ==
  ASSUME NEW p, Typed(p), NEW calls, NEW left, InCalls(p, calls, left), SoFar(p),
         IsRecursive(p, p.ctx), NEW q, RegroupsTree(p, q),
         Chain(q, [calls EXCEPT ![Len(calls)] = Len(p.tree) + 1])
  PROVE  SoFar(q)
<1>1. PICK at, G, taken :
        Laid(p, calls, at, G, taken) /\ (p.matchedEOF => taken > Len(input))
  BY LaidCalls
<1>2. \E more, starts, H : Laid(q, more, starts, H, taken)
  BY <1>1, LaidRegrouped
<1> QED BY <1>1, <1>2 DEF SoFar, RegroupsTree, SamePlace

LEMMA SoFarReturned ==
  ASSUME IsSetUp, NEW p, Typed(p), NEW calls, NEW left, InCalls(p, calls, left), SoFar(p),
         Len(calls) # 1, NEW q, ReturnsTree(p, q), Chain(q, SubSeq(calls, 1, Len(calls) - 1))
  PROVE  SoFar(q)
<1>1. PICK at, G, taken :
        Laid(p, calls, at, G, taken) /\ (p.matchedEOF => taken > Len(input))
  BY LaidCalls
<1>2. \E more, starts, H : Laid(q, more, starts, H, taken)
  BY <1>1, LaidReturned
<1> QED BY <1>1, <1>2 DEF SoFar, ReturnsTree, SamePlace

LEMMA SoFarEnded ==
  ASSUME IsSetUp, NEW p, Typed(p), NEW calls, NEW left, InCalls(p, calls, left), SoFar(p),
         Len(calls) = 1, NEW q, ReturnsTree(p, q), q.ctx = NoContext,
         q.result = IF StartRule \in g.precedenceRules THEN p.ctx ELSE p.root
  PROVE  Done(q)
<1>1. PICK at, G, taken :
        Laid(p, calls, at, G, taken) /\ (p.matchedEOF => taken > Len(input))
  BY LaidCalls
<1> QED BY <1>1, LaidEnded

(* The parse is not at its end. *)
Continues(p) == SoFar(p) /\ p.result = NoContext

(* To another state. *)
LEMMA GoToSoFar ==
  ASSUME NEW p, Typed(p), Continues(p), NEW s
  PROVE  Continues(GoTo(p, s))
<1> DEFINE q == [p EXCEPT !.state = s, !.alt = 0]
<1>1. q.tree = p.tree /\ q.ctx = p.ctx /\ SamePlace(p, q) /\ q.result = p.result
  BY DEF Typed, Shaped, FieldNames, SamePlace
<1> HIDE DEF q
<1>2. Continues(q)
  BY <1>1, SoFarSame DEF Continues
<1>3. GoTo(p, s) = IF p.thrown # "nothing" THEN p ELSE q
  BY Zenon DEF GoTo, q
<1> QED BY <1>2, <1>3

LEMMA GoesOnSoFar ==
  ASSUME IsSetUp, NEW p, NEW left, Sound(p, left), Continues(p),
         NEW q, Tells(p, q), NEW s
  PROVE  Continues(q) /\ Continues(GoTo(q, s))
<1>1. Typed(p) /\ UnderWay(p) /\ Typed(q) /\ UnderWay(q)
  BY DEF Continues, Sound, Tells, Keeps
<1>2. Continues(q)
  BY <1>1, TellsSoFar DEF Continues, UnderWay
<1> QED BY <1>1, <1>2, GoToSoFar

(* Predicting takes nothing. *)
LEMMA PredictedTells ==
  ASSUME NEW p, Keeps(p, Predicted(p))
  PROVE  Tells(p, Predicted(p))
<1> DEFINE q == Predicted(p)
           alt == Predict(g, p.state, [k \in Nat |-> TypeOf(p.index + k)],
                          FollowStates(p, p.ctx), Head(p.precedenceStack))
           e  == "no viable alternative"
<1>1. q = IF alt = NoViableAlt THEN Throw(p, e, p.state, p.ctx) ELSE [p EXCEPT !.alt = alt]
  BY Zenon DEF Predicted
<1> HIDE DEF alt, q
<1>2. Typed(p) => /\ q.tree = p.tree /\ q.root = p.root /\ q.ctx = p.ctx
                  /\ q.index = p.index /\ (q.matchedEOF => p.matchedEOF)
  BY <1>1 DEF Throw, Typed, Shaped, FieldNames
<1>3. Keeps(p, q)
  BY DEF q
<1>4. Tells(p, q)
  BY <1>2, <1>3, TellsSame
<1> QED BY <1>4 DEF q

LEMMA DecisionSoFar ==
  ASSUME PredictsAlternatives, IsParsing, NEW left, Sound(parser, left), Continues(parser),
         VisitDecisionState
  PROVE  Continues(parser')
<1> DEFINE q == Sync(parser)
<1>1. IsSetUp /\ parser.result = NoContext /\ Len(g.out[parser.state]) > 1
  BY ParsingIsSetUp DEF VisitDecisionState, IsDecision, Visiting, Running
<1>2. Tells(parser, q)
  BY <1>1, SyncTells
<1>3. parser' = IF q.thrown # "nothing" THEN q ELSE Predicted(q)
  BY DEF VisitDecisionState
<1> HIDE DEF q
<1>4. Sound(q, left) /\ q.result = NoContext /\ q.state = parser.state /\ Continues(q)
  BY <1>1, <1>2, KeepsSound, GoesOnSoFar DEF Sound, Keeps, Tells
<1>5. q.thrown = "nothing" => Continues(Predicted(q))
  <2> SUFFICES ASSUME q.thrown = "nothing" PROVE Continues(Predicted(q))
    OBVIOUS
  <2>1. Tells(q, Predicted(q))
    BY <1>1, <1>4, PredictedKeeps, PredictedTells
  <2> QED BY <1>1, <1>4, <2>1, GoesOnSoFar
<1> QED BY <1>3, <1>4, <1>5

LEMMA MatchingSoFar ==
  ASSUME IsSetUp, NEW left, Sound(parser, left), Continues(parser),
         VisitAtom \/ VisitSet \/ VisitWildcard
  PROVE  Continues(parser')
<1> DEFINE p == parser
           s == Transition.target
           r == IF LA(p, 1) \in Transition.label THEN p ELSE RecoverInline(p)
<1>2. CASE VisitAtom
  <2>1. PICK ttype \in Transition.label : parser' = GoTo(Match(p, ttype), s)
    BY <1>2 DEF VisitAtom
  <2> HIDE DEF s
  <2> QED BY <2>1, MatchTells, GoesOnSoFar
<1>3. CASE VisitWildcard
  <2>1. parser' = GoTo(MatchWildcard(p), s)
    BY <1>3 DEF VisitWildcard
  <2> HIDE DEF s
  <2> QED BY <2>1, MatchTells, GoesOnSoFar
<1>4. CASE VisitSet
  <2>1. parser' = GoTo(IF r.thrown # "nothing" THEN r ELSE MatchWildcard(r), s)
    BY <1>4 DEF VisitSet
  <2>2. Tells(p, r)
    BY RecoverInlineTells, QuietTells
  <2> HIDE DEF s, r
  <2>3. Tells(p, MatchWildcard(r))
    BY <2>2, MatchTells, TellsTwice
  <2>4. Tells(p, IF r.thrown # "nothing" THEN r ELSE MatchWildcard(r))
    BY <2>2, <2>3
  <2> QED BY <2>1, <2>4, GoesOnSoFar
<1> QED BY <1>2, <1>3, <1>4

LEMMA PassingSoFar ==
  ASSUME IsSetUp, NEW left, Sound(parser, left), Continues(parser),
         VisitPredicate \/ VisitPrecedence \/ VisitAction
  PROVE  Continues(parser')
<1> DEFINE p == parser
           s == Transition.target
           e == "failed predicate"
           r == Throw(p, e, p.state, p.ctx)
<1>2. Tells(p, p) /\ Tells(p, r)
  <2>1. e # "nothing" /\ e # "cancelled"
    OBVIOUS
  <2>2. UnderWay(p) /\ Typed(p) => p.state \in States /\ p.ctx \in 1 .. Len(p.tree)
    BY DEF Typed, Shaped, IsTree, UnderWay, NoContext
  <2> HIDE DEF e
  <2>3. Keeps(p, r)
    BY <2>1, <2>2, ThrowKeeps, KeepsSame
  <2> QED BY <2>3, QuietTells
<1>3. parser' = GoTo(p, s) \/ parser' = GoTo(r, s)
  BY Zenon DEF VisitPredicate, VisitPrecedence, VisitAction, s, r, e
<1> HIDE DEF s, r
<1> QED BY <1>2, <1>3, GoesOnSoFar

LEMMA RuleSoFar ==
  ASSUME IsSetUp, NEW left, Sound(parser, left), Continues(parser), VisitRule
  PROVE  Continues(parser')
<1> DEFINE p == parser
           t == Transition
           q == IF t.rule \in g.precedenceRules THEN EnterRecursionRule(p, t) ELSE EnterRule(p, t)
<1>1. Visiting /\ ~AtStop /\ t.kind = "rule"
  BY DEF VisitRule, Visits
<1>2. /\ p.state \in States /\ p.result = NoContext /\ t = CallAt(p.state)
      /\ Len(g.out[p.state]) = 1 /\ CallAt(p.state).kind = "rule"
  BY <1>1, TransitionFacts
<1> HIDE DEF t
<1>3. t.rule \in DOMAIN g.start /\ t.level \in Nat
  BY <1>2, CallFacts
<1>4. Typed(p) /\ UnderWay(p) /\ p.tree[p.ctx].rule = g.rule[p.state]
  BY <1>2 DEF Sound
<1>5. PICK calls : InCalls(p, calls, left)
  BY DEF Sound
<1>6. Typed(q) /\ UnderWay(q) /\ Enters(p, q) /\ Stacks(p, q) /\ EntersTree(p, q)
  <2> HIDE DEF p
  <2> QED BY <1>2, <1>3, <1>4, EnterRecursionRuleFacts, EnterRuleFacts, EnterRuleTree,
             EnterRecursionRuleTree
<1>7. parser' = GoTo(q, t.target)
  BY Zenon DEF VisitRule, q, t
<1> HIDE DEF q
<1>8. InCalls(q, Append(calls, Len(p.tree) + 1), left)
  BY <1>2, <1>3, <1>4, <1>5, <1>6, SetUpFacts, EnteredInCalls
<1>9. Chain(q, Append(calls, q.ctx))
  BY <1>6, <1>8 DEF InCalls, Enters
<1>10. Continues(q)
  BY <1>4, <1>5, <1>6, <1>9, SoFarEntered DEF Continues, UnderWay
<1> QED BY <1>6, <1>7, <1>10, GoToSoFar

LEMMA EpsilonSoFar ==
  ASSUME IsSetUp, NEW left, Sound(parser, left), Continues(parser), VisitEpsilon
  PROVE  Continues(parser')
<1> DEFINE p == parser
           s == Transition.target
           q == PushNewRecursionContext(p)
           pushes == p.state \in g.precedenceDecisions /\ g.type[s] # "LOOP_END"
<1>1. p.result = NoContext
  BY DEF VisitEpsilon, Visits, Visiting, Running
<1>2. parser' = GoTo(IF pushes THEN q ELSE p, s)
  BY Zenon DEF VisitEpsilon, pushes, q, s
<1> HIDE DEF s
<1>3. Typed(p) /\ UnderWay(p) /\ p.tree[p.ctx].rule = g.rule[p.state]
  BY <1>1 DEF Sound
<1>4. PICK calls : InCalls(p, calls, left)
  BY DEF Sound
<1>5. pushes => Typed(q) /\ Continues(q)
  <2> SUFFICES ASSUME pushes PROVE Typed(q) /\ Continues(q)
    OBVIOUS
  <2>1. IsRecursive(p, p.ctx)
    BY <1>3, GrammarFacts DEF IsSetUp, IsATN, IsRecursive
  <2>2. Typed(q) /\ UnderWay(q) /\ Regroups(p, q) /\ RegroupsTree(p, q)
    BY <1>3, <1>4, <2>1, PushFacts, PushTree
  <2> HIDE DEF q
  <2>3. InCalls(q, [calls EXCEPT ![Len(calls)] = Len(p.tree) + 1], left)
    BY <1>3, <1>4, <2>2, RegroupedInCalls DEF UnderWay
  <2>4. Chain(q, [calls EXCEPT ![Len(calls)] = Len(p.tree) + 1])
    BY <2>3 DEF InCalls
  <2> QED BY <1>3, <1>4, <2>1, <2>2, <2>4, SoFarRegrouped DEF Continues, UnderWay
<1> HIDE DEF q, pushes
<1> QED BY <1>2, <1>3, <1>5, GoToSoFar

(* The first context is the only one that no state called. *)
LEMMA OnlyFirstUninvoked ==
  ASSUME IsSetUp, NEW p, Typed(p), UnderWay(p), NEW calls, NEW left, InCalls(p, calls, left)
  PROVE  /\ p.tree[p.ctx].invoking = NoState <=> Len(calls) = 1
         /\ p.tree[p.ctx].parent = NoContext <=> Len(calls) = 1
<1> DEFINE i == Len(calls)
<1>1. i \in 1 .. i /\ p.ctx = calls[i] /\ i \in Nat
  BY ChainFacts DEF UnderWay
<1>2. /\ p.tree[calls[i]].parent = IF i = 1 THEN NoContext ELSE calls[i - 1]
      /\ i # 1 => calls[i - 1] \in 1 .. Len(p.tree)
  <2>1. p.tree[calls[i]].parent = IF i = 1 THEN NoContext ELSE calls[i - 1]
    BY <1>1, ChainFacts
  <2>2. \A j \in 1 .. i : calls[j] \in 1 .. Len(p.tree)
    BY ChainFacts
  <2> HIDE DEF i
  <2>3. i # 1 => i - 1 \in 1 .. i
    BY <1>1
  <2> QED BY <2>1, <2>2, <2>3
<1>3. Invoked(p, calls, i)
  BY <1>1, InvokedByCalls
<1> QED BY <1>1, <1>2, <1>3 DEF Invoked, NoContext

LEMMA RuleStopStateSoFar ==
  ASSUME IsSetUp, NEW left, Sound(parser, left), Continues(parser), VisitRuleStopState
  PROVE  Continues(parser')
<1> DEFINE p == parser
           m == Leave(p)
           s == g.out[m.state][1].follow
           q == [m EXCEPT !.state = s]
<1>1. Typed(p) /\ UnderWay(p) /\ p.tree[p.ctx].rule = g.rule[p.state]
  BY AtStopFacts DEF VisitRuleStopState
<1>2. PICK calls : InCalls(p, calls, left)
  BY DEF Sound
<1>3. p.tree[p.ctx].invoking # NoState /\ parser' = q
  BY DEF VisitRuleStopState
<1>4. Departs(p, m) /\ ReturnsTree(p, m) /\ Len(calls) # 1
  BY <1>1, <1>2, <1>3, LeaveFacts, LeaveTree, OnlyFirstUninvoked
<1> HIDE DEF m, s
<1>5. InCalls(m, SubSeq(calls, 1, Len(calls) - 1), left)
  BY <1>1, <1>2, <1>4, ReturnedInCalls DEF UnderWay, Departs
<1>6. SoFar(m) /\ m.result = NoContext
  BY <1>1, <1>2, <1>4, <1>5, SoFarReturned DEF InCalls, Continues, Departs, UnderWay
<1>7. q.tree = m.tree /\ q.ctx = m.ctx /\ SamePlace(m, q) /\ q.result = m.result
  BY <1>4 DEF Departs, Shaped, FieldNames, SamePlace
<1> QED BY <1>3, <1>6, <1>7, SoFarSame DEF Continues

LEMMA ReturnDone ==
  ASSUME IsSetUp, NEW left, Sound(parser, left), Continues(parser), Return
  PROVE  parser'.result # NoContext /\ Done(parser')
<1> DEFINE p == parser
           m == Leave(p)
           r == IF StartRule \in g.precedenceRules THEN p.ctx ELSE p.root
           q == [m EXCEPT !.result = r]
<1>1. Typed(p) /\ UnderWay(p) /\ p.tree[p.ctx].rule = g.rule[p.state]
  BY AtStopFacts DEF Return
<1>2. PICK calls : InCalls(p, calls, left)
  BY DEF Sound
<1>3. p.tree[p.ctx].invoking = NoState /\ parser' = q
  BY DEF Return
<1>4. Departs(p, m) /\ ReturnsTree(p, m) /\ Len(calls) = 1 /\ p.tree[p.ctx].parent = NoContext
  BY <1>1, <1>2, <1>3, LeaveFacts, LeaveTree, OnlyFirstUninvoked
<1>5. r # NoContext
  BY <1>1 DEF Typed, Shaped, IsTree, UnderWay, NoContext
<1> HIDE DEF m, r
<1>6. /\ q.tree = m.tree /\ q.ctx = m.ctx /\ SamePlace(m, q) /\ q.result = r
  BY <1>4 DEF Departs, Shaped, FieldNames, SamePlace
<1> HIDE DEF q
<1>7. ReturnsTree(p, q) /\ q.ctx = NoContext
  BY <1>4, <1>6 DEF ReturnsTree, SamePlace
<1>8. Done(q)
  BY <1>1, <1>2, <1>4, <1>6, <1>7, SoFarEnded DEF r, Continues
<1> QED BY <1>3, <1>5, <1>6, <1>8

LEMMA HandledSoFar ==
  ASSUME IsSetUp, NEW left, Sound(parser, left), Continues(parser), HandleException
  PROVE  Continues(parser')
<1> DEFINE p == parser
           q == Handled(p)
<1>1. Typed(p) /\ UnderWay(p) /\ p.thrown # "cancelled" /\ parser' = q
  BY DEF Sound, HandleException, Running
<1>2. PICK calls, at, G, taken :
        Laid(p, calls, at, G, taken) /\ (p.matchedEOF => taken > Len(input))
  BY DEF Continues, SoFar
<1>3. Further(p, q, calls, at, G, taken)
  BY <1>1, <1>2, HandledTells
<1>4. taken \in Nat /\ Len(input) \in Nat
  BY <1>2, SetUpFacts DEF Laid
<1>5. UnderWay(q)
  BY <1>1, HandledKeeps
<1> HIDE DEF q
<1>6. SoFar(q)
  BY <1>2, <1>3, <1>4 DEF Further, SoFar
<1> QED BY <1>1, <1>5, <1>6 DEF Continues, UnderWay

(* Nothing is taken at the start of a parse. *)
LEMMA StartsSoFar ==
  ASSUME IsSetUp, NEW tree, IsTree(tree), NEW left \in Seq(Parents), NEW q, Starts(q, tree, left)
  PROVE  SoFar(q)
<1> DEFINE n  == Len(tree)
           at == [i \in 1 .. 1 |-> 0]
           G  == [c \in {} |-> [from |-> 0, to |-> 0, rank |-> 0]]
<1>1. Sound(q, left) /\ q.ctx = n + 1 /\ q.root = n + 1 /\ q.result = NoContext /\ q.index = 0
      /\ ~q.matchedEOF /\ q.tree = Append(tree, Root) /\ n \in Nat
  BY StartsSound DEF Starts, IsTree
<1>2. Len(q.tree) = n + 1 /\ q.tree[n + 1] = Root
  <2> DEFINE S == Contexts(n)
             e == Root
  <2>1. tree \in Seq(S)
    BY DEF IsTree
  <2> HIDE DEF S, e
  <2>2. Len(Append(tree, e)) = n + 1 /\ Append(tree, e)[n + 1] = e
    BY <2>1, OneMore
  <2> QED BY <1>1, <2>2 DEF e
<1>3. Root.rule = StartRule /\ Root.invoking = NoState /\ Root.start = 0 /\ Root.children = <<>>
  BY DEF Root, NewContext
<1>4. PICK calls : InCalls(q, calls, left)
  BY <1>1 DEF Sound
<1>5. Typed(q) /\ UnderWay(q)
  BY <1>1 DEF Sound
<1>6. Len(calls) = 1
  BY <1>1, <1>2, <1>3, <1>4, <1>5, OnlyFirstUninvoked
<1>7. Chain(q, calls) /\ calls # <<>> /\ calls[1] = n + 1
  BY <1>1, <1>4, <1>5, <1>6 DEF InCalls, Chain, UnderWay
<1>8. Made(q) = {n + 1} /\ InvolvedIn(calls) = {n + 1}
  <2>1. n + 1 .. n + 1 = {n + 1} /\ 1 .. 1 = {1}
    BY <1>1
  <2> QED BY <1>1, <1>2, <1>6, <1>7, <2>1 DEF Made, InvolvedIn
<1>9. Clamp(0) = 0
  BY SetUpFacts DEF Clamp
<1>10. AreUnderWay(q, calls, at)
  <2>1. at \in [1 .. 1 -> Nat] /\ at[1] = 0 /\ \A i \in 1 .. 1 : i = 1
    OBVIOUS
  <2> HIDE DEF at, n
  <2>2. q.tree[calls[1]].rule = StartRule /\ q.tree[calls[1]].start = Clamp(at[1])
    BY <1>2, <1>3, <1>7, <1>9, <2>1
  <2> QED BY <1>1, <1>6, <1>7, <1>8, <2>1, <2>2 DEF AreUnderWay
<1>11. AreSpans(q, calls, G)
  <2>1. Made(q) \ InvolvedIn(calls) = {}
    BY <1>8
  <2>2. G \in [{} -> Spans] /\ DOMAIN G = {}
    OBVIOUS
  <2> HIDE DEF G
  <2> QED BY <2>1, <2>2 DEF AreSpans
<1> HIDE DEF G
<1>12. Current(q, calls, at, G, 0)
  <2>1. q.tree[q.ctx].children = <<>> /\ Len(<<>>) = 0 /\ at[Len(calls)] = 0
    BY <1>1, <1>2, <1>3, <1>6
  <2> HIDE DEF at
  <2>2. Spells(G, <<>>, 0, 0, 0)
    BY SpellsNothing
  <2> QED BY <2>1, <2>2 DEF Current
<1>13. \A i \in 1 .. Len(calls) - 1 : Calling(q, calls, at, G, i)
  BY <1>6
<1>14. Laid(q, calls, at, G, 0)
  BY <1>1, <1>9, <1>10, <1>11, <1>12, <1>13 DEF Laid
<1> QED BY <1>1, <1>14 DEF SoFar

-----------------------------------------------------------------------------
(* The invariant. *)

TreeSound ==
  /\ IsSound
  /\ IF parser.result = NoContext THEN SoFar(parser) ELSE Done(parser)

LEMMA VisitTree ==
  ASSUME PredictsAlternatives, IsParsing, NEW left, Sound(parser, left), Visit,
         parser.result = NoContext => SoFar(parser)
  PROVE  IF parser'.result = NoContext THEN SoFar(parser') ELSE Done(parser')
<1>1. IsSetUp
  BY ParsingIsSetUp
<1>2. Continues(parser)
  BY DEF Visit, VisitDecisionState, IsDecision, VisitAtom, VisitSet, VisitWildcard, VisitRule,
         VisitPredicate, VisitPrecedence, VisitAction, VisitEpsilon, VisitRuleStopState,
         Return, HandleException, Visits, Visiting, Running, Continues
<1>3. Continues(parser') \/ (parser'.result # NoContext /\ Done(parser'))
  BY <1>1, <1>2, DecisionSoFar, MatchingSoFar, PassingSoFar, RuleSoFar, EpsilonSoFar,
     RuleStopStateSoFar, ReturnDone, HandledSoFar DEF Visit
<1> QED BY <1>3 DEF Continues

(* It is about the input and the grammar only as they are. *)
LEMMA SoFarAgain ==
  ASSUME g' = g, input' = input, SoFar(parser')
  PROVE  SoFar(parser)'
<1>1. PICK calls, at, G, taken :
        Laid(parser', calls, at, G, taken) /\ (parser'.matchedEOF => taken > Len(input))
  BY DEF SoFar
<1>2. \A n : Clamp(n)' = Clamp(n)
  BY DEF Clamp
<1>3. \A H, child, a, b : Leads(H, child, a, b)' <=> Leads(H, child, a, b)
  BY <1>2 DEF Leads
<1>4. \A H, children, k, a, b : Spells(H, children, k, a, b)' <=> Spells(H, children, k, a, b)
  BY <1>3 DEF Spells
<1>5. \A c : Complete(parser, G, c)' <=> Complete(parser', G, c)
  BY <1>2, <1>4 DEF Complete
<1>6. \A c : IsRecursive(parser, c)' <=> IsRecursive(parser', c)
  BY DEF IsRecursive
<1>7. \A i : Calling(parser, calls, at, G, i)' <=> Calling(parser', calls, at, G, i)
  BY <1>4, <1>6 DEF Calling
<1>8. Current(parser, calls, at, G, taken)' <=> Current(parser', calls, at, G, taken)
  BY <1>4 DEF Current
<1>9. AreUnderWay(parser, calls, at)' <=> AreUnderWay(parser', calls, at)
  BY <1>2 DEF AreUnderWay, Chain, Made
<1>10. AreSpans(parser, calls, G)' <=> AreSpans(parser', calls, G)
  BY <1>5 DEF AreSpans, Made
<1>11. Laid(parser, calls, at, G, taken)'
  BY <1>1, <1>2, <1>7, <1>8, <1>9, <1>10 DEF Laid
<1> QED BY <1>1, <1>11 DEF SoFar

LEMMA DoneAgain ==
  ASSUME g' = g, input' = input, Done(parser')
  PROVE  Done(parser)'
<1>1. PICK G, T : IsDone(parser', G, T)
  BY DEF Done
<1>2. \A n : Clamp(n)' = Clamp(n)
  BY DEF Clamp
<1>3. \A H, child, a, b : Leads(H, child, a, b)' <=> Leads(H, child, a, b)
  BY <1>2 DEF Leads
<1>4. \A H, children, k, a, b : Spells(H, children, k, a, b)' <=> Spells(H, children, k, a, b)
  BY <1>3 DEF Spells
<1>5. \A c : Complete(parser, G, c)' <=> Complete(parser', G, c)
  BY <1>2, <1>4 DEF Complete
<1>6. IsDone(parser, G, T)'
  BY <1>1, <1>2, <1>5 DEF IsDone, Made
<1> QED BY <1>6 DEF Done

LEMMA InitTree == Init => TreeSound
<1> SUFFICES ASSUME Init PROVE TreeSound
  OBVIOUS
<1>1. IsSound /\ IsSetUp /\ parser = Fresh
  BY InitSound, ParsingIsSetUp DEF Init, IsSound
<1>2. IsTree(<<>>) /\ <<>> \in Seq(Parents) /\ Starts(parser, <<>>, <<>>)
  BY <1>1, FreshStarts
<1>3. SoFar(parser) /\ parser.result = NoContext
  BY <1>1, <1>2, StartsSoFar DEF Starts
<1> QED BY <1>1, <1>3 DEF TreeSound

LEMMA NextTree ==
  ASSUME PredictsAlternatives
  PROVE  TreeSound /\ [Next]_vars => TreeSound'
<1> SUFFICES ASSUME TreeSound, [Next]_vars PROVE TreeSound'
  OBVIOUS
<1>1. IsSound' /\ IsSetUp /\ g' = g /\ input' = input
  BY NextSound, ParsingIsSetUp DEF TreeSound, IsSound, Next, ParseAgain, vars
<1>2. IF parser'.result = NoContext THEN SoFar(parser') ELSE Done(parser')
  <2>1. CASE Visit /\ UNCHANGED <<g, input, handlers, ended>>
    BY <2>1, VisitTree DEF TreeSound, IsSound
  <2>2. CASE ParseAgain
    <3>1. PICK h : parser' = Reset(parser, h)
      BY <2>2, Zenon DEF ParseAgain
    <3>2. /\ IsTree(parser.tree) /\ parser.parentContextStack \in Seq(Parents)
          /\ Starts(parser', parser.tree, parser.parentContextStack)
      BY <1>1, <3>1, ResetStarts DEF TreeSound, IsSound
    <3> QED BY <1>1, <3>2, StartsSoFar DEF Starts
  <2>3. CASE UNCHANGED vars
    <3>1. parser' = parser
      BY <2>3 DEF vars
    <3> QED BY <3>1 DEF TreeSound
  <2> QED BY <2>1, <2>2, <2>3 DEF Next
<1> QED BY <1>1, <1>2, SoFarAgain, DoneAgain DEF TreeSound

-----------------------------------------------------------------------------
(* What is read off a complete tree. *)

(* The tokens from the a-th taken up to the b-th. *)
Word(a, b) == [i \in 1 .. b - a |-> Clamp(a + i - 1)]

LEMMA WordFacts ==
  ASSUME IsSetUp, NEW a \in Nat, NEW b \in Nat, a <= b
  PROVE  /\ Word(a, b) \in Seq(Nat) /\ Len(Word(a, b)) = b - a
         /\ \A i \in 1 .. b - a : Word(a, b)[i] = Clamp(a + i - 1)
<1>1. b - a \in Nat
  OBVIOUS
<1>2. \A i \in 1 .. b - a : Clamp(a + i - 1) \in Nat
  <2> TAKE i \in 1 .. b - a
  <2>1. a + i - 1 \in Nat
    OBVIOUS
  <2> QED BY <2>1, SetUpFacts DEF Clamp
<1>3. Word(a, b) \in [1 .. b - a -> Nat]
  BY <1>2 DEF Word
<1> QED BY <1>1, <1>3 DEF Word

LEMMA WordOn ==
  ASSUME IsSetUp, NEW a \in Nat, NEW b \in Nat, NEW c \in Nat, a <= b, b <= c
  PROVE  Word(a, b) \o Word(b, c) = Word(a, c)
<1> DEFINE u == Word(a, b)
           v == Word(b, c)
           w == Word(a, c)
<1>1. a <= c /\ b - a \in Nat /\ c - b \in Nat /\ (b - a) + (c - b) = c - a
  OBVIOUS
<1>2. u \in Seq(Nat) /\ Len(u) = b - a /\ \A i \in 1 .. b - a : u[i] = Clamp(a + i - 1)
  BY WordFacts
<1>3. v \in Seq(Nat) /\ Len(v) = c - b /\ \A i \in 1 .. c - b : v[i] = Clamp(b + i - 1)
  BY WordFacts
<1>4. w \in Seq(Nat) /\ Len(w) = c - a /\ \A i \in 1 .. c - a : w[i] = Clamp(a + i - 1)
  BY <1>1, WordFacts
<1> DEFINE x == u \o v
<1> HIDE DEF u, v, w
<1>5. /\ x \in Seq(Nat) /\ Len(x) = Len(u) + Len(v)
      /\ \A i \in 1 .. Len(u) + Len(v) : x[i] = IF i <= Len(u) THEN u[i] ELSE v[i - Len(u)]
  <2>1. u \in Seq(Nat) /\ v \in Seq(Nat)
    BY <1>2, <1>3
  <2>2. x \in Seq(Nat) /\ Len(x) = Len(u) + Len(v) /\ Len(u) \in Nat /\ Len(v) \in Nat
    BY <2>1
  <2>3. \A i \in 1 .. Len(u) + Len(v) : x[i] = IF i <= Len(u) THEN u[i] ELSE v[i - Len(u)]
    BY <2>1, <2>2
  <2> QED BY <2>2, <2>3
<1> HIDE DEF x
<1>6. \A i \in 1 .. c - a : x[i] = w[i]
  <2> TAKE i \in 1 .. c - a
  <2>1. x[i] = IF i <= b - a THEN u[i] ELSE v[i - (b - a)]
    BY <1>1, <1>2, <1>3, <1>5
  <2>2. CASE i <= b - a
    BY <1>2, <1>4, <2>1, <2>2
  <2>3. CASE ~(i <= b - a)
    <3> DEFINE j == i - (b - a)
    <3>1. j \in 1 .. c - b /\ b + j - 1 = a + i - 1
      BY <2>3
    <3> HIDE DEF j
    <3>2. v[j] = Clamp(b + j - 1)
      BY <1>3, <3>1
    <3> QED BY <1>4, <2>1, <2>3, <3>1, <3>2 DEF j
  <2> QED BY <2>2, <2>3
<1>7. x = w
  <2>1. Len(x) = c - a
    BY <1>1, <1>2, <1>3, <1>5
  <2> QED BY <1>4, <1>5, <1>6, <2>1, SeqEqual
<1> QED BY <1>7 DEF u, v, w, x

LEMMA WordsOfFew ==
  ASSUME IsSetUp, NEW a \in Nat
  PROVE  Word(a, a) = <<>> /\ Word(a, a + 1) = <<Clamp(a)>>
<1>1. Word(a, a) \in Seq(Nat) /\ Len(Word(a, a)) = 0
  BY WordFacts
<1> DEFINE w == Word(a, a + 1)
<1>2. w \in Seq(Nat) /\ Len(w) = 1 /\ w[1] = Clamp(a)
  <2> DEFINE b == a + 1
  <2>1. b \in Nat /\ a <= b /\ b - a = 1 /\ a + 1 - 1 = a
    OBVIOUS
  <2> HIDE DEF b
  <2>2. Word(a, b) \in Seq(Nat) /\ Len(Word(a, b)) = 1 /\ Word(a, b)[1] = Clamp(a)
    <3>1. /\ Word(a, b) \in Seq(Nat) /\ Len(Word(a, b)) = b - a
          /\ \A i \in 1 .. b - a : Word(a, b)[i] = Clamp(a + i - 1)
      BY <2>1, WordFacts
    <3>2. 1 \in 1 .. b - a
      BY <2>1
    <3> QED BY <2>1, <3>1, <3>2
  <2> QED BY <2>2 DEF b
<1> HIDE DEF w
<1>3. w = <<w[1]>>
  BY <1>2
<1> QED BY <1>1, <1>2, <1>3 DEF w

(* The tokens below a child, when f has those below each node. *)
Text(f, child) ==
  IF child.kind = "rule" THEN f[child.at]
  ELSE IF child.at = Conjured THEN <<>> ELSE <<child.at>>

IsRead(f, G, child) ==
  child.kind = "rule" =>
    /\ G[child.at].from <= G[child.at].to
    /\ f[child.at] = Word(G[child.at].from, G[child.at].to)

LEMMA LeadsText ==
  ASSUME IsSetUp, NEW G, NEW child, NEW a \in Nat, NEW b \in Nat, Leads(G, child, a, b),
         NEW f, IsRead(f, G, child)
  PROVE  a <= b /\ Text(f, child) = Word(a, b)
<1>1. CASE child.kind = "rule"
  BY <1>1 DEF Leads, IsRead, Text
<1>2. CASE child.kind # "rule" /\ child.at = Conjured
  BY <1>2, WordsOfFew DEF Leads, Text
<1>3. CASE child.kind # "rule" /\ child.at # Conjured
  BY <1>3, WordsOfFew DEF Leads, Text
<1> QED BY <1>1, <1>2, <1>3

(* The children up to each, as Leaves puts them together. *)
Joined(u, f, children) ==
  u = [i \in 0 .. Len(children) |->
         IF i = 0 THEN <<>> ELSE u[i - 1] \o Text(f, children[i])]

LEMMA SpelledText ==
  ASSUME IsSetUp, NEW G, NEW children, Len(children) \in Nat, NEW a, NEW b,
         Spells(G, children, Len(children), a, b),
         NEW f, \A i \in 1 .. Len(children) : IsRead(f, G, children[i])
  PROVE  a <= b /\ (CHOOSE u : Joined(u, f, children))[Len(children)] = Word(a, b)
<1> DEFINE k == Len(children)
<1>1. PICK m \in [0 .. k -> Nat] :
        m[0] = a /\ m[k] = b /\ \A i \in 1 .. k : Leads(G, children[i], m[i - 1], m[i])
  BY DEF Spells
<1> DEFINE W == [i \in 0 .. k |-> Word(a, m[i])]
<1> HIDE DEF k
<1>2. k \in Nat /\ a \in Nat /\ \A i \in 0 .. k : m[i] \in Nat
  BY <1>1 DEF k
<1>3. \A i \in 1 .. k : m[i - 1] <= m[i] /\ Text(f, children[i]) = Word(m[i - 1], m[i])
  <2> TAKE i \in 1 .. k
  <2>1. i - 1 \in 0 .. k /\ i \in 0 .. k
    BY <1>2
  <2> QED BY <1>1, <1>2, <2>1, LeadsText DEF k
<1>4. \A i \in 0 .. k : a <= m[i]
  <2> DEFINE bad == {i \in 0 .. k : ~(a <= m[i])}
  <2>1. ASSUME bad # {} PROVE FALSE
    <3>1. bad \in SUBSET Nat
      BY <1>2
    <3>2. PICK i \in bad : \A j \in bad : i <= j
      <4> HIDE DEF bad
      <4> QED BY <2>1, <3>1, LeastElement
    <3>3. i \in 0 .. k /\ i # 0
      BY <1>1, <1>2
    <3>4. i - 1 \in 0 .. k /\ i \in 1 .. k /\ ~(i <= i - 1)
      BY <1>2, <3>3
    <3>5. a <= m[i - 1] /\ m[i - 1] <= m[i]
      BY <1>3, <3>2, <3>4
    <3> QED BY <1>2, <3>2, <3>3, <3>4, <3>5
  <2> QED BY <2>1
<1>5. Joined(W, f, children)
  <2>1. ASSUME NEW i \in 0 .. k
        PROVE  W[i] = IF i = 0 THEN <<>> ELSE W[i - 1] \o Text(f, children[i])
    <3>1. CASE i = 0
      BY <1>1, <1>2, <3>1, WordsOfFew
    <3>2. CASE i # 0
      <4>1. i - 1 \in 0 .. k /\ i \in 1 .. k
        BY <1>2, <3>2
      <4>2. Word(a, m[i - 1]) \o Word(m[i - 1], m[i]) = Word(a, m[i])
        BY <1>2, <1>3, <1>4, <4>1, WordOn
      <4> QED BY <1>3, <3>2, <4>1, <4>2
    <3> QED BY <3>1, <3>2
  <2>2. W = [i \in 0 .. k |-> IF i = 0 THEN <<>> ELSE W[i - 1] \o Text(f, children[i])]
    <3>1. W = [i \in 0 .. k |-> W[i]]
      OBVIOUS
    <3> HIDE DEF W
    <3> QED BY <2>1, <3>1
  <2> HIDE DEF W
  <2> QED BY <2>2 DEF Joined, k
<1>6. ASSUME NEW u, Joined(u, f, children) PROVE u = W
  <2> DEFINE bad == {i \in 0 .. k : u[i] # W[i]}
  <2>1. \A i \in 0 .. k : /\ u[i] = IF i = 0 THEN <<>> ELSE u[i - 1] \o Text(f, children[i])
                          /\ W[i] = IF i = 0 THEN <<>> ELSE W[i - 1] \o Text(f, children[i])
    <3> HIDE DEF W
    <3> QED BY <1>5, <1>6 DEF Joined, k
  <2>2. DOMAIN u = 0 .. k /\ u = [i \in 0 .. k |-> u[i]]
    BY <1>6 DEF Joined, k
  <2>3. W = [i \in 0 .. k |-> W[i]]
    OBVIOUS
  <2> HIDE DEF W
  <2>4. ASSUME bad # {} PROVE FALSE
    <3>1. bad \in SUBSET Nat
      BY <1>2
    <3>2. PICK i \in bad : \A j \in bad : i <= j
      <4> HIDE DEF bad
      <4> QED BY <2>4, <3>1, LeastElement
    <3>3. i \in 0 .. k /\ u[i] # W[i] /\ i # 0
      BY <2>1, <3>2
    <3>4. i - 1 \in 0 .. k /\ ~(i <= i - 1)
      BY <1>2, <3>3
    <3>5. u[i - 1] = W[i - 1]
      BY <3>2, <3>4
    <3> QED BY <2>1, <3>3, <3>5
  <2> QED BY <2>2, <2>3, <2>4
<1>7. (CHOOSE u : Joined(u, f, children)) = W
  <2> HIDE DEF W
  <2> QED BY <1>5, <1>6
<1>8. k \in 0 .. k /\ W[k] = Word(a, b) /\ a <= b
  BY <1>1, <1>2, <1>4
<1> QED BY <1>7, <1>8 DEF k

(* What Leaves reads off the nodes made is their spans' tokens.            *)
LEMMA LeavesAreWords ==
  ASSUME IsSetUp, Typed(parser), NEW G, NEW T, IsDone(parser, G, T)
  PROVE  \A c \in Made(parser) :
           G[c].from <= G[c].to /\ Leaves(c) = Word(G[c].from, G[c].to)
<1> DEFINE D       == Made(parser)
           Kids(d) == parser.tree[d].children
           Read(f, d) == (CHOOSE u : Joined(u, f, Kids(d)))[Len(Kids(d))]
           Step(f) == [d \in D |-> Read(f, d)]
           W == [d \in D |-> Word(G[d].from, G[d].to)]
<1>1. ASSUME NEW d \in D
      PROVE  /\ Len(Kids(d)) \in Nat /\ G[d] \in Spans /\ DOMAIN G = D
             /\ Spells(G, Kids(d), Len(Kids(d)), G[d].from, G[d].to)
             /\ \A i \in 1 .. Len(Kids(d)) :
                  Kids(d)[i].kind = "rule" =>
                    Kids(d)[i].at \in D /\ G[Kids(d)[i].at].rank < G[d].rank
  <2>1. G \in [D -> Spans] /\ Complete(parser, G, d)
    BY DEF IsDone
  <2>2. d \in 1 .. Len(parser.tree)
    BY DEF Made, Typed, Shaped, IsTree
  <2>3. Len(Kids(d)) \in Nat
    BY <2>2, ChildrenFacts
  <2>4. Spells(G, Kids(d), Len(Kids(d)), G[d].from, G[d].to)
    BY <2>1 DEF Complete
  <2>5. \A i \in 1 .. Len(Kids(d)) : Kids(d)[i].kind = "rule" => Kids(d)[i].at \in DOMAIN G
    BY <2>3, <2>4, SpelledKnown
  <2> QED BY <2>1, <2>3, <2>4, <2>5 DEF Complete
<1>2. ASSUME NEW f, NEW d \in D, \A i \in 1 .. Len(Kids(d)) : IsRead(f, G, Kids(d)[i])
      PROVE  G[d].from <= G[d].to /\ Read(f, d) = Word(G[d].from, G[d].to)
  <2> DEFINE kids == Kids(d)
  <2>1. /\ Len(kids) \in Nat /\ Spells(G, kids, Len(kids), G[d].from, G[d].to)
        /\ \A i \in 1 .. Len(kids) : IsRead(f, G, kids[i])
    BY <1>1, <1>2
  <2> HIDE DEF Kids, D, kids
  <2>2. /\ G[d].from <= G[d].to
        /\ (CHOOSE u : Joined(u, f, kids))[Len(kids)] = Word(G[d].from, G[d].to)
    BY <2>1, SpelledText
  <2> QED BY <2>2, Zenon DEF kids
<1> HIDE DEF Read
<1>3. \A d \in D : G[d].from <= G[d].to
  <2> DEFINE bad == {d \in D : ~(G[d].from <= G[d].to)}
             ranks == {G[d].rank : d \in bad}
  <2> HIDE DEF D, Kids
  <2>1. ASSUME bad # {} PROVE FALSE
    <3>1. ranks \in SUBSET Nat /\ ranks # {}
      BY <1>1, <2>1 DEF Spans
    <3>2. PICK r \in ranks : \A j \in ranks : r <= j
      <4> HIDE DEF ranks
      <4> QED BY <3>1, LeastElement
    <3>3. PICK d \in bad : r = G[d].rank
      BY <3>2
    <3>4. \A e \in D : G[e].rank < G[d].rank => G[e].from <= G[e].to
      <4> SUFFICES ASSUME NEW e \in bad, G[e].rank < G[d].rank PROVE FALSE
        OBVIOUS
      <4>1. G[e].rank \in ranks /\ G[d].rank <= G[e].rank
        BY <3>2, <3>3
      <4> QED BY <1>1, <4>1 DEF Spans
    <3>5. \A i \in 1 .. Len(Kids(d)) : IsRead(W, G, Kids(d)[i])
      BY <1>1, <3>4 DEF IsRead
    <3> QED BY <1>2, <3>5
  <2> QED BY <2>1
<1>4. W = Step(W)
  <2> SUFFICES ASSUME NEW d \in D PROVE W[d] = Read(W, d)
    OBVIOUS
  <2> HIDE DEF D, Kids
  <2>1. \A i \in 1 .. Len(Kids(d)) : IsRead(W, G, Kids(d)[i])
    BY <1>1, <1>3 DEF IsRead
  <2> QED BY <1>2, <2>1
<1>5. ASSUME NEW f, f = Step(f) PROVE f = W
  <2> DEFINE bad == {d \in D : f[d] # W[d]}
             ranks == {G[d].rank : d \in bad}
  <2> HIDE DEF D, Kids
  <2>1. ASSUME bad # {} PROVE FALSE
    <3>1. ranks \in SUBSET Nat /\ ranks # {}
      BY <1>1, <2>1 DEF Spans
    <3>2. PICK r \in ranks : \A j \in ranks : r <= j
      <4> HIDE DEF ranks
      <4> QED BY <3>1, LeastElement
    <3>3. PICK d \in bad : r = G[d].rank
      BY <3>2
    <3>4. \A e \in D : G[e].rank < G[d].rank => f[e] = W[e]
      <4> SUFFICES ASSUME NEW e \in bad, G[e].rank < G[d].rank PROVE FALSE
        OBVIOUS
      <4>1. G[e].rank \in ranks /\ G[d].rank <= G[e].rank
        BY <3>2, <3>3
      <4> QED BY <1>1, <4>1 DEF Spans
    <3>5. \A i \in 1 .. Len(Kids(d)) : IsRead(f, G, Kids(d)[i])
      BY <1>1, <1>3, <3>4 DEF IsRead
    <3>6. Read(f, d) = W[d]
      BY <1>2, <3>5
    <3> QED BY <1>5, <3>3, <3>6
  <2>2. DOMAIN f = D
    BY <1>5
  <2>3. f = [d \in D |-> f[d]]
    BY <1>5
  <2> QED BY <2>1, <2>3
<1>6. (CHOOSE f : f = Step(f)) = W
  <2> HIDE DEF Step, W
  <2> QED BY <1>4, <1>5
<1>7. \A c : Leaves(c) = (CHOOSE f : f = Step(f))[c]
  BY DEF Leaves, Read, Joined, Text, Node, Made
<1> QED BY <1>3, <1>6, <1>7

LEMMA TreeLeavesAreInput ==
  ASSUME TreeSound
  PROVE  LeavesAreInput
<1> SUFFICES ASSUME Finished PROVE LeavesAreInput
  BY DEF LeavesAreInput
<1>1. IsSetUp /\ Typed(parser) /\ Done(parser) /\ Len(input) \in Nat
  BY ParsingIsSetUp, SetUpFacts DEF TreeSound, IsSound, Sound, Finished
<1>2. PICK G, T : IsDone(parser, G, T)
  BY <1>1 DEF Done
<1>3. T \in Nat /\ parser.index = Clamp(T) /\ Leaves(parser.result) = Word(0, T)
  BY <1>1, <1>2, LeavesAreWords DEF IsDone
<1> DEFINE leaves == Leaves(parser.result)
<1>4. Len(leaves) = T /\ DOMAIN leaves = 1 .. T /\ \A i \in 1 .. T : leaves[i] = Clamp(i - 1)
  <2>1. /\ Word(0, T) \in Seq(Nat) /\ Len(Word(0, T)) = T - 0
        /\ \A i \in 1 .. T - 0 : Word(0, T)[i] = Clamp(0 + i - 1)
    <3> DEFINE a == 0
    <3>1. a \in Nat /\ a <= T
      BY <1>3
    <3> HIDE DEF a
    <3>2. /\ Word(a, T) \in Seq(Nat) /\ Len(Word(a, T)) = T - a
          /\ \A i \in 1 .. T - a : Word(a, T)[i] = Clamp(a + i - 1)
      BY <1>1, <1>3, <3>1, WordFacts
    <3> QED BY <3>2 DEF a
  <2>2. T - 0 = T /\ \A i \in 1 .. T : 0 + i - 1 = i - 1
    BY <1>3
  <2> QED BY <1>3, <2>1, <2>2
<1> HIDE DEF leaves
<1>5. parser.index <= Len(leaves) /\ (Len(leaves) > parser.index => parser.index = Len(input))
  BY <1>1, <1>3, <1>4 DEF Clamp
<1>6. \A i \in DOMAIN leaves : leaves[i] = IF i <= parser.index THEN i - 1 ELSE Len(input)
  BY <1>1, <1>3, <1>4 DEF Clamp
<1> QED BY <1>5, <1>6 DEF LeavesAreInput, leaves

LEMMA TreeNodesSpanLeaves ==
  ASSUME TreeSound
  PROVE  NodesSpanLeaves
<1> SUFFICES ASSUME Finished PROVE NodesSpanLeaves
  BY DEF NodesSpanLeaves
<1>1. IsSetUp /\ Typed(parser) /\ Done(parser) /\ Len(input) \in Nat
  BY ParsingIsSetUp, SetUpFacts DEF TreeSound, IsSound, Sound, Finished
<1>2. PICK G, T : IsDone(parser, G, T)
  BY <1>1 DEF Done
<1> DEFINE L == Len(input)
           below(c)  == {Leaves(c)[i] : i \in DOMAIN Leaves(c)}
           tokens(c) == below(c) \ {L}
<1>3. ASSUME NEW c \in Made(parser), tokens(c) # {}
      PROVE  /\ Node(c).start \in tokens(c) /\ \A i \in tokens(c) : Node(c).start <= i
             /\ \/ Node(c).stop \in tokens(c) /\ \A i \in tokens(c) : i <= Node(c).stop
                \/ Node(c).stop = L /\ L \in below(c)
  <2> DEFINE a == G[c].from
             b == G[c].to
             start == Node(c).start
             stop  == Node(c).stop
             Below == below(c)
             Tokens == tokens(c)
  <2>1. /\ a \in Nat /\ b \in Nat /\ start = Clamp(a)
        /\ (stop = Clamp(b) - 1 \/ (stop = L /\ b > L))
    BY <1>2 DEF IsDone, Complete, Spans, Node
  <2>2. a <= b /\ Leaves(c) = Word(a, b)
    BY <1>1, <1>2, LeavesAreWords
  <2>3. DOMAIN Leaves(c) = 1 .. b - a /\ \A i \in 1 .. b - a : Leaves(c)[i] = Clamp(a + i - 1)
    BY <1>1, <2>1, <2>2, WordFacts DEF Word
  <2>4. Below = {Clamp(a + i - 1) : i \in 1 .. b - a}
    BY <2>3
  <2> HIDE DEF a, b, start, stop, Below
  <2>5. \A x : x \in Below <=> \E j \in a .. b - 1 : x = Clamp(j)
    <3>1. \A i \in 1 .. b - a : a + i - 1 \in a .. b - 1
      BY <2>1
    <3>2. \A j \in a .. b - 1 : j - a + 1 \in 1 .. b - a /\ a + (j - a + 1) - 1 = j
      BY <2>1
    <3> QED BY <2>4, <3>1, <3>2
  <2>6. \A x : x \in Below \ {L} <=> x \in a .. b - 1 /\ x < L
    BY <1>1, <2>1, <2>5 DEF Clamp
  <2>7. PICK y : y \in a .. b - 1 /\ y < L
    BY <1>3, <2>6 DEF Below
  <2>8. a < b /\ a < L
    BY <1>1, <2>1, <2>7
  <2>9. start = a
    BY <1>1, <2>1, <2>8 DEF Clamp
  <2>10. start \in Below \ {L} /\ \A i \in Below \ {L} : start <= i
    BY <2>1, <2>6, <2>8, <2>9
  <2>11. CASE stop = L /\ b > L
    <3>1. L \in a .. b - 1 /\ Clamp(L) = L
      BY <1>1, <2>1, <2>8, <2>11 DEF Clamp
    <3>2. L \in Below
      BY <2>5, <3>1
    <3> QED BY <2>10, <2>11, <3>2 DEF Below, start, stop
  <2>12. CASE stop = Clamp(b) - 1
    <3>1. stop \in a .. b - 1 /\ stop < L /\ \A i \in a .. b - 1 : i < L => i <= stop
      BY <1>1, <2>1, <2>8, <2>12 DEF Clamp
    <3>2. stop \in Below \ {L} /\ \A i \in Below \ {L} : i <= stop
      BY <2>6, <3>1
    <3> QED BY <2>10, <3>2 DEF Below, start, stop
  <2> QED BY <2>1, <2>11, <2>12
<1> QED BY <1>3 DEF NodesSpanLeaves, Made

(* The leaves of the tree of a finished parse are the tokens consumed, in  *)
(* order, each once, whatever was deleted, made up or skipped, however the *)
(* rules failed and left operands were regrouped.  It takes predictions    *)
(* that give alternatives of their decisions (Parser.consume,              *)
(* pushNewRecursionContext, DefaultErrorStrategy.recover).                 *)
THEOREM LeavesAreAlwaysInput == ASSUME PredictsAlternatives PROVE Spec => []LeavesAreInput
BY InitTree, NextTree, TreeLeavesAreInput, PTL DEF Spec

(* Every node of a finished parse starts at the first of the tokens below  *)
(* it and stops at the last, or at EOF when that is the last, the operands *)
(* of left-recursive rules too (Parser.exitRule, pushNewRecursionContext,  *)
(* unrollRecursionContexts).                                               *)
THEOREM NodesAlwaysSpanLeaves == ASSUME PredictsAlternatives PROVE Spec => []NodesSpanLeaves
BY InitTree, NextTree, TreeNodesSpanLeaves, PTL DEF Spec
===========================================================================
