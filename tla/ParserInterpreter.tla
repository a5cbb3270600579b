------------------------- MODULE ParserInterpreter -------------------------
(***************************************************************************)
(* ParserInterpreter.ts, which walks the ATN of a grammar over a sequence  *)
(* of tokens and builds a parse tree, with what it takes from Parser.ts    *)
(* (matching, the rule contexts, the stacks of left-recursive rules) and   *)
(* from DefaultErrorStrategy.ts (reporting, and every way to recover) and  *)
(* BailErrorStrategy.ts (none).  A parse that has ended, or was cancelled, *)
(* is followed by others of the same input, after Parser.reset().          *)
(*                                                                         *)
(* The lookahead sets and the predictions are parameters.                  *)
(***************************************************************************)
EXTENDS ATN
LOCAL INSTANCE Functions

CONSTANTS
  Grammars,                        \* ATNs; rule 1 is where a parse starts
  Sentences(_),                    \* the inputs parsed with one
  NextTokensInContext(_, _, _),    \* ATN.nextTokens(s, ctx)
  Predict(_, _, _, _, _),  \* decision, lookahead, contexts, precedence
  MaxContexts,                     \* no rule is called beyond so many contexts
  Courses                          \* what a client has one parse after another handled by:
                                   \* "default", "bail", or the "kept" strategy of the last

(* ATNs as the tool writes them and the deserializer verifies them.  A rule *)
(* is called by a state with no other way on: transition(0) of the state a *)
(* context was invoked by is the call.                                     *)
IsTransition(atn, s, t) ==
  /\ t.target \in DOMAIN atn.type
  /\ IF t.kind = "rule"
     THEN /\ Len(atn.out[s]) = 1
          /\ t.rule \in DOMAIN atn.start /\ atn.rule[t.target] = t.rule
          /\ t.follow \in DOMAIN atn.type /\ atn.rule[t.follow] = atn.rule[s]
          /\ t.level \in Nat
     ELSE atn.rule[t.target] = atn.rule[s]

IsATN(atn) ==
  /\ DOMAIN atn.type \subseteq Nat
  /\ DOMAIN atn.rule = DOMAIN atn.type /\ DOMAIN atn.out = DOMAIN atn.type
  /\ 1 \in DOMAIN atn.start /\ DOMAIN atn.stop = DOMAIN atn.start
  /\ \A r \in DOMAIN atn.start :
       /\ atn.start[r] \in DOMAIN atn.type /\ atn.rule[atn.start[r]] = r
       /\ atn.stop[r] \in DOMAIN atn.type /\ atn.rule[atn.stop[r]] = r
  /\ \A s \in DOMAIN atn.type :
       /\ atn.rule[s] \in DOMAIN atn.start
       /\ Len(atn.out[s]) \in Nat
       /\ Len(atn.out[s]) = 0 <=> atn.type[s] = "RULE_STOP"
       /\ \A i \in 1 .. Len(atn.out[s]) : IsTransition(atn, s, atn.out[s][i])
  /\ \A s \in atn.precedenceDecisions :
       s \in DOMAIN atn.type /\ atn.rule[s] \in atn.precedenceRules

GrammarsAssumption ==
  /\ \A atn \in Grammars :
       IsATN(atn) /\ \A w \in Sentences(atn) : w \in Seq(Nat \ {0})
  /\ \A course \in Courses : course \in Seq({"default", "bail", "kept"})

ASSUME GrammarsAssumption

VARIABLES
  g,           \* the ATN of the grammar, which no step changes
  input,       \* the types of the tokens before EOF
  parser,      \* the parser, its error strategy and the contexts made (Fresh)
  \* history
  handlers,    \* what was set as the error strategy for each parse
  ended        \* what came of the parses before this one (Outcome)

vars == <<g, input, parser, handlers, ended>>

StartRule == 1
NoContext == 0          \* an undefined rule context
Undefined == -1         \* an undefined token
Conjured == -1          \* the tokenIndex of a token that is not of the input
NoViableAlt == -1

-----------------------------------------------------------------------------
(* The input. *)

TypeOf(i) == IF i < Len(input) THEN input[i + 1] ELSE EOF
LA(p, k) == TypeOf(p.index + k - 1)
LastToken(p) == IF p.index = 0 THEN Undefined ELSE p.index - 1      \* tryLT(-1)

-----------------------------------------------------------------------------
(* Rule contexts.  Each is a node of the tree, known by its place in it.   *)

NewContext(r, parent, invoking, start) ==
  [rule |-> r, parent |-> parent, invoking |-> invoking,
   start |-> start, stop |-> Undefined, children |-> <<>>]

AddChild(p, c, kind, at) ==
  [p EXCEPT !.tree[c].children = Append(@, [kind |-> kind, at |-> at])]

(* The contexts from c up to the root, the innermost first. *)
Upwards(p, c) ==
  LET up[k \in 0 .. Len(p.tree)] ==
        IF k = 0 THEN c
        ELSE LET d == up[k - 1] IN IF d = NoContext THEN NoContext ELSE p.tree[d].parent
      depth == Cardinality({k \in 0 .. Len(p.tree) : up[k] # NoContext})
  IN [k \in 1 .. depth |-> up[k - 1]]

(* The states they return to. *)
FollowStates(p, c) ==
  LET up == Upwards(p, c)
      called == {k \in DOMAIN up : \A j \in 1 .. k : p.tree[up[j]].invoking # NoState}
  IN [k \in called |-> g.out[p.tree[up[k]].invoking][1].follow]

Fresh ==
  [index |-> 0, state |-> g.start[StartRule], alt |-> 0,
   tree |-> <<NewContext(StartRule, NoContext, NoState, 0)>>,
   root |-> 1, ctx |-> 1, result |-> NoContext, matchedEOF |-> FALSE,
   precedenceStack |-> IF StartRule \in g.precedenceRules THEN <<0, 0>> ELSE <<0>>,
   parentContextStack |-> IF StartRule \in g.precedenceRules
                          THEN <<[ctx |-> NoContext, state |-> NoState]>> ELSE <<>>,
   \* the error strategy
   handler |-> "default",
   errorRecoveryMode |-> FALSE, lastErrorIndex |-> -1, lastErrorStates |-> {},
   nextTokensContext |-> NoContext, nextTokensState |-> NoState,
   \* the exception on its way to the rule's handler, and what was reported
   thrown |-> "nothing", offendingState |-> NoState, offendingContext |-> NoContext,
   reports |-> <<>>]

Throw(p, e, s, c) == [p EXCEPT !.thrown = e, !.offendingState = s, !.offendingContext = c]

(* BailErrorStrategy: a ParseCancellationException, which no rule handles. *)
Bails(p) == p.handler = "bail"
Cancel(p) == [p EXCEPT !.thrown = "cancelled", !.alt = 0,
                       !.offendingState = NoState, !.offendingContext = NoContext]

-----------------------------------------------------------------------------
(* What is expected. *)

(* ATN.nextTokens(s), which the state keeps once it is asked for. *)
NextTokens(s) == g.nextTokenWithinRule[s]

(* ATN.getExpectedTokens: what follows state s and, as far as the rules of *)
(* the contexts from c up may end, what follows their calls.               *)
ExpectedTokens(p, s, c) ==
  LET stack == <<s>> \o FollowStates(p, c)
      reached == {i \in DOMAIN stack :
                    \A j \in 1 .. i - 1 : EPSILON \in NextTokens(stack[j])}
  IN (UNION {NextTokens(stack[i]) : i \in reached} \ {EPSILON})
     \cup {EOF : i \in {j \in reached : /\ j = Len(stack)
                                        /\ EPSILON \in NextTokens(stack[j])}}

Expected(p) == ExpectedTokens(p, p.state, p.ctx)

ErrorRecoverySet(p) ==
  UNION {NextTokens(f) : f \in Range(FollowStates(p, p.ctx))} \ {EPSILON}

-----------------------------------------------------------------------------
(* Consuming and reporting. *)

LeafKind(p) == IF p.errorRecoveryMode THEN "error" ELSE "terminal"

(* A mutant of ConsumeUntil that consumes on the input, not the parser. *)
ConsumeInputUntil(p, set) ==
  [p EXCEPT !.index = MinimumOf({i \in p.index .. Len(input) :
                                   TypeOf(i) = EOF \/ TypeOf(i) \in set})]

(* A mutant of Consume that advances over EOF. *)
ConsumePastEOF(p) ==
  [AddChild(p, p.ctx, LeafKind(p), p.index) EXCEPT !.index = @ + 1]

Consume(p) ==
  [AddChild(p, p.ctx, LeafKind(p), p.index)
     EXCEPT !.index = IF LA(p, 1) = EOF THEN @ ELSE @ + 1]

ConsumeUntil(p, set) ==
  LET stop == MinimumOf({i \in p.index .. Len(input) :
                           TypeOf(i) = EOF \/ TypeOf(i) \in set})
  IN [p EXCEPT !.index = stop,
               !.tree[p.ctx].children =
                  @ \o [i \in 1 .. stop - p.index |->
                          [kind |-> LeafKind(p), at |-> p.index + i - 1]]]

ReportMatch(p) ==
  [p EXCEPT !.errorRecoveryMode = FALSE, !.lastErrorStates = {}, !.lastErrorIndex = -1]

(* A mutant of Report that does not begin the error condition. *)
ReportOnly(p, message, expected) ==
  IF p.errorRecoveryMode THEN p
  ELSE [p EXCEPT !.reports = Append(@, [message |-> message, at |-> p.index,
                                        expected |-> expected])]

(* Nothing is reported in error recovery mode. *)
Report(p, message, expected) ==
  IF p.errorRecoveryMode THEN p
  ELSE [p EXCEPT !.errorRecoveryMode = TRUE,
                 !.reports = Append(@, [message |-> message, at |-> p.index,
                                        expected |-> expected])]

-----------------------------------------------------------------------------
(* Recovering in line. *)

CanDelete(p) == LA(p, 2) \in Expected(p)
SingleTokenDeletion(p) == ReportMatch(Consume(Report(p, "extraneous input", Expected(p))))

CanInsert(p) ==
  LA(p, 1) \in NextTokensInContext(g, g.out[p.state][1].target,
                                   FollowStates(p, p.ctx))
Inserts(p) == ~Bails(p) /\ ~CanDelete(p) /\ CanInsert(p)

RecoverInline(p) ==
  IF Bails(p) THEN Cancel(p)
  ELSE IF CanDelete(p) THEN Consume(SingleTokenDeletion(p))
  ELSE IF CanInsert(p) THEN Report(p, "missing", Expected(p))
  ELSE IF p.nextTokensContext = NoContext
  THEN Throw(p, "mismatched input", p.state, p.ctx)
  ELSE Throw(p, "mismatched input", p.nextTokensState, p.nextTokensContext)

(* match and matchWildcard: a token made up for a missing one becomes an   *)
(* error node.                                                             *)
MatchIf(p, accepted) ==
  IF accepted
  THEN Consume(ReportMatch(p))
  ELSE IF Inserts(p) THEN AddChild(RecoverInline(p), p.ctx, "error", Conjured)
  ELSE RecoverInline(p)

Match(p, ttype) ==
  MatchIf([p EXCEPT !.matchedEOF = @ \/ (ttype = EOF /\ LA(p, 1) = EOF)],
          LA(p, 1) = ttype)
MatchWildcard(p) == MatchIf(p, LA(p, 1) > 0)

(* sync, before every decision. *)
Sync(p) ==
  LET next == NextTokens(p.state)
      type == g.type[p.state]
      skips == p.errorRecoveryMode \/ Bails(p)
  IN CASE skips -> p
       [] ~skips /\ LA(p, 1) \in next ->
            [p EXCEPT !.nextTokensContext = NoContext, !.nextTokensState = NoState]
       [] ~skips /\ LA(p, 1) \notin next /\ EPSILON \in next ->
            IF p.nextTokensContext # NoContext THEN p
            ELSE [p EXCEPT !.nextTokensContext = p.ctx, !.nextTokensState = p.state]
       [] OTHER ->
            IF type \in {"BLOCK_START", "STAR_BLOCK_START", "PLUS_BLOCK_START",
                         "STAR_LOOP_ENTRY"}
            THEN IF CanDelete(p) THEN SingleTokenDeletion(p)
                 ELSE Throw(p, "mismatched input", p.state, p.ctx)
            ELSE IF type \in {"PLUS_LOOP_BACK", "STAR_LOOP_BACK"}
            THEN ConsumeUntil(Report(p, "extraneous input", Expected(p)),
                              Expected(p) \cup ErrorRecoverySet(p))
            ELSE p

-----------------------------------------------------------------------------
(* Rules. *)

EnterRule(p, t) ==
  [AddChild(p, p.ctx, "rule", Len(p.tree) + 1)
     EXCEPT !.tree = Append(@, NewContext(t.rule, p.ctx, p.state, p.index)),
            !.ctx = Len(p.tree) + 1]

(* A mutant of EnterRecursionRule that forgets the level of the call. *)
EnterRecursionRuleAtZero(p, t) ==
  [p EXCEPT !.tree = Append(@, NewContext(t.rule, p.ctx, p.state, p.index)),
            !.ctx = Len(p.tree) + 1,
            !.parentContextStack = <<[ctx |-> p.ctx, state |-> p.state]>> \o @,
            !.precedenceStack = <<0>> \o @]

(* A left-recursive rule joins the tree when it ends. *)
EnterRecursionRule(p, t) ==
  [p EXCEPT !.tree = Append(@, NewContext(t.rule, p.ctx, p.state, p.index)),
            !.ctx = Len(p.tree) + 1,
            !.parentContextStack = <<[ctx |-> p.ctx, state |-> p.state]>> \o @,
            !.precedenceStack = <<t.level>> \o @]

(* A mutant of PushNewRecursionContext that starts the new context at the  *)
(* operator.                                                               *)
PushNewRecursionContextHere(p) ==
  LET previous == p.ctx
      new      == Len(p.tree) + 1
      outer    == Head(p.parentContextStack)
      node     == NewContext(p.tree[previous].rule, outer.ctx, outer.state, p.index)
      operand  == [p.tree[previous] EXCEPT !.parent = new,
                                           !.invoking = g.start[g.rule[p.state]],
                                           !.stop = LastToken(p)]
  IN [p EXCEPT !.tree = Append([@ EXCEPT ![previous] = operand],
                               [node EXCEPT !.children = <<[kind |-> "rule", at |-> previous]>>]),
               !.ctx = new]

(* A mutant of UnrollRecursionContexts that leaves the precedence behind. *)
UnrollWithoutPop(p) ==
  LET outer    == Head(p.parentContextStack)
      unrolled == [p EXCEPT !.parentContextStack = Tail(@),
                            !.tree[p.ctx].stop = LastToken(p),
                            !.tree[p.ctx].parent = outer.ctx,
                            !.ctx = outer.ctx,
                            !.state = outer.state]
  IN IF outer.ctx = NoContext THEN unrolled
     ELSE AddChild(unrolled, outer.ctx, "rule", p.ctx)

(* At the loop of a left-recursive rule its context so far becomes the     *)
(* left operand of a new one.                                              *)
PushNewRecursionContext(p) ==
  LET previous == p.ctx
      new      == Len(p.tree) + 1
      outer    == Head(p.parentContextStack)
      node     == NewContext(p.tree[previous].rule, outer.ctx, outer.state,
                             p.tree[previous].start)
      operand  == [p.tree[previous] EXCEPT !.parent = new,
                                           !.invoking = g.start[g.rule[p.state]],
                                           !.stop = LastToken(p)]
  IN [p EXCEPT !.tree = Append([@ EXCEPT ![previous] = operand],
                               [node EXCEPT !.children = <<[kind |-> "rule", at |-> previous]>>]),
               !.ctx = new]

UnrollRecursionContexts(p) ==
  LET outer    == Head(p.parentContextStack)
      unrolled == [p EXCEPT !.parentContextStack = Tail(@),
                            !.precedenceStack = Tail(@),
                            !.tree[p.ctx].stop = LastToken(p),
                            !.tree[p.ctx].parent = outer.ctx,
                            !.ctx = outer.ctx,
                            !.state = outer.state]
  IN IF outer.ctx = NoContext THEN unrolled
     ELSE AddChild(unrolled, outer.ctx, "rule", p.ctx)

ExitRule(p) ==
  [p EXCEPT !.tree[p.ctx].stop = IF p.matchedEOF THEN p.index ELSE LastToken(p),
            !.state = p.tree[p.ctx].invoking,
            !.ctx = p.tree[p.ctx].parent]

Leave(p) ==
  IF g.rule[p.state] \in g.precedenceRules THEN UnrollRecursionContexts(p) ELSE ExitRule(p)

-----------------------------------------------------------------------------
(* What is done with an exception in state p: it is reported, and tokens   *)
(* are consumed up to one that may follow a rule under way.                *)

(* A mutant of Recover without the failsafe. *)
RecoverWithoutFailsafe(p) ==
  LET marked == [p EXCEPT !.lastErrorIndex = p.index, !.lastErrorStates = @ \cup {p.state}]
  IN ConsumeUntil(marked, ErrorRecoverySet(marked))

(* DefaultErrorStrategy.recover.  The second error at a token and a state  *)
(* consumes the token, whatever it is.                                     *)
Recover(p) ==
  LET failsafe == IF p.lastErrorIndex = p.index /\ p.state \in p.lastErrorStates
                  THEN Consume(p) ELSE p
      marked   == [failsafe EXCEPT !.lastErrorIndex = failsafe.index,
                                   !.lastErrorStates = @ \cup {p.state}]
  IN ConsumeUntil(marked, ErrorRecoverySet(marked))

Handled(p) ==
  LET expected  == IF p.thrown = "mismatched input"
                   THEN ExpectedTokens(p, p.offendingState, p.offendingContext) ELSE {}
      atStop    == [p EXCEPT !.state = g.stop[g.rule[p.state]], !.alt = 0]
      reported  == Report(atStop, p.thrown, expected)
      recovered == Recover(reported)
      handled   == [recovered EXCEPT !.thrown = "nothing", !.offendingState = NoState,
                                     !.offendingContext = NoContext]
  IN IF Bails(p) THEN Cancel(reported)
     ELSE IF recovered.index = p.index THEN AddChild(handled, p.ctx, "error", Conjured)
     ELSE handled

GoTo(p, s) ==
  IF p.thrown # "nothing" THEN p
  ELSE [p EXCEPT !.state = s, !.alt = 0]

-----------------------------------------------------------------------------
(* The loop of parse: one visit to a state at a time, and the handler when *)
(* it throws.  At a decision the visit begins with VisitDecisionState.     *)

Running == parser.result = NoContext /\ parser.thrown # "cancelled"
Visiting == Running /\ parser.thrown = "nothing"
AtStop == g.type[parser.state] = "RULE_STOP"
IsDecision == Visiting /\ ~AtStop /\ Len(g.out[parser.state]) > 1
Transition == g.out[parser.state][IF parser.alt = 0 THEN 1 ELSE parser.alt]
Visits(kind) ==
  /\ Visiting /\ ~AtStop
  /\ IsDecision => parser.alt # 0
  /\ Transition.kind = kind

Predicted(p) ==
  LET alt == Predict(g, p.state, [k \in Nat |-> TypeOf(p.index + k)],
                             FollowStates(p, p.ctx), Head(p.precedenceStack))
  IN IF alt = NoViableAlt
     THEN Throw(p, "no viable alternative", p.state, p.ctx)
     ELSE [p EXCEPT !.alt = alt]

VisitDecisionState ==
  /\ IsDecision /\ parser.alt = 0
  /\ \E synced \in {Sync(parser)} :
       parser' = IF synced.thrown # "nothing" THEN synced ELSE Predicted(synced)

VisitAtom ==
  /\ Visits("token")
  /\ \E ttype \in Transition.label : parser' = GoTo(Match(parser, ttype), Transition.target)

VisitSet ==
  /\ Visits("set")
  /\ \E p \in {IF LA(parser, 1) \in Transition.label THEN parser ELSE RecoverInline(parser)} :
       parser' = GoTo(IF p.thrown # "nothing" THEN p ELSE MatchWildcard(p), Transition.target)

VisitWildcard ==
  /\ Visits("wildcard")
  /\ parser' = GoTo(MatchWildcard(parser), Transition.target)

VisitRule ==
  /\ Visits("rule") /\ Len(parser.tree) - parser.root + 1 < MaxContexts
  /\ parser' = GoTo(IF Transition.rule \in g.precedenceRules
                    THEN EnterRecursionRule(parser, Transition)
                    ELSE EnterRule(parser, Transition), Transition.target)

VisitPredicate ==
  /\ Visits("predicate")
  /\ parser' = GoTo(IF Transition.predicate \in g.holding THEN parser
                    ELSE Throw(parser, "failed predicate", parser.state, parser.ctx),
                    Transition.target)

(* A mutant of Precpred that is off by one. *)
PrecpredAbove(p, level) == level > Head(p.precedenceStack)

(* precpred: the operator binds as tightly as the rule was called with. *)
Precpred(p, level) == level >= Head(p.precedenceStack)

VisitPrecedence ==
  /\ Visits("precedence")
  /\ parser' = GoTo(IF Precpred(parser, Transition.level) THEN parser
                    ELSE Throw(parser, "failed predicate", parser.state, parser.ctx),
                    Transition.target)

VisitAction ==
  /\ Visits("action")
  /\ parser' = GoTo(parser, Transition.target)

VisitEpsilon ==
  /\ Visits("epsilon")
  /\ parser' = GoTo(IF /\ parser.state \in g.precedenceDecisions
                       /\ g.type[Transition.target] # "LOOP_END"
                    THEN PushNewRecursionContext(parser) ELSE parser, Transition.target)

VisitRuleStopState ==
  /\ Visiting /\ AtStop
  /\ parser.tree[parser.ctx].invoking # NoState
  /\ LET left == Leave(parser) IN
       parser' = [left EXCEPT !.state = g.out[left.state][1].follow]

Return ==
  /\ Visiting /\ AtStop
  /\ parser.tree[parser.ctx].invoking = NoState
  /\ parser' = [Leave(parser) EXCEPT !.result = IF StartRule \in g.precedenceRules
                                                THEN parser.ctx ELSE parser.root]

(* The catch clause of the loop, before anything else is visited. *)
HandleException ==
  /\ Running /\ parser.thrown # "nothing"
  /\ parser' = Handled(parser)

-----------------------------------------------------------------------------
(* One parse after another. *)

(* A mutant of Reset that keeps what was known of EOF. *)
ResetButEOF(p, handler) ==
  LET kept == handler = "kept"
      root == Len(p.tree) + 1
  IN [Fresh EXCEPT !.tree = p.tree \o @, !.root = root, !.ctx = root,
                   !.matchedEOF = p.matchedEOF,
                   !.parentContextStack = @ \o p.parentContextStack,
                   !.handler = IF kept THEN p.handler ELSE handler,
                   !.nextTokensContext = IF kept THEN p.nextTokensContext ELSE NoContext,
                   !.nextTokensState = IF kept THEN p.nextTokensState ELSE NoState]

(* reset(), which goes back to the first token, and the start of parse().  *)
(* Left as they are: the parents of left-recursive rules that were not     *)
(* returned from, and the context that sync() keeps.                       *)
Reset(p, handler) ==
  LET kept == handler = "kept"
      root == Len(p.tree) + 1
  IN [Fresh EXCEPT !.tree = p.tree \o @, !.root = root, !.ctx = root,
                   !.parentContextStack = @ \o p.parentContextStack,
                   !.handler = IF kept THEN p.handler ELSE handler,
                   !.nextTokensContext = IF kept THEN p.nextTokensContext ELSE NoContext,
                   !.nextTokensState = IF kept THEN p.nextTokensState ELSE NoState]

Outcome(p) ==
  [contexts |-> p.root .. Len(p.tree), result |-> p.result, index |-> p.index,
   reports |-> p.reports, parents |-> p.parentContextStack, tracked |-> p.nextTokensContext]

ParseAgain ==
  /\ ~Running
  /\ \E course \in Courses :
       /\ Len(handlers) < Len(course) /\ handlers = SubSeq(course, 1, Len(handlers))
       /\ handlers' = Append(handlers, course[Len(handlers) + 1])
  /\ parser' = Reset(parser, handlers'[Len(handlers')])
  /\ ended' = Append(ended, Outcome(parser))
  /\ UNCHANGED <<g, input>>

Init ==
  /\ g \in Grammars
  /\ input \in Sentences(g)
  /\ parser = Fresh
  /\ handlers = <<"default">>
  /\ ended = <<>>

Visit == VisitDecisionState \/ VisitAtom \/ VisitSet \/ VisitWildcard \/ VisitRule
         \/ VisitPredicate \/ VisitPrecedence \/ VisitAction \/ VisitEpsilon
         \/ VisitRuleStopState \/ Return \/ HandleException

Next == (Visit /\ UNCHANGED <<g, input, handlers, ended>>) \/ ParseAgain

(* The loop of parse() goes on until it returns or throws, or the bound     *)
(* stops it.  This is WF_vars(Visit) without ENABLED.                      *)
AtBound == Visits("rule") /\ Len(parser.tree) - parser.root + 1 >= MaxContexts
KeepsRunning == []<>(~Running \/ AtBound) \/ []<><<Visit>>_vars

Spec == Init /\ [][Next]_vars /\ KeepsRunning

-----------------------------------------------------------------------------
(* What the parser has to do. *)

Nodes == DOMAIN parser.tree
Node(c) == parser.tree[c]
Finished == parser.result # NoContext

(* The contexts under way, the outermost first, and the tokens of the      *)
(* input below a node of this parse, from left to right.                   *)
Active ==
  LET up == Upwards(parser, parser.ctx) IN [i \in DOMAIN up |-> up[Len(up) + 1 - i]]
Leaves(c) ==
  LET below[d \in parser.root .. Len(parser.tree)] ==
        LET upTo[i \in 0 .. Len(Node(d).children)] ==
              IF i = 0 THEN <<>>
              ELSE LET child == Node(d).children[i] IN
                   upTo[i - 1] \o IF child.kind = "rule" THEN below[child.at]
                                  ELSE IF child.at = Conjured THEN <<>> ELSE <<child.at>>
        IN upTo[Len(Node(d).children)]
  IN below[c]

(* The fields keep their types: the cursor stays within the input, every   *)
(* context and child exists, and an exception is thrown at a state and in  *)
(* a context, neither of which is left over when it is handled.            *)
Places == {Undefined} \cup 0 .. Len(input)
TypeOK ==
  /\ parser.index \in 0 .. Len(input)
  /\ parser.state \in DOMAIN g.type \cup {NoState}
  /\ parser.ctx \in Nodes \cup {NoContext}
  /\ Running => parser.ctx # NoContext /\ parser.state # NoState
  /\ parser.precedenceStack \in Seq(Nat) /\ parser.precedenceStack # <<>>
  /\ parser.alt \in 0 .. (IF Running THEN Len(g.out[parser.state]) ELSE 0)
  /\ parser.nextTokensContext \in Nodes \cup {NoContext}
  /\ parser.lastErrorIndex \in Places
  /\ IF parser.thrown = "nothing"
     THEN parser.offendingState = NoState /\ parser.offendingContext = NoContext
     ELSE IF parser.thrown = "cancelled" THEN Bails(parser) /\ parser.result = NoContext
     ELSE Running /\ parser.offendingState \in DOMAIN g.type /\ parser.offendingContext \in Nodes
  /\ \A c \in Nodes :
       /\ Node(c).parent \in Nodes \cup {NoContext}
       /\ Node(c).start \in Places /\ Node(c).stop \in Places
       /\ \A i \in DOMAIN Node(c).children :
            LET child == Node(c).children[i] IN
            \/ child.kind = "rule" /\ child.at \in Nodes
            \/ child.kind = "terminal" /\ child.at \in 0 .. Len(input)
            \/ child.kind = "error" /\ child.at \in Places

(* Contexts that are the calls under way, the outermost first, and the     *)
(* stacks that go with them, the innermost first, upon what is left there. *)
IsRecursive(p, c) == p.tree[c].rule \in g.precedenceRules
Nested(p, calls, i) == Cardinality({j \in 1 .. i : IsRecursive(p, calls[j])})
CallAt(s) == g.out[s][1]

AreCalls(p, calls, left) ==
  LET depth == Nested(p, calls, Len(calls)) IN
  /\ \A i \in 1 .. Len(calls) :
       LET c     == p.tree[calls[i]]
           entry == depth + 1 - Nested(p, calls, i)
       IN /\ IF c.invoking = NoState THEN c.parent = NoContext
             ELSE /\ c.parent # NoContext
                  /\ Len(g.out[c.invoking]) = 1
                  /\ CallAt(c.invoking).kind = "rule" /\ CallAt(c.invoking).rule = c.rule
                  /\ g.rule[c.invoking] = p.tree[c.parent].rule
          /\ IsRecursive(p, calls[i]) =>
               /\ p.precedenceStack[entry] =
                    IF c.invoking = NoState THEN 0 ELSE CallAt(c.invoking).level
               /\ p.parentContextStack[entry] = [ctx |-> c.parent, state |-> c.invoking]
  /\ Len(p.precedenceStack) = depth + 1 /\ p.precedenceStack[depth + 1] = 0
  /\ SubSeq(p.parentContextStack, depth + 1, Len(p.parentContextStack)) = left

LeftBefore == IF ended = <<>> THEN <<>> ELSE ended[Len(ended)].parents

(* The contexts from the current one up are the calls under way: each was  *)
(* invoked by a call of its rule in the rule of its parent, the innermost  *)
(* is of the rule the current state belongs to, and the two stacks of the  *)
(* left-recursive rules hold, for each of those under way, what it was     *)
(* called with and where it returns to; at the end nothing is left on them.*)
(* Whatever was matched, mended, or thrown: enterRecursionRule,            *)
(* pushNewRecursionContext and unrollRecursionContexts keep three          *)
(* structures in step (ParserInterpreter.ts, Parser.ts).                   *)
ContextsAreCalls ==
  /\ Running => Node(parser.ctx).rule = g.rule[parser.state]
  /\ AreCalls(parser, Active, LeftBefore)

(* The leaves of the finished tree are the tokens consumed, in order, each *)
(* once (EOF, which consume() does not advance over, may come again):      *)
(* no token is lost or doubled by a deletion, an insertion, a skip to the  *)
(* recovery set or the regrouping of left operands.                        *)
LeavesAreInput ==
  Finished =>
    LET leaves == Leaves(parser.result) IN
    /\ parser.index <= Len(leaves)
    /\ \A i \in DOMAIN leaves :
         leaves[i] = IF i <= parser.index THEN i - 1 ELSE Len(input)
    /\ Len(leaves) > parser.index => parser.index = Len(input)

(* Between two errors reported the parser gets ahead: no token before EOF  *)
(* is reported twice, however many rules fail at it one after the other.   *)
(* errorRecoveryMode ends only with a match (DefaultErrorStrategy.ts).     *)
ReportsAdvance ==
  \A i, j \in DOMAIN parser.reports :
    i < j => \/ parser.reports[i].at < parser.reports[j].at
             \/ parser.reports[i].at = Len(input)

(* The node of a rule spans its tokens: it starts at the first, an operand *)
(* at the loop of a left-recursive rule included, and stops at the last,   *)
(* or at EOF when that is the last.                                        *)
NodesSpanLeaves ==
  Finished =>
    \A c \in parser.root .. Len(parser.tree) :
      LET below  == {Leaves(c)[i] : i \in DOMAIN Leaves(c)}
          tokens == below \ {Len(input)}
      IN tokens # {} =>
           /\ Node(c).start \in tokens /\ \A i \in tokens : Node(c).start <= i
           /\ \/ Node(c).stop \in tokens /\ \A i \in tokens : i <= Node(c).stop
              \/ Node(c).stop = Len(input) /\ Len(input) \in below

(* The operator of a binary node of a left-recursive rule binds as tightly *)
(* as the precedence predicate before it says.                             *)
IsBinary(c) ==
  /\ Node(c).rule \in g.precedenceRules
  /\ Len(Node(c).children) = 3
  /\ Node(c).children[1].kind = "rule" /\ Node(c).children[2].kind = "terminal"
Binding(c) ==
  LET Operand(s) == g.out[s][1]
      before == {s \in DOMAIN g.type :
                   /\ g.rule[s] = Node(c).rule
                   /\ g.out[s] # <<>> /\ Operand(s).kind = "precedence"
                   /\ Matches(g, Operand(Operand(s).target), TypeOf(Node(c).children[2].at))}
  IN Operand(CHOOSE s \in before : TRUE).level

CalledWith(c) == g.out[Node(c).invoking][1].level
LeftOperand(c) == Node(c).children[1].at
RightOperand(c) == Node(c).children[Len(Node(c).children)].at

(* The operands down the right edge of a node. *)
OpenOnTheRight(c) ==
  LET open[d \in Nodes] ==
        LET n == Len(Node(d).children) IN
        IF n = 0 \/ Node(d).children[n].kind # "rule" THEN {}
        ELSE {RightOperand(d)} \cup open[RightOperand(d)]
  IN open[c]

(* The tree groups what a sentence leaves open as the precedences and the  *)
(* associativity of the grammar say: a right operand holds only operators  *)
(* as tight as it was called for, and none of the operands that end where  *)
(* an operator follows could have taken that operator.  It takes the loop  *)
(* decision, the predicates, the level on the stack and the regrouping of  *)
(* contexts to agree.                                                      *)
OperatorsBind ==
  Finished /\ parser.reports = <<>> =>
    \A c \in parser.root .. Len(parser.tree) : IsBinary(c) =>
      /\ IsBinary(RightOperand(c)) => Binding(RightOperand(c)) >= CalledWith(RightOperand(c))
      /\ \A d \in OpenOnTheRight(LeftOperand(c)) : CalledWith(d) > Binding(c)

-----------------------------------------------------------------------------
(* The language of a grammar: what the ATN derives when every choice is    *)
(* tried, and precedence predicates are told the level of their rule's     *)
(* call.  A path is [state, stack, at], at tokens into the sentence w.     *)

Paths == [state : Nat, stack : Seq([follow : Nat, level : Nat]), at : Nat]
PathsOf(w) ==
  LET Level(c) == IF c.stack = <<>> THEN 0 ELSE Head(c.stack).level
      symbol(c) == IF c.at < Len(w) THEN w[c.at + 1] ELSE EOF
      Follow(c, t) ==
        CASE t.kind = "rule" ->
               {[c EXCEPT !.state = t.target,
                          !.stack = <<[follow |-> t.follow, level |-> t.level]>> \o @]}
          [] t.kind = "precedence" /\ t.level < Level(c) -> {}
          [] t.kind = "predicate" /\ t.predicate \notin g.holding -> {}
          [] ~IsEpsilon(t) /\ ~Matches(g, t, symbol(c)) -> {}
          [] ~IsEpsilon(t) /\ Matches(g, t, symbol(c)) ->
               {[c EXCEPT !.state = t.target,
                          !.at = IF @ < Len(w) THEN @ + 1 ELSE @]}
          [] OTHER -> {[c EXCEPT !.state = t.target]}
      Successors(c) ==
        IF g.type[c.state] # "RULE_STOP" THEN UNION {Follow(c, t) : t \in g.edges[c.state]}
        ELSE IF c.stack = <<>> THEN {}
        ELSE {[c EXCEPT !.state = Head(c.stack).follow, !.stack = Tail(@)]}
      reach[S \in SUBSET Paths] ==
        LET T == S \cup UNION {Successors(c) : c \in S} IN IF T = S THEN S ELSE reach[T]
  IN reach[{[state |-> g.start[StartRule], stack |-> <<>>, at |-> 0]}]
Derives(w) ==
  \E c \in PathsOf(w) : c.state = g.stop[StartRule] /\ c.stack = <<>> /\ c.at = Len(w)
Begins(w) == \E c \in PathsOf(w) : c.at = Len(w)

(* The parser accepts exactly the sentences: it reports nothing when the   *)
(* input is one, and when it reports nothing what it consumed is one.      *)
(* Neither sync before a decision, nor a prediction from the local or the  *)
(* full context, nor the filter of precedence predicates may lose a        *)
(* sentence (ParserATNSimulator.ts, DefaultErrorStrategy.ts); a parse is   *)
(* not cancelled for one (BailErrorStrategy.ts).                           *)
AcceptsSentences ==
  LET accepted == Finished /\ parser.reports = <<>> IN
  ~Running => /\ Derives(input) => accepted
              /\ accepted => Derives(SubSeq(input, 1, parser.index))

(* Nothing is left of a parse but the tokens of an input: parsed again, by *)
(* the same error strategy or by a new one after one that bailed out in    *)
(* the middle of rules, it comes to the same tree and the same errors, and *)
(* is cancelled only if it has errors.  What is expected at an error may   *)
(* differ, as a context tracked by sync() outlives reset() in the strategy *)
(* (Parser.reset, DefaultErrorStrategy.reset, BailErrorStrategy.recover).  *)
ParsesAreRepeatable ==
  LET first == ended[1]
      now   == Outcome(parser)
      back  == parser.root - 1
      Was(c) == IF c = NoContext THEN c ELSE c - back
      WasNode(c) ==
        [Node(c) EXCEPT !.parent = Was(@),
                        !.children = [i \in DOMAIN @ |->
                           LET child == Node(c).children[i] IN
                           IF child.kind = "rule" THEN [child EXCEPT !.at = Was(@)] ELSE child]]
      tracked == handlers[Len(handlers)] = "kept" /\ ended[Len(ended)].tracked # NoContext
  IN ~Running /\ ended # <<>> =>
       IF ~Finished THEN first.reports # <<>>
       ELSE ~Bails(parser) \/ first.reports = <<>> =>
         /\ now.index = first.index /\ Was(now.result) = first.result
         /\ Cardinality(now.contexts) = Cardinality(first.contexts)
         /\ \A c \in now.contexts : WasNode(c) = Node(Was(c))
         /\ Len(now.reports) = Len(first.reports)
         /\ \A i \in DOMAIN first.reports :
              /\ now.reports[i].message = first.reports[i].message
              /\ now.reports[i].at = first.reports[i].at
              /\ now.reports[i].expected = first.reports[i].expected \/ tracked

(* What the doc comment of expectedTokens says of an exception: the tokens *)
(* it expects could follow the symbol matched before it was thrown.  Asked *)
(* of the first error of a parse, before which all was matched             *)
(* (RecognitionException.ts, DefaultErrorStrategy.nextTokensContext).      *)
ExpectedTokensFollow ==
  \A i \in DOMAIN parser.reports :
    i = 1 /\ parser.reports[i].message = "mismatched input" =>
      \A ttype \in parser.reports[i].expected \ {EOF} :
        Begins(Append(SubSeq(input, 1, parser.reports[i].at), ttype))

(* What recoverInline is to do at a set: give the token that is the result *)
(* of the match.  So what a visit to a set adds to the tree as matched, and *)
(* not as an error, is a token of the set (ParserInterpreter.visitState).  *)
SetMatchesItsTokens ==
  [][VisitSet =>
       LET before == Len(parser.tree[parser.ctx].children)
           after  == parser'.tree[parser.ctx].children
       IN \A i \in before + 1 .. Len(after) :
            after[i].kind = "terminal" => TypeOf(after[i].at) \in Transition.label]_vars

(* Every parse comes to an end, whatever the input, within the bound on its *)
(* contexts: what stops a rule from failing for ever at one token, called  *)
(* again each time, is the failsafe of recover().                          *)
Terminates == []<>~Running
=============================================================================
