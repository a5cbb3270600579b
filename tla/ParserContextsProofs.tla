----------------------- MODULE ParserContextsProofs -----------------------
(***************************************************************************)
(* What the operations of ParserInterpreter do to a parser p, from which   *)
(* they give a parser q.                                                   *)
(*                                                                         *)
(* First the reports: no token before EOF is reported twice, for every     *)
(* grammar, input, lookahead and prediction (ReportsAdvance).  Every report*)
(* that was made is behind the cursor, or the parser is in error recovery  *)
(* mode, in which nothing is reported (Mended).  Each operation has to keep*)
(* that and not to go back (Advances).                                     *)
(*                                                                         *)
(* Then the types, and the calls under way, as lemmas for                  *)
(* ParserInterpreterProofs.  What consumes, reports and recovers leaves the*)
(* contexts and the stacks as they are (Keeps).  The calls are a chain of  *)
(* contexts from the root to the current one, with the stacks that go with *)
(* them (InCalls), which a call makes longer (Enters), a return shorter    *)
(* (Returns) and a left operand changes at its end (Regroups).             *)
(***************************************************************************)
EXTENDS ParserInterpreter, Counting, SequenceTheorems

States     == DOMAIN g.type

(* What the assumption says of the grammar that is parsed with. *)
LEMMA GrammarFacts ==
  ASSUME g \in Grammars
  PROVE  /\ IsATN(g) /\ States \subseteq Nat /\ NoState \notin States
         /\ \A w \in Sentences(g) : w \in Seq(Nat \ {0})
<1>1. IsATN(g) /\ \A w \in Sentences(g) : w \in Seq(Nat \ {0})
  BY GrammarsAssumption DEF GrammarsAssumption
<1>2. States \subseteq Nat
  BY <1>1 DEF IsATN, States
<1> QED BY <1>1, <1>2 DEF NoState

(* MinimumOf gives the least of a set of indices. *)
LEMMA MinimumIsLeast ==
  ASSUME NEW S \in SUBSET Nat, S # {}
  PROVE  MinimumOf(S) \in S /\ \A y \in S : MinimumOf(S) <= y
BY LeastElement DEF MinimumOf

(* Only behind the last token is there EOF. *)
IsInput(w) == w \in Seq(Nat \ {0})
LEMMA InputFacts ==
  ASSUME IsInput(input)
  PROVE  /\ Len(input) \in Nat
         /\ \A i \in 0 .. Len(input) : TypeOf(i) = EOF <=> i = Len(input)
BY DEF IsInput, TypeOf, EOF

-----------------------------------------------------------------------------
(* Reports. *)

Mending == {"index", "errorRecoveryMode", "reports"}
Behind(p, i) == p.reports[i].at < p.index \/ p.reports[i].at = Len(input)

Ordered(p) ==
  /\ Mending \subseteq DOMAIN p /\ p.index \in 0 .. Len(input)
  /\ \E R : p.reports \in Seq(R)
  /\ \A i \in 1 .. Len(p.reports) : p.reports[i].at \in 0 .. p.index
  /\ \A i, j \in 1 .. Len(p.reports) :
       i < j => p.reports[i].at < p.reports[j].at \/ p.reports[i].at = Len(input)

AllBehind(p) == \A i \in 1 .. Len(p.reports) : Behind(p, i)

Mended(p) == Ordered(p) /\ (p.errorRecoveryMode \/ AllBehind(p))

(* q is p but for fields that no report is about *)
SameReports(p, q) ==
  /\ DOMAIN q = DOMAIN p
  /\ q.index = p.index /\ q.errorRecoveryMode = p.errorRecoveryMode /\ q.reports = p.reports

(* What does not touch the cursor, the mode or the reports changes        *)
(* nothing.                                                               *)
LEMMA SameReportsMended ==
  ASSUME NEW p, NEW q, SameReports(p, q)
  PROVE  /\ Ordered(p) => Ordered(q)
         /\ AllBehind(p) => AllBehind(q)
         /\ Mended(p) => Mended(q)
BY DEF SameReports, Ordered, AllBehind, Behind, Mended

(* A child is nothing that a report is about. *)
LEMMA AddChildReports ==
  ASSUME NEW p, NEW c, NEW kind, NEW at, Ordered(p)
  PROVE  SameReports(p, AddChild(p, c, kind, at))
BY DEF SameReports, AddChild, Ordered, Mending

(* A token consumed leaves every report behind the cursor. *)
LEMMA ConsumeReports ==
  ASSUME IsInput(input), NEW p, Ordered(p)
  PROVE  LET q == Consume(p) IN
         /\ Ordered(q) /\ AllBehind(q) /\ Mended(q) /\ q.index >= p.index
         /\ q.errorRecoveryMode = p.errorRecoveryMode
<1> DEFINE q == Consume(p)
<1>1. /\ DOMAIN q = DOMAIN p /\ q.errorRecoveryMode = p.errorRecoveryMode /\ q.reports = p.reports
      /\ q.index = IF LA(p, 1) = EOF THEN p.index ELSE p.index + 1
  BY DEF Consume, AddChild, Ordered, Mending
<1>2. LA(p, 1) = EOF <=> p.index = Len(input)
  BY InputFacts DEF LA, Ordered
<1> HIDE DEF q
<1>3. Ordered(q) /\ AllBehind(q) /\ q.index >= p.index
  BY <1>1, <1>2, InputFacts DEF Ordered, AllBehind, Behind, Mending
<1> QED BY <1>1, <1>3 DEF q, Mended

(* Skipping to the recovery set never goes back. *)
LEMMA ConsumeUntilReports ==
  ASSUME IsInput(input), NEW p, Mended(p), NEW set
  PROVE  LET q == ConsumeUntil(p, set) IN Mended(q) /\ q.index >= p.index
<1> DEFINE S == {i \in p.index .. Len(input) : TypeOf(i) = EOF \/ TypeOf(i) \in set}
           q == ConsumeUntil(p, set)
<1>1. S \in SUBSET Nat /\ Len(input) \in S
  BY InputFacts DEF Mended, Ordered
<1>2. MinimumOf(S) \in p.index .. Len(input)
  <2> HIDE DEF S
  <2>1. MinimumOf(S) \in S
    BY <1>1, MinimumIsLeast
  <2> QED BY <2>1 DEF S
<1>3. /\ DOMAIN q = DOMAIN p /\ q.errorRecoveryMode = p.errorRecoveryMode /\ q.reports = p.reports
      /\ q.index = MinimumOf(S)
  <2> HIDE DEF S
  <2> QED BY DEF ConsumeUntil, Ordered, Mended, Mending, S
<1> HIDE DEF q, S
<1>4. Mended(q) /\ q.index >= p.index
  BY <1>2, <1>3, InputFacts DEF Mended, Ordered, AllBehind, Behind, Mending
<1> QED BY <1>4 DEF q

(* The mode may end once every report is behind the cursor. *)
LEMMA ReportMatchReports ==
  ASSUME NEW p, Ordered(p)
  PROVE  LET q == ReportMatch(p) IN
         /\ Ordered(q) /\ q.index = p.index /\ (AllBehind(p) => Mended(q))
BY DEF ReportMatch, Ordered, AllBehind, Behind, Mended, Mending

(* An error is reported at the cursor, and begins the mode. *)
LEMMA ReportReports ==
  ASSUME IsInput(input), NEW p, Mended(p), NEW message, NEW expected
  PROVE  LET q == Report(p, message, expected) IN Mended(q) /\ q.index = p.index
<1>1. CASE p.errorRecoveryMode
  BY <1>1 DEF Report
<1>2. CASE ~p.errorRecoveryMode
  <2> DEFINE r == [message |-> message, at |-> p.index, expected |-> expected]
             q == Report(p, message, expected)
  <2>1. /\ DOMAIN q = DOMAIN p /\ q.errorRecoveryMode /\ q.reports = Append(p.reports, r)
        /\ q.index = p.index
    BY <1>2 DEF Report, Mended, Ordered, Mending
  <2>2. r.at = p.index
    OBVIOUS
  <2> HIDE DEF q, r
  <2>3. PICK R : p.reports \in Seq(R)
    BY DEF Mended, Ordered
  <2>4. /\ q.reports \in Seq(R \cup {r}) /\ Len(q.reports) = Len(p.reports) + 1
        /\ \A i \in 1 .. Len(p.reports) : q.reports[i] = p.reports[i]
        /\ q.reports[Len(p.reports) + 1] = r /\ Len(p.reports) \in Nat
    BY <2>1, <2>3
  <2>5. \A i \in 1 .. Len(q.reports) : q.reports[i].at \in 0 .. q.index
    BY <2>1, <2>2, <2>4 DEF Mended, Ordered
  <2>6. \A i, j \in 1 .. Len(q.reports) :
          i < j => q.reports[i].at < q.reports[j].at \/ q.reports[i].at = Len(input)
    <3> SUFFICES ASSUME NEW i \in 1 .. Len(q.reports), NEW j \in 1 .. Len(q.reports), i < j
                 PROVE  q.reports[i].at < q.reports[j].at \/ q.reports[i].at = Len(input)
      OBVIOUS
    <3>1. CASE j \in 1 .. Len(p.reports)
      <4>1. i \in 1 .. Len(p.reports)
        BY <2>4, <3>1
      <4> QED BY <2>4, <3>1, <4>1 DEF Mended, Ordered
    <3>2. CASE j = Len(p.reports) + 1
      <4>1. i \in 1 .. Len(p.reports)
        BY <2>4, <3>2
      <4> QED BY <1>2, <2>2, <2>4, <3>2, <4>1 DEF Mended, AllBehind, Behind
    <3> QED BY <2>4, <3>1, <3>2
  <2>7. Mended(q)
    BY <2>1, <2>4, <2>5, <2>6 DEF Mended, Ordered
  <2> QED BY <2>1, <2>7 DEF q
<1> QED BY <1>1, <1>2

(* q is a parser that has got no further back. *)
Advances(p, q) == Mended(p) => Mended(q) /\ q.index >= p.index

(* Advances is transitive. *)
LEMMA AdvancesTwice ==
  ASSUME IsInput(input), NEW p, NEW q, NEW r, Advances(p, q), Advances(q, r)
  PROVE  Advances(p, r)
BY InputFacts DEF Advances, Mended, Ordered

(* A change of other fields advances. *)
LEMMA AdvancesSame ==
  ASSUME IsInput(input), NEW p, NEW q, Mended(p) => SameReports(p, q)
  PROVE  Advances(p, q)
BY InputFacts, SameReportsMended DEF Advances, Mended, Ordered, SameReports

(* Doing nothing advances. *)
LEMMA AdvancesNot ==
  ASSUME IsInput(input), NEW p
  PROVE  Advances(p, p)
BY InputFacts DEF Advances, Mended, Ordered

(* An exception says nothing yet. *)
LEMMA ThrowAdvances ==
  ASSUME IsInput(input), NEW p, NEW e, NEW s, NEW c
  PROVE  Advances(p, Throw(p, e, s, c))
<1>1. Mended(p) => SameReports(p, Throw(p, e, s, c))
  BY DEF SameReports, Throw, Mended, Ordered, Mending
<1> QED BY <1>1, AdvancesSame, Zenon

(* Nor does a cancelled parse. *)
LEMMA CancelAdvances ==
  ASSUME IsInput(input), NEW p
  PROVE  Advances(p, Cancel(p))
<1>1. Mended(p) => SameReports(p, Cancel(p))
  BY DEF SameReports, Cancel, Mended, Ordered, Mending
<1> QED BY <1>1, AdvancesSame, Zenon

(* The next state is nothing that a report is about. *)
LEMMA GoToAdvances ==
  ASSUME IsInput(input), NEW p, NEW s
  PROVE  Advances(p, GoTo(p, s))
<1>1. Mended(p) => SameReports(p, GoTo(p, s))
  BY DEF SameReports, GoTo, Mended, Ordered, Mending
<1> QED BY <1>1, AdvancesSame, Zenon

(* Report. *)
LEMMA ReportAdvances ==
  ASSUME IsInput(input), NEW p, NEW message, NEW expected
  PROVE  Advances(p, Report(p, message, expected))
<1>1. ASSUME Mended(p)
      PROVE  LET q == Report(p, message, expected) IN Mended(q) /\ q.index = p.index
  BY <1>1, ReportReports
<1> QED BY <1>1, InputFacts DEF Advances, Mended, Ordered

(* Consume. *)
LEMMA ConsumeAdvances ==
  ASSUME IsInput(input), NEW p
  PROVE  Advances(p, Consume(p))
BY ConsumeReports DEF Advances, Mended

(* singleTokenDeletion: the report, the token consumed, the end of the    *)
(* mode.                                                                  *)
LEMMA DeletionAdvances ==
  ASSUME IsInput(input), NEW p
  PROVE  Advances(p, SingleTokenDeletion(p))
<1> DEFINE r == Report(p, "extraneous input", Expected(p))
           c == Consume(r)
<1>1. Advances(p, r)
  BY ReportAdvances
<1> HIDE DEF r
<1>2. Mended(r) => Ordered(c) /\ AllBehind(c) /\ c.index >= r.index
  BY ConsumeReports DEF Mended
<1> HIDE DEF c
<1>3. Advances(r, ReportMatch(c))
  BY <1>2, ReportMatchReports, InputFacts DEF Advances, Ordered
<1>4. SingleTokenDeletion(p) = ReportMatch(c)
  BY DEF SingleTokenDeletion, c, r
<1> QED BY <1>1, <1>3, <1>4, AdvancesTwice

(* recoverInline, whatever it does. *)
LEMMA RecoverInlineAdvances ==
  ASSUME IsInput(input), NEW p
  PROVE  Advances(p, RecoverInline(p))
<1> DEFINE d == SingleTokenDeletion(p)
<1>1. Advances(p, Consume(d))
  BY DeletionAdvances, ConsumeAdvances, AdvancesTwice, Zenon
<1>2. /\ Advances(p, Cancel(p)) /\ Advances(p, Report(p, "missing", Expected(p)))
      /\ \A s, c : Advances(p, Throw(p, "mismatched input", s, c))
  BY CancelAdvances, ReportAdvances, ThrowAdvances, Zenon
<1> QED BY <1>1, <1>2, Zenon DEF RecoverInline

(* A token that matches ends the mode, but is consumed at once. *)
LEMMA MatchIfAdvances ==
  ASSUME IsInput(input), NEW p, NEW accepted
  PROVE  Advances(p, MatchIf(p, accepted))
<1>1. CASE accepted
  <2> DEFINE r == ReportMatch(p)
  <2>1. Mended(p) => Ordered(r) /\ r.index = p.index
    BY ReportMatchReports DEF Mended
  <2> HIDE DEF r
  <2>2. Advances(p, Consume(r))
    BY <2>1, ConsumeReports DEF Advances
  <2> QED BY <1>1, <2>2, Zenon DEF MatchIf, r
<1>2. CASE ~accepted
  <2> DEFINE r == RecoverInline(p)
             c == AddChild(r, p.ctx, "error", Conjured)
  <2>1. Advances(p, r)
    BY RecoverInlineAdvances
  <2>2. Advances(r, c)
    BY AddChildReports, AdvancesSame, Zenon DEF Mended
  <2>3. Advances(p, c)
    BY <2>1, <2>2, AdvancesTwice, Zenon
  <2> QED BY <1>2, <2>1, <2>3, Zenon DEF MatchIf
<1> QED BY <1>1, <1>2

(* match and matchWildcard. *)
LEMMA MatchAdvances ==
  ASSUME IsInput(input), NEW p, NEW ttype
  PROVE  Advances(p, Match(p, ttype)) /\ Advances(p, MatchWildcard(p))
<1> DEFINE v == p.matchedEOF \/ (ttype = EOF /\ LA(p, 1) = EOF)
           q == [p EXCEPT !.matchedEOF = v]
<1>1. Advances(p, q)
  <2> HIDE DEF v
  <2> QED BY AdvancesSame DEF SameReports, Mended, Ordered, Mending
<1> HIDE DEF q
<1>2. Advances(q, MatchIf(q, LA(p, 1) = ttype))
  BY MatchIfAdvances, Zenon
<1>3. Match(p, ttype) = MatchIf(q, LA(p, 1) = ttype)
  BY Zenon DEF Match, q
<1>4. Advances(p, Match(p, ttype))
  BY <1>1, <1>2, <1>3, AdvancesTwice, Zenon
<1>5. Advances(p, MatchWildcard(p))
  BY MatchIfAdvances, Zenon DEF MatchWildcard
<1> QED BY <1>4, <1>5

(* sync. *)
LEMMA SyncAdvances ==
  ASSUME IsInput(input), NEW p
  PROVE  Advances(p, Sync(p))
<1> DEFINE set == Expected(p) \cup ErrorRecoverySet(p)
           r   == Report(p, "extraneous input", Expected(p))
           c   == ConsumeUntil(r, set)
           Tracked(a, b) == [p EXCEPT !.nextTokensContext = a, !.nextTokensState = b]
<1>1. \A a, b : Advances(p, Tracked(a, b))
  <2>1. \A a, b : Mended(p) => SameReports(p, Tracked(a, b))
    BY DEF SameReports, Mended, Ordered, Mending
  <2> HIDE DEF Tracked
  <2> QED BY <2>1, AdvancesSame, Zenon
<1>2. Advances(p, r)
  BY ReportAdvances, Zenon
<1>3. Advances(p, c)
  <2> HIDE DEF r, set
  <2>1. Advances(r, c)
    BY ConsumeUntilReports DEF Advances
  <2> QED BY <1>2, <2>1, AdvancesTwice, Zenon
<1>4. /\ Advances(p, SingleTokenDeletion(p)) /\ Advances(p, p)
      /\ Advances(p, Throw(p, "mismatched input", p.state, p.ctx))
  BY DeletionAdvances, ThrowAdvances, AdvancesNot, Zenon
<1>5. \/ Sync(p) \in {p, SingleTokenDeletion(p), Throw(p, "mismatched input", p.state, p.ctx), c}
      \/ \E a, b : Sync(p) = Tracked(a, b)
  BY Zenon DEF Sync
<1> HIDE DEF c, Tracked
<1> QED BY <1>1, <1>3, <1>4, <1>5, Zenon

(* The handler of a rule: report, recover, and a node for nothing         *)
(* consumed.                                                              *)
LEMMA HandledAdvances ==
  ASSUME IsInput(input), NEW p
  PROVE  Advances(p, Handled(p))
<1> DEFINE expected  == IF p.thrown = "mismatched input"
                        THEN ExpectedTokens(p, p.offendingState, p.offendingContext) ELSE {}
           atStop    == [p EXCEPT !.state = g.stop[g.rule[p.state]], !.alt = 0]
           reported  == Report(atStop, p.thrown, expected)
           failsafe  == IF reported.lastErrorIndex = reported.index
                           /\ reported.state \in reported.lastErrorStates
                        THEN Consume(reported) ELSE reported
           marked    == [failsafe EXCEPT !.lastErrorIndex = failsafe.index,
                                         !.lastErrorStates = @ \cup {reported.state}]
           recovered == ConsumeUntil(marked, ErrorRecoverySet(marked))
           handled   == [recovered EXCEPT !.thrown = "nothing", !.offendingState = NoState,
                                          !.offendingContext = NoContext]
           mended    == AddChild(handled, p.ctx, "error", Conjured)
<1>1. Advances(p, atStop)
  <2>1. Mended(p) => SameReports(p, atStop)
    BY DEF SameReports, Mended, Ordered, Mending
  <2> QED BY <2>1, AdvancesSame, Zenon
<1>2. Advances(p, reported)
  <2> HIDE DEF atStop, expected
  <2>1. Advances(atStop, reported)
    BY ReportAdvances, Zenon
  <2> QED BY <1>1, <2>1, AdvancesTwice, Zenon
<1>3. Advances(reported, failsafe)
  <2> HIDE DEF reported
  <2> QED BY ConsumeAdvances, AdvancesNot, Zenon
<1>4. Advances(failsafe, marked)
  <2> HIDE DEF failsafe, reported
  <2>1. Mended(failsafe) => SameReports(failsafe, marked)
    BY DEF SameReports, Mended, Ordered, Mending
  <2> HIDE DEF marked
  <2> QED BY <2>1, AdvancesSame, Zenon
<1>5. Advances(marked, recovered)
  <2> HIDE DEF marked
  <2> QED BY ConsumeUntilReports DEF Advances
<1>6. Advances(recovered, handled)
  <2> HIDE DEF recovered
  <2>1. Mended(recovered) => SameReports(recovered, handled)
    BY DEF SameReports, Mended, Ordered, Mending
  <2> HIDE DEF handled
  <2> QED BY <2>1, AdvancesSame, Zenon
<1>7. Advances(handled, mended)
  <2> HIDE DEF handled
  <2>1. Mended(handled) => SameReports(handled, mended)
    BY AddChildReports, Zenon DEF Mended
  <2> HIDE DEF mended
  <2> QED BY <2>1, AdvancesSame, Zenon
<1>8. Handled(p) = IF Bails(p) THEN Cancel(reported)
                   ELSE IF recovered.index = p.index THEN mended ELSE handled
  BY Zenon DEF Handled, Recover
<1> HIDE DEF reported, failsafe, marked, recovered, handled, mended
<1>9. Advances(p, handled) /\ Advances(p, mended)
  BY <1>2, <1>3, <1>4, <1>5, <1>6, <1>7, AdvancesTwice
<1>10. Advances(p, Cancel(reported))
  BY <1>2, CancelAdvances, AdvancesTwice, Zenon
<1> QED BY <1>8, <1>9, <1>10, Zenon

(* The rules of the grammar. *)
LEMMA RulesAdvance ==
  ASSUME IsInput(input), NEW p, NEW t
  PROVE  /\ Advances(p, EnterRule(p, t)) /\ Advances(p, EnterRecursionRule(p, t))
         /\ Advances(p, PushNewRecursionContext(p)) /\ Advances(p, Leave(p))
<1>1. Mended(p) => SameReports(p, EnterRule(p, t))
  BY DEF EnterRule, AddChild, SameReports, Mended, Ordered, Mending
<1>2. Mended(p) => SameReports(p, EnterRecursionRule(p, t))
  BY DEF EnterRecursionRule, SameReports, Mended, Ordered, Mending
<1>3. Mended(p) => SameReports(p, PushNewRecursionContext(p))
  BY DEF PushNewRecursionContext, SameReports, Mended, Ordered, Mending
<1>4. Mended(p) => SameReports(p, ExitRule(p))
  BY DEF ExitRule, SameReports, Mended, Ordered, Mending
<1>5. Mended(p) => SameReports(p, UnrollRecursionContexts(p))
  BY DEF UnrollRecursionContexts, AddChild, SameReports, Mended, Ordered, Mending
<1>6. Mended(p) => SameReports(p, Leave(p))
  BY <1>4, <1>5, Zenon DEF Leave
<1> QED BY <1>1, <1>2, <1>3, <1>6, AdvancesSame, Zenon

(* A prediction consumes nothing. *)
LEMMA PredictedAdvances ==
  ASSUME IsInput(input), NEW p
  PROVE  Advances(p, Predicted(p))
<1>1. \A alt : Advances(p, [p EXCEPT !.alt = alt])
  <2> TAKE alt
  <2> DEFINE q == [p EXCEPT !.alt = alt]
  <2>1. Mended(p) => SameReports(p, q)
    BY DEF SameReports, Mended, Ordered, Mending
  <2> HIDE DEF q
  <2> QED BY <2>1, AdvancesSame, Zenon DEF q
<1> QED BY <1>1, ThrowAdvances, Zenon DEF Predicted

(* A new parser has reported nothing. *)
LEMMA FreshIsMended ==
  ASSUME IsInput(input)
  PROVE  Mended(Fresh)
<1>1. /\ Mending \subseteq DOMAIN Fresh /\ Fresh.index = 0
      /\ Fresh.reports = <<>>
  BY DEF Fresh, Mending
<1> QED BY <1>1, InputFacts DEF Mended, Ordered, AllBehind

IsMended == IsInput(input) /\ Mended(parser)

(* The invariant holds at first. *)
LEMMA InitMended == Init => IsMended
<1> SUFFICES ASSUME Init PROVE IsMended
  OBVIOUS
<1>1. IsInput(input)
  BY GrammarsAssumption DEF Init, GrammarsAssumption, IsInput
<1> QED BY <1>1, FreshIsMended DEF Init, IsMended

(* Every visit advances. *)
LEMMA VisitAdvances ==
  ASSUME IsInput(input), Visit
  PROVE  Advances(parser, parser')
<1>1. CASE VisitDecisionState
  <2>1. PICK synced \in {Sync(parser)} :
          parser' = IF synced.thrown # "nothing" THEN synced ELSE Predicted(synced)
    BY <1>1, Zenon DEF VisitDecisionState
  <2>2. Advances(parser, synced)
    BY <2>1, SyncAdvances, Zenon
  <2>3. Advances(parser, Predicted(synced))
    BY <2>2, PredictedAdvances, AdvancesTwice, Zenon
  <2> QED BY <2>1, <2>2, <2>3, Zenon
<1>2. ASSUME NEW p, NEW s, Advances(parser, p)
      PROVE  Advances(parser, GoTo(p, s))
  BY <1>2, GoToAdvances, AdvancesTwice, Zenon
<1>3. CASE VisitAtom
  BY <1>2, <1>3, MatchAdvances, Zenon DEF VisitAtom
<1>4. CASE VisitSet
  <2>1. PICK p \in {IF LA(parser, 1) \in Transition.label THEN parser ELSE RecoverInline(parser)} :
          parser' = GoTo(IF p.thrown # "nothing" THEN p ELSE MatchWildcard(p), Transition.target)
    BY <1>4, Zenon DEF VisitSet
  <2>2. Advances(parser, p)
    BY <2>1, RecoverInlineAdvances, AdvancesNot, Zenon
  <2>3. Advances(parser, MatchWildcard(p))
    BY <2>2, MatchAdvances, AdvancesTwice, Zenon
  <2> QED BY <1>2, <2>1, <2>2, <2>3, Zenon
<1>5. CASE VisitWildcard
  BY <1>2, <1>5, MatchAdvances, Zenon DEF VisitWildcard
<1>6. CASE VisitRule
  BY <1>2, <1>6, RulesAdvance, Zenon DEF VisitRule
<1>7. CASE VisitPredicate
  BY <1>2, <1>7, ThrowAdvances, AdvancesNot, Zenon DEF VisitPredicate
<1>8. CASE VisitPrecedence
  BY <1>2, <1>8, ThrowAdvances, AdvancesNot, Zenon DEF VisitPrecedence
<1>9. CASE VisitAction
  BY <1>2, <1>9, AdvancesNot, Zenon DEF VisitAction
<1>10. CASE VisitEpsilon
  BY <1>2, <1>10, RulesAdvance, AdvancesNot, Zenon DEF VisitEpsilon
<1>11. ASSUME NEW v PROVE /\ Advances(parser, [Leave(parser) EXCEPT !.state = v])
                          /\ Advances(parser, [Leave(parser) EXCEPT !.result = v])
  <2> DEFINE left == Leave(parser)
             q == [left EXCEPT !.state = v]
             r == [left EXCEPT !.result = v]
  <2>1. Advances(parser, left)
    BY RulesAdvance, Zenon
  <2> HIDE DEF left
  <2>2. Mended(left) => SameReports(left, q) /\ SameReports(left, r)
    BY DEF SameReports, Mended, Ordered, Mending
  <2> HIDE DEF q, r
  <2>3. Advances(parser, q) /\ Advances(parser, r)
    BY <2>1, <2>2, AdvancesSame, AdvancesTwice, Zenon
  <2> QED BY <2>3 DEF q, r, left
<1>12. CASE VisitRuleStopState
  BY <1>11, <1>12, Zenon DEF VisitRuleStopState
<1>13. CASE Return
  BY <1>11, <1>13, Zenon DEF Return
<1>14. CASE HandleException
  BY <1>14, HandledAdvances, Zenon DEF HandleException
<1> QED BY <1>1, <1>3, <1>4, <1>5, <1>6, <1>7, <1>8, <1>9, <1>10, <1>12, <1>13, <1>14 DEF Visit

(* Every step keeps the invariant. *)
LEMMA NextMended == IsMended /\ [Next]_vars => IsMended'
<1> SUFFICES ASSUME IsMended, [Next]_vars PROVE IsMended'
  OBVIOUS
<1>1. CASE Visit /\ UNCHANGED <<g, input, handlers, ended>>
  <2>1. Mended(parser')
    BY <1>1, VisitAdvances DEF IsMended, Advances
  <2> QED BY <1>1, <2>1 DEF IsMended, IsInput, Mended, Ordered, AllBehind, Behind
<1>2. CASE ParseAgain
  <2>1. PICK h : parser' = Reset(parser, h)
    BY <1>2, Zenon DEF ParseAgain
  <2>2. SameReports(Fresh, parser')
    BY <2>1 DEF Reset, SameReports, Fresh
  <2>3. Mended(parser')
    BY <2>2, FreshIsMended, SameReportsMended DEF IsMended
  <2> QED BY <1>2, <2>3 DEF IsMended, ParseAgain, IsInput, Mended, Ordered, AllBehind, Behind
<1>3. CASE UNCHANGED vars
  BY <1>3 DEF vars, IsMended, IsInput, Mended, Ordered, AllBehind, Behind
<1> QED BY <1>1, <1>2, <1>3 DEF Next

(* Between two errors that are reported the parser gets ahead, or is at   *)
(* EOF: for every grammar, input, error strategy and number of parses.    *)
(* Asked of DefaultErrorStrategy.beginErrorCondition, endErrorCondition   *)
(* and of every way to recover.                                           *)
THEOREM ReportsAlwaysAdvance == Spec => []ReportsAdvance
<1>1. IsMended => ReportsAdvance
  <2> SUFFICES ASSUME IsMended PROVE ReportsAdvance
    OBVIOUS
  <2>1. DOMAIN parser.reports = 1 .. Len(parser.reports)
    BY DEF IsMended, Mended, Ordered
  <2> QED BY <2>1 DEF IsMended, Mended, Ordered, ReportsAdvance
<1> QED BY <1>1, InitMended, NextMended, PTL DEF Spec

-----------------------------------------------------------------------------
(* Types. *)

Maybe(S) == S \cup {NoState}

Children(n) ==
  [kind : {"rule"}, at : 1 .. n] \cup [kind : {"terminal"}, at : 0 .. Len(input)]
    \cup [kind : {"error"}, at : Places]

Contexts(n) ==
  [rule : DOMAIN g.start, parent : 0 .. n, invoking : Maybe(States),
   start : Places, stop : Places, children : Seq(Children(n))]

IsTree(tree) == Len(tree) \in Nat /\ tree \in Seq(Contexts(Len(tree)))

FieldNames ==
  {"index", "state", "alt", "tree", "root", "ctx", "result", "matchedEOF",
   "precedenceStack", "parentContextStack", "handler", "errorRecoveryMode",
   "lastErrorIndex", "lastErrorStates", "nextTokensContext", "nextTokensState",
   "thrown", "offendingState", "offendingContext", "reports"}

(* The exception on its way, and the alternative to take. *)
ThrownTyped(p) ==
  IF p.thrown = "nothing"
  THEN p.offendingState = NoState /\ p.offendingContext = NoContext
  ELSE /\ p.result = NoContext
       /\ IF p.thrown = "cancelled" THEN Bails(p)
          ELSE p.offendingState \in States /\ p.offendingContext \in 1 .. Len(p.tree)

AltTyped(p) ==
  p.alt \in 0 .. (IF p.result = NoContext /\ p.thrown # "cancelled"
                  THEN Len(g.out[p.state]) ELSE 0)

Shaped(p) ==
  /\ FieldNames \subseteq DOMAIN p
  /\ IsTree(p.tree)
  /\ p.index \in 0 .. Len(input) /\ p.lastErrorIndex \in Places
  /\ p.state \in Maybe(States)
  /\ p.root \in 1 .. Len(p.tree) /\ p.ctx \in 0 .. Len(p.tree) /\ p.result \in 0 .. Len(p.tree)
  /\ p.precedenceStack \in Seq(Nat)
  /\ p.parentContextStack \in Seq([ctx : Nat, state : Maybe(States)])
  /\ p.nextTokensContext \in 0 .. Len(p.tree)
  /\ p.nextTokensContext # NoContext => p.nextTokensState \in States
  /\ ThrownTyped(p)

Typed(p) == Shaped(p) /\ AltTyped(p)

UnderWay(p) == p.ctx # NoContext /\ p.state \in States /\ p.result = NoContext

(* The contexts and stacks are the same but for what tokens they have. *)
SameNodes(p, q) ==
  /\ Len(q.tree) = Len(p.tree)
  /\ \A c \in 1 .. Len(p.tree) :
       /\ q.tree[c].rule = p.tree[c].rule /\ q.tree[c].parent = p.tree[c].parent
       /\ q.tree[c].invoking = p.tree[c].invoking
SameCalls(p, q) ==
  /\ SameNodes(p, q)
  /\ q.root = p.root /\ q.ctx = p.ctx /\ q.result = p.result /\ q.handler = p.handler
  /\ q.precedenceStack = p.precedenceStack /\ q.parentContextStack = p.parentContextStack

Keeps(p, q) ==
  Typed(p) /\ UnderWay(p) =>
    Typed(q) /\ UnderWay(q) /\ SameCalls(p, q) /\ q.state = p.state

IsSetUp == g \in Grammars /\ IsInput(input)

(* What proofs need of the grammar and the input. *)
LEMMA SetUpFacts ==
  ASSUME IsSetUp
  PROVE  /\ States \subseteq Nat /\ NoState \notin States
         /\ \A s \in States : Len(g.out[s]) \in Nat
         /\ Len(input) \in Nat
BY GrammarFacts, InputFacts DEF IsSetUp, IsATN, States

(* Keeps is transitive. *)
LEMMA KeepsTwice ==
  ASSUME NEW p, NEW q, NEW r, Keeps(p, q), Keeps(q, r)
  PROVE  Keeps(p, r)
BY DEF Keeps, SameCalls, SameNodes

(* Doing nothing keeps the calls. *)
LEMMA KeepsSame ==
  ASSUME NEW p
  PROVE  Keeps(p, p)
BY DEF Keeps, SameCalls, SameNodes

-----------------------------------------------------------------------------
(* Children are added. *)

(* q is p but for the tokens it has, and as well typed. *)
Alters(p, q) ==
  /\ Shaped(q) /\ SameCalls(p, q)
  /\ q.state = p.state /\ q.alt = p.alt /\ q.thrown = p.thrown

(* Children added to a context alter nothing else. *)
LEMMA ChildrenAdded ==
  ASSUME IsSetUp, NEW p, Shaped(p), NEW c \in 1 .. Len(p.tree),
         NEW more \in Seq(Children(Len(p.tree)))
  PROVE  Alters(p, [p EXCEPT !.tree[c].children = @ \o more])
<1> DEFINE n    == Len(p.tree)
           all  == p.tree[c].children \o more
           node == [p.tree[c] EXCEPT !.children = all]
           tree == [p.tree EXCEPT ![c] = node]
           q    == [p EXCEPT !.tree[c].children = @ \o more]
<1>1. p.tree \in Seq(Contexts(n)) /\ p.tree[c] \in Contexts(n) /\ n \in Nat
  BY DEF Shaped, IsTree
<1>2. node \in Contexts(n)
  <2>1. all \in Seq(Children(n))
    BY <1>1 DEF Contexts
  <2> HIDE DEF all
  <2> QED BY <1>1, <2>1 DEF Contexts
<1>3. /\ tree \in Seq(Contexts(n)) /\ Len(tree) = n
      /\ \A d \in 1 .. n : tree[d] = IF d = c THEN node ELSE p.tree[d]
  <2> HIDE DEF node
  <2> QED BY <1>1, <1>2
<1>4. q = [p EXCEPT !.tree = tree]
  BY DEF Shaped, FieldNames
<1>5. /\ node.rule = p.tree[c].rule /\ node.parent = p.tree[c].parent
      /\ node.invoking = p.tree[c].invoking
  BY <1>1 DEF Contexts
<1> HIDE DEF node, tree, q
<1>6. q.tree = tree /\ DOMAIN q = DOMAIN p /\ IsTree(q.tree)
  BY <1>1, <1>3, <1>4 DEF Shaped, FieldNames, IsTree
<1>7. SameNodes(p, q)
  BY <1>3, <1>5, <1>6 DEF SameNodes
<1>8. \A f \in FieldNames \ {"tree"} : q[f] = p[f]
  BY <1>4 DEF Shaped
<1>9. Alters(p, q)
  BY <1>1, <1>3, <1>6, <1>7, <1>8 DEF Alters, Shaped, ThrownTyped, SameCalls, Bails, FieldNames
<1> QED BY <1>9 DEF q

(* So does one child. *)
LEMMA ChildAdded ==
  ASSUME IsSetUp, NEW p, Shaped(p), NEW c \in 1 .. Len(p.tree), NEW kind, NEW at,
         [kind |-> kind, at |-> at] \in Children(Len(p.tree))
  PROVE  Alters(p, AddChild(p, c, kind, at))
<1> DEFINE r    == [kind |-> kind, at |-> at]
           q    == AddChild(p, c, kind, at)
<1>1. p.tree[c].children \in Seq(Children(Len(p.tree)))
  <2>1. p.tree[c] \in Contexts(Len(p.tree))
    BY DEF Shaped, IsTree
  <2> QED BY <2>1 DEF Contexts
<1>2. <<r>> \in Seq(Children(Len(p.tree)))
  <2> HIDE DEF r
  <2> QED BY DEF r
<1>3. Append(p.tree[c].children, r) = p.tree[c].children \o <<r>>
  <2> HIDE DEF r
  <2> QED BY <1>1, <1>2, SMTT(60)
<1>4. q = [p EXCEPT !.tree[c].children = @ \o <<r>>]
  <2>1. q = [p EXCEPT !.tree[c].children = Append(p.tree[c].children, r)]
    BY Zenon DEF AddChild
  <2> QED BY <1>3, <2>1, Zenon
<1>5. Alters(p, [p EXCEPT !.tree[c].children = @ \o <<r>>])
  <2> HIDE DEF r
  <2> QED BY <1>2, ChildrenAdded, Zenon
<1> HIDE DEF r
<1> QED BY <1>4, <1>5, Zenon

(* AddChild, to the current context. *)
LEMMA AddChildKeeps ==
  ASSUME IsSetUp, NEW p, NEW kind, NEW at,
         Typed(p) => [kind |-> kind, at |-> at] \in Children(Len(p.tree))
  PROVE  Keeps(p, AddChild(p, p.ctx, kind, at))
<1> SUFFICES ASSUME Typed(p), UnderWay(p)
             PROVE  LET q == AddChild(p, p.ctx, kind, at)
                    IN Typed(q) /\ UnderWay(q) /\ SameCalls(p, q) /\ q.state = p.state
  BY Zenon DEF Keeps
<1>1. p.ctx \in 1 .. Len(p.tree)
  BY DEF Typed, Shaped, IsTree, UnderWay, NoContext
<1> DEFINE q == AddChild(p, p.ctx, kind, at)
<1>2. Alters(p, q)
  BY <1>1, ChildAdded, Zenon DEF Typed
<1> HIDE DEF q
<1>3. Typed(q) /\ UnderWay(q) /\ SameCalls(p, q) /\ q.state = p.state
  BY <1>2 DEF Alters, Typed, AltTyped, UnderWay, SameCalls
<1> QED BY <1>3 DEF q

(* The cursor is no part of the calls. *)
LEMMA IndexKeeps ==
  ASSUME NEW p, NEW i, Typed(p) => i \in 0 .. Len(input)
  PROVE  Keeps(p, [p EXCEPT !.index = i])
BY DEF Keeps, Typed, Shaped, UnderWay, SameCalls, SameNodes, ThrownTyped, AltTyped, Bails,
       FieldNames

(* Consume: a child, and the cursor, which stays at EOF. *)
LEMMA ConsumeKeeps ==
  ASSUME IsSetUp, NEW p
  PROVE  Keeps(p, Consume(p))
<1> DEFINE q == AddChild(p, p.ctx, LeafKind(p), p.index)
           i == IF LA(p, 1) = EOF THEN q.index ELSE q.index + 1
<1>1. Typed(p) => [kind |-> LeafKind(p), at |-> p.index] \in Children(Len(p.tree))
  BY SetUpFacts DEF Typed, Shaped, Children, LeafKind, Places
<1>2. Keeps(p, q)
  BY <1>1, AddChildKeeps, Zenon
<1>3. Typed(p) => q.index = p.index /\ (LA(p, 1) = EOF <=> p.index = Len(input))
  BY SetUpFacts, InputFacts DEF Typed, Shaped, FieldNames, AddChild, LA, IsSetUp
<1>4. Consume(p) = [q EXCEPT !.index = i]
  BY Zenon DEF Consume
<1> HIDE DEF q
<1>5. Typed(p) => i \in 0 .. Len(input)
  BY <1>3, SetUpFacts, SMTT(60) DEF Typed, Shaped
<1> HIDE DEF i
<1>6. Typed(p) => Keeps(q, [q EXCEPT !.index = i])
  BY <1>5, IndexKeeps, Zenon
<1>7. Typed(p) => Keeps(p, Consume(p))
  BY <1>2, <1>4, <1>6, KeepsTwice, Zenon
<1> QED BY <1>7 DEF Keeps

(* ConsumeUntil: the cursor never leaves the input. *)
LEMMA ConsumeUntilKeeps ==
  ASSUME IsSetUp, NEW p, NEW set
  PROVE  Keeps(p, ConsumeUntil(p, set))
<1> DEFINE S     == {i \in p.index .. Len(input) : TypeOf(i) = EOF \/ TypeOf(i) \in set}
           stop  == MinimumOf(S)
           more  == [i \in 1 .. stop - p.index |-> [kind |-> LeafKind(p), at |-> p.index + i - 1]]
           q     == [p EXCEPT !.tree[p.ctx].children = @ \o more]
<1> SUFFICES ASSUME Typed(p), UnderWay(p) PROVE Keeps(p, ConsumeUntil(p, set))
  BY DEF Keeps
<1>1. S \in SUBSET Nat /\ Len(input) \in S
  BY SetUpFacts, InputFacts DEF Typed, Shaped, IsSetUp
<1>2. stop \in p.index .. Len(input)
  <2> HIDE DEF S
  <2>1. stop \in S
    BY <1>1, MinimumIsLeast
  <2> QED BY <2>1 DEF S
<1> HIDE DEF stop
<1>3. more \in Seq(Children(Len(p.tree)))
  <2>1. \A i \in 1 .. stop - p.index :
          [kind |-> LeafKind(p), at |-> p.index + i - 1] \in Children(Len(p.tree))
    BY <1>2, SetUpFacts DEF Typed, Shaped, Children, LeafKind, Places
  <2>2. stop - p.index \in Nat
    BY <1>2, SetUpFacts DEF Typed, Shaped
  <2> QED BY <2>1, <2>2
<1>4. ConsumeUntil(p, set) = [q EXCEPT !.index = stop]
  <2> HIDE DEF S, more
  <2>1. ConsumeUntil(p, set) = [p EXCEPT !.index = stop, !.tree[p.ctx].children = @ \o more]
    BY Zenon DEF ConsumeUntil, stop, S, more
  <2> QED BY <2>1 DEF Typed, Shaped, FieldNames
<1>5. p.ctx \in 1 .. Len(p.tree)
  BY DEF Typed, Shaped, IsTree, UnderWay, NoContext
<1>6. Alters(p, q)
  <2> HIDE DEF more
  <2> QED BY <1>3, <1>5, ChildrenAdded, Zenon DEF Typed
<1> HIDE DEF q
<1>7. Keeps(p, q)
  BY <1>6 DEF Alters, Keeps, Typed, AltTyped, UnderWay, SameCalls
<1>8. Keeps(q, [q EXCEPT !.index = stop])
  <2>1. stop \in 0 .. Len(input)
    BY <1>2, SetUpFacts DEF Typed, Shaped
  <2> QED BY <2>1, IndexKeeps, Zenon
<1> QED BY <1>4, <1>7, <1>8, KeepsTwice, Zenon

(* ReportMatch. *)
LEMMA ReportMatchKeeps ==
  ASSUME NEW p
  PROVE  Keeps(p, ReportMatch(p))
<1>1. -1 \in Places
  BY DEF Places, Undefined
<1> QED BY <1>1 DEF ReportMatch, Keeps, Typed, Shaped, UnderWay, SameCalls, SameNodes,
                    ThrownTyped, AltTyped,
       Bails, FieldNames

(* Report. *)
LEMMA ReportKeeps ==
  ASSUME NEW p, NEW message, NEW expected
  PROVE  Keeps(p, Report(p, message, expected))
<1> DEFINE more == Append(p.reports, [message |-> message, at |-> p.index, expected |-> expected])
           q == [p EXCEPT !.errorRecoveryMode = TRUE, !.reports = more]
<1>1. Keeps(p, q)
  <2> HIDE DEF more
  <2> QED BY DEF Keeps, Typed, Shaped, UnderWay, SameCalls, SameNodes, ThrownTyped,
                 AltTyped, Bails, FieldNames
<1>2. Report(p, message, expected) = IF p.errorRecoveryMode THEN p ELSE q
  BY Zenon DEF Report
<1> HIDE DEF q
<1> QED BY <1>1, <1>2, KeepsSame, Zenon

(* An exception is thrown at a state and in a context that exist. *)
LEMMA ThrowKeeps ==
  ASSUME NEW p, NEW e, NEW s, NEW c, e # "nothing", e # "cancelled",
         Typed(p) /\ UnderWay(p) => s \in States /\ c \in 1 .. Len(p.tree)
  PROVE  Keeps(p, Throw(p, e, s, c))
BY DEF Throw, Keeps, Typed, Shaped, UnderWay, SameCalls, SameNodes, ThrownTyped, AltTyped, Bails,
       FieldNames

(* BailErrorStrategy cancels the parse. *)
LEMMA CancelKeeps ==
  ASSUME NEW p, Bails(p)
  PROVE  Keeps(p, Cancel(p))
BY DEF Cancel, Keeps, Typed, Shaped, UnderWay, SameCalls, SameNodes, ThrownTyped, AltTyped, Bails,
       FieldNames

(* singleTokenDeletion. *)
LEMMA DeletionKeeps ==
  ASSUME IsSetUp, NEW p
  PROVE  Keeps(p, SingleTokenDeletion(p))
<1> DEFINE r == Report(p, "extraneous input", Expected(p))
<1>1. Keeps(p, r)
  BY ReportKeeps, Zenon
<1> HIDE DEF r
<1>2. Keeps(p, ReportMatch(Consume(r)))
  BY <1>1, ConsumeKeeps, ReportMatchKeeps, KeepsTwice, Zenon
<1> QED BY <1>2, Zenon DEF SingleTokenDeletion, r

(* recoverInline, whatever it does. *)
LEMMA RecoverInlineKeeps ==
  ASSUME IsSetUp, NEW p
  PROVE  Keeps(p, RecoverInline(p))
<1> DEFINE e == "mismatched input"
<1>1. Keeps(p, Consume(SingleTokenDeletion(p)))
  BY DeletionKeeps, ConsumeKeeps, KeepsTwice, Zenon
<1>2. Keeps(p, Report(p, "missing", Expected(p)))
  BY ReportKeeps, Zenon
<1>3. Bails(p) => Keeps(p, Cancel(p))
  BY CancelKeeps
<1>4. e # "nothing" /\ e # "cancelled"
  OBVIOUS
<1>5. Keeps(p, Throw(p, e, p.state, p.ctx))
  <2>1. Typed(p) /\ UnderWay(p) => p.state \in States /\ p.ctx \in 1 .. Len(p.tree)
    BY DEF Typed, Shaped, IsTree, UnderWay, NoContext
  <2> HIDE DEF e
  <2> QED BY <1>4, <2>1, ThrowKeeps, Zenon
<1>6. p.nextTokensContext # NoContext =>
        Keeps(p, Throw(p, e, p.nextTokensState, p.nextTokensContext))
  <2> SUFFICES ASSUME p.nextTokensContext # NoContext
               PROVE  Keeps(p, Throw(p, e, p.nextTokensState, p.nextTokensContext))
    OBVIOUS
  <2>1. Typed(p) => p.nextTokensState \in States /\ p.nextTokensContext \in 1 .. Len(p.tree)
    BY DEF Typed, Shaped, IsTree, NoContext
  <2> HIDE DEF e
  <2> QED BY <1>4, <2>1, ThrowKeeps, Zenon
<1> QED BY <1>1, <1>2, <1>3, <1>5, <1>6, Zenon DEF RecoverInline

(* A match, or what is made of a mismatch. *)
LEMMA MatchIfKeeps ==
  ASSUME IsSetUp, NEW p, NEW accepted
  PROVE  Keeps(p, MatchIf(p, accepted))
<1>1. Keeps(p, Consume(ReportMatch(p)))
  BY ReportMatchKeeps, ConsumeKeeps, KeepsTwice, Zenon
<1> DEFINE r == RecoverInline(p)
<1>2. Keeps(p, r)
  BY RecoverInlineKeeps, Zenon
<1>3. Keeps(p, AddChild(r, p.ctx, "error", Conjured))
  <2> SUFFICES ASSUME Typed(p), UnderWay(p)
               PROVE  Keeps(p, AddChild(r, p.ctx, "error", Conjured))
    BY DEF Keeps
  <2>1. r.ctx = p.ctx
    BY <1>2 DEF Keeps, SameCalls
  <2>2. [kind |-> "error", at |-> Conjured] \in Children(Len(r.tree))
    BY DEF Children, Conjured, Places, Undefined
  <2> HIDE DEF r
  <2>3. Keeps(r, AddChild(r, r.ctx, "error", Conjured))
    BY <2>2, AddChildKeeps, Zenon
  <2> QED BY <1>2, <2>1, <2>3, KeepsTwice, Zenon
<1> QED BY <1>1, <1>2, <1>3, Zenon DEF MatchIf

(* match and matchWildcard. *)
LEMMA MatchKeeps ==
  ASSUME IsSetUp, NEW p, NEW ttype
  PROVE  Keeps(p, Match(p, ttype)) /\ Keeps(p, MatchWildcard(p))
<1> DEFINE v == p.matchedEOF \/ (ttype = EOF /\ LA(p, 1) = EOF)
           q == [p EXCEPT !.matchedEOF = v]
<1>1. Keeps(p, q)
  <2> HIDE DEF v
  <2> QED BY DEF Keeps, Typed, Shaped, UnderWay, SameCalls, SameNodes, ThrownTyped, AltTyped, Bails,
                 FieldNames
<1> HIDE DEF q
<1>2. Keeps(q, MatchIf(q, LA(p, 1) = ttype))
  BY MatchIfKeeps, Zenon
<1>3. Match(p, ttype) = MatchIf(q, LA(p, 1) = ttype)
  BY Zenon DEF Match, q
<1>4. Keeps(p, Match(p, ttype))
  BY <1>1, <1>2, <1>3, KeepsTwice, Zenon
<1>5. Keeps(p, MatchWildcard(p))
  BY MatchIfKeeps, Zenon DEF MatchWildcard
<1> QED BY <1>4, <1>5

(* sync, and the context it keeps for a later exception. *)
LEMMA SyncKeeps ==
  ASSUME IsSetUp, NEW p
  PROVE  Keeps(p, Sync(p))
<1> SUFFICES ASSUME Typed(p), UnderWay(p) PROVE Keeps(p, Sync(p))
  BY DEF Keeps
<1> DEFINE set == Expected(p) \cup ErrorRecoverySet(p)
           r   == Report(p, "extraneous input", Expected(p))
           c   == ConsumeUntil(r, set)
           e   == "mismatched input"
           Tracked(a, b) == [p EXCEPT !.nextTokensContext = a, !.nextTokensState = b]
<1>1. p.state \in States /\ p.ctx \in 1 .. Len(p.tree) /\ Len(p.tree) \in Nat
  BY DEF Typed, Shaped, IsTree, UnderWay, NoContext
<1>2. ASSUME NEW a, NEW b, a \in 0 .. Len(p.tree), a # NoContext => b \in States
      PROVE  Keeps(p, Tracked(a, b))
  BY <1>2 DEF Keeps, Typed, Shaped, UnderWay, SameCalls, SameNodes, ThrownTyped, AltTyped, Bails,
              FieldNames
<1>3. Keeps(p, Tracked(NoContext, NoState)) /\ Keeps(p, Tracked(p.ctx, p.state))
  <2>1. NoContext \in 0 .. Len(p.tree) /\ p.ctx \in 0 .. Len(p.tree)
    BY <1>1 DEF NoContext
  <2> HIDE DEF Tracked
  <2> QED BY <1>1, <1>2, <2>1, Zenon
<1>4. Keeps(p, c)
  <2>1. Keeps(p, r)
    BY ReportKeeps, Zenon
  <2> HIDE DEF r, set
  <2>2. Keeps(r, c)
    BY ConsumeUntilKeeps, Zenon
  <2> QED BY <2>1, <2>2, KeepsTwice, Zenon
<1>5. Keeps(p, Throw(p, e, p.state, p.ctx))
  <2>1. e # "nothing" /\ e # "cancelled"
    OBVIOUS
  <2> HIDE DEF e
  <2> QED BY <1>1, <2>1, ThrowKeeps, Zenon
<1>6. Keeps(p, SingleTokenDeletion(p)) /\ Keeps(p, p)
  BY DeletionKeeps, KeepsSame, Zenon
<1>7. Sync(p) \in {p, SingleTokenDeletion(p), Throw(p, e, p.state, p.ctx), c,
                   Tracked(NoContext, NoState), Tracked(p.ctx, p.state)}
  BY Zenon DEF Sync
<1> HIDE DEF c, Tracked, e
<1> QED BY <1>3, <1>4, <1>5, <1>6, <1>7, Zenon

(* The exception has been handled. *)
LEMMA NothingThrownKeeps ==
  ASSUME IsSetUp, NEW p
  PROVE  Keeps(p, [p EXCEPT !.thrown = "nothing", !.offendingState = NoState,
                            !.offendingContext = NoContext])
<1> DEFINE q == [p EXCEPT !.thrown = "nothing", !.offendingState = NoState,
                          !.offendingContext = NoContext]
<1> SUFFICES ASSUME Typed(p), UnderWay(p) PROVE Keeps(p, q)
  BY DEF Keeps
<1>1. /\ DOMAIN q = DOMAIN p /\ q.thrown = "nothing"
      /\ q.offendingState = NoState /\ q.offendingContext = NoContext
      /\ \A f \in FieldNames \ {"thrown", "offendingState", "offendingContext"} : q[f] = p[f]
  BY DEF Typed, Shaped, FieldNames
<1> HIDE DEF q
<1>2. Len(g.out[p.state]) \in Nat
  BY SetUpFacts DEF UnderWay
<1>3. q.alt = p.alt /\ q.state = p.state /\ q.result = p.result
  BY <1>1 DEF FieldNames
<1>4. AltTyped(q)
  <2>1. p.alt \in 0 .. Len(g.out[p.state])
    <3>1. 0 \in 0 .. Len(g.out[p.state])
      BY <1>2
    <3> QED BY <3>1 DEF Typed, Shaped, UnderWay, AltTyped
  <2> QED BY <1>1, <1>3, <2>1 DEF UnderWay, AltTyped
<1>5. ThrownTyped(q)
  BY <1>1 DEF ThrownTyped
<1> QED BY <1>1, <1>4, <1>5 DEF Keeps, Typed, Shaped, UnderWay, SameCalls, SameNodes, FieldNames

(* In another state nothing else changes. *)
LEMMA StateFacts ==
  ASSUME IsSetUp, NEW p, Typed(p), UnderWay(p), NEW s \in States
  PROVE  LET q == [p EXCEPT !.state = s, !.alt = 0]
         IN /\ Typed(q) /\ UnderWay(q) /\ SameCalls(p, q) /\ q.state = s
            /\ \A f \in FieldNames \ {"state", "alt"} : q[f] = p[f]
<1> DEFINE q == [p EXCEPT !.state = s, !.alt = 0]
<1>1. 0 \in 0 .. Len(g.out[s]) /\ 0 \in 0 .. 0
  BY SetUpFacts
<1>2. /\ DOMAIN q = DOMAIN p /\ q.state = s /\ q.alt = 0
      /\ \A f \in FieldNames \ {"state", "alt"} : q[f] = p[f]
  BY DEF Typed, Shaped, FieldNames
<1> HIDE DEF q
<1>3. AltTyped(q)
  BY <1>1, <1>2 DEF AltTyped
<1>4. ThrownTyped(q)
  BY <1>2 DEF Typed, Shaped, ThrownTyped, Bails, FieldNames
<1>5. Typed(q) /\ UnderWay(q) /\ SameCalls(p, q)
  BY <1>2, <1>3, <1>4 DEF Typed, Shaped, UnderWay, SameCalls, SameNodes, FieldNames, Maybe
<1> QED BY <1>2, <1>5 DEF q

(* Recovering: the state is the end of the rule. *)
LEMMA HandledKeeps ==
  ASSUME IsSetUp, NEW p, Typed(p), UnderWay(p), p.thrown # "cancelled"
  PROVE  /\ Typed(Handled(p)) /\ UnderWay(Handled(p)) /\ SameCalls(p, Handled(p))
         /\ Handled(p).state = g.stop[g.rule[p.state]]
<1> DEFINE expected  == IF p.thrown = "mismatched input"
                        THEN ExpectedTokens(p, p.offendingState, p.offendingContext) ELSE {}
           stop      == g.stop[g.rule[p.state]]
           atStop    == [p EXCEPT !.state = stop, !.alt = 0]
           reported  == Report(atStop, p.thrown, expected)
           failsafe  == IF reported.lastErrorIndex = reported.index
                           /\ reported.state \in reported.lastErrorStates
                        THEN Consume(reported) ELSE reported
           marked    == [failsafe EXCEPT !.lastErrorIndex = failsafe.index,
                                         !.lastErrorStates = @ \cup {reported.state}]
           recovered == ConsumeUntil(marked, ErrorRecoverySet(marked))
           handled   == [recovered EXCEPT !.thrown = "nothing", !.offendingState = NoState,
                                          !.offendingContext = NoContext]
           mended    == AddChild(handled, p.ctx, "error", Conjured)
<1>1. stop \in States
  BY GrammarFacts DEF IsSetUp, IsATN, UnderWay, States
<1>2. Typed(atStop) /\ UnderWay(atStop) /\ SameCalls(p, atStop) /\ atStop.state = stop
  <2> HIDE DEF stop
  <2> QED BY <1>1, StateFacts
<1>3. Keeps(atStop, reported)
  <2> HIDE DEF atStop, expected
  <2> QED BY ReportKeeps, Zenon
<1>4. Keeps(reported, failsafe)
  <2> HIDE DEF reported
  <2> QED BY ConsumeKeeps, KeepsSame, Zenon
<1>5. Keeps(failsafe, marked)
  <2> HIDE DEF failsafe, reported
  <2> QED BY SetUpFacts DEF Keeps, Typed, Shaped, UnderWay, SameCalls, SameNodes,
                            ThrownTyped, AltTyped, Bails,
                 FieldNames, Places
<1>6. Keeps(marked, recovered)
  <2> HIDE DEF marked
  <2> QED BY ConsumeUntilKeeps, Zenon
<1>7. Keeps(recovered, handled)
  <2> HIDE DEF recovered
  <2> QED BY NothingThrownKeeps
<1>8. Handled(p) = IF Bails(p) THEN Cancel(reported)
                   ELSE IF recovered.index = p.index THEN mended ELSE handled
  BY Zenon DEF Handled, Recover
<1> HIDE DEF atStop, reported, failsafe, marked, recovered, handled
<1>9. Keeps(atStop, handled)
  BY <1>3, <1>4, <1>5, <1>6, <1>7, KeepsTwice, Zenon
<1>10. Keeps(atStop, mended)
  <2>1. handled.ctx = p.ctx
    BY <1>2, <1>9 DEF Keeps, SameCalls
  <2>2. [kind |-> "error", at |-> Conjured] \in Children(Len(handled.tree))
    BY DEF Children, Conjured, Places, Undefined
  <2>3. Keeps(handled, AddChild(handled, handled.ctx, "error", Conjured))
    BY <2>2, AddChildKeeps, Zenon
  <2> QED BY <1>9, <2>1, <2>3, KeepsTwice, Zenon
<1> HIDE DEF mended
<1>11. Bails(p) => Keeps(atStop, Cancel(reported))
  <2>1. Bails(p) => Bails(reported)
    BY <1>2, <1>3 DEF Keeps, SameCalls, Bails
  <2> QED BY <1>3, <2>1, CancelKeeps, KeepsTwice, Zenon
<1>12. Keeps(atStop, Handled(p))
  BY <1>8, <1>9, <1>10, <1>11, Zenon
<1> QED BY <1>2, <1>12 DEF Keeps, SameCalls, SameNodes

-----------------------------------------------------------------------------
(* The calls: from the root, where no one called, to the current context. *)

Chain(p, calls) ==
  /\ calls \in Seq(1 .. Len(p.tree)) /\ Len(calls) <= Len(p.tree)
  /\ p.ctx = IF calls = <<>> THEN NoContext ELSE calls[Len(calls)]
  /\ \A i \in 1 .. Len(calls) :
       p.tree[calls[i]].parent = IF i = 1 THEN NoContext ELSE calls[i - 1]
  /\ \A i, j \in 1 .. Len(calls) : calls[i] = calls[j] => i = j

InCalls(p, calls, left) ==
  /\ Chain(p, calls) /\ AreCalls(p, calls, left)
  /\ Len(p.parentContextStack) >= Nested(p, calls, Len(calls))

(* The contexts up from the current one are the chain, the innermost      *)
(* first.                                                                 *)
LEMMA UpwardsAreCalls ==
  ASSUME NEW p, Len(p.tree) \in Nat, NEW calls, Chain(p, calls)
  PROVE  Upwards(p, p.ctx) = [k \in 1 .. Len(calls) |-> calls[Len(calls) + 1 - k]]
<1> DEFINE n == Len(p.tree)
           len == Len(calls)
           Step(f) == [k \in 0 .. n |->
                         IF k = 0 THEN p.ctx
                         ELSE IF f[k - 1] = NoContext THEN NoContext ELSE p.tree[f[k - 1]].parent]
           up == CHOOSE f : f = Step(f)
           W == [k \in 0 .. n |-> IF k < len THEN calls[len - k] ELSE NoContext]
           depth == Cardinality({k \in 0 .. n : up[k] # NoContext})
<1>1. /\ n \in Nat /\ len \in 0 .. n /\ p.ctx = IF len = 0 THEN NoContext ELSE calls[len]
      /\ \A i \in 1 .. len : calls[i] \in 1 .. n
      /\ \A i \in 1 .. len : p.tree[calls[i]].parent = IF i = 1 THEN NoContext ELSE calls[i - 1]
  BY DEF Chain
<1>2. Upwards(p, p.ctx) = [k \in 1 .. depth |-> up[k - 1]]
  BY DEF Upwards
<1> HIDE DEF n, len
<1>3. W = Step(W)
  <2> SUFFICES ASSUME NEW k \in 0 .. n PROVE W[k] = Step(W)[k]
    OBVIOUS
  <2>1. CASE k = 0
    BY <1>1, <2>1
  <2>2. CASE k # 0 /\ k - 1 < len
    <3>1. k - 1 \in 0 .. n /\ W[k - 1] = calls[len - (k - 1)] /\ len - (k - 1) \in 1 .. len
      BY <1>1, <2>2
    <3>2. W[k - 1] # NoContext
      BY <1>1, <3>1 DEF NoContext
    <3>3. p.tree[W[k - 1]].parent =
            IF len - (k - 1) = 1 THEN NoContext ELSE calls[len - (k - 1) - 1]
      BY <1>1, <3>1
    <3>4. len - (k - 1) = 1 <=> ~(k < len)
      BY <1>1, <2>2
    <3>5. len - (k - 1) - 1 = len - k
      BY <1>1
    <3> QED BY <2>2, <3>2, <3>3, <3>4, <3>5
  <2>3. CASE k # 0 /\ ~(k - 1 < len)
    <3>1. k - 1 \in 0 .. n /\ ~(k < len)
      BY <1>1, <2>3
    <3> QED BY <2>3, <3>1
  <2> QED BY <2>1, <2>2, <2>3
<1>4. ASSUME NEW f, f = Step(f) PROVE f = W
  <2> DEFINE bad == {k \in 0 .. n : f[k] # W[k]}
  <2>1. ASSUME bad # {} PROVE FALSE
    <3>1. bad \in SUBSET Nat
      BY <1>1
    <3>2. PICK k \in bad : \A j \in bad : k <= j
      <4> HIDE DEF bad
      <4> QED BY <2>1, <3>1, LeastElement
    <3>3. k \in 0 .. n /\ k \in Nat
      BY <1>1
    <3>4. k # 0
      BY <1>1, <1>3, <1>4, <3>2
    <3>5. f[k - 1] = W[k - 1]
      <4>1. k - 1 \in 0 .. n /\ ~(k <= k - 1)
        BY <1>1, <3>3, <3>4
      <4> QED BY <3>2, <4>1
    <3>6. f[k] = Step(f)[k] /\ W[k] = Step(W)[k]
      BY <1>3, <1>4
    <3>7. Step(f)[k] = Step(W)[k]
      BY <3>3, <3>4, <3>5
    <3> QED BY <3>2, <3>6, <3>7
  <2>2. DOMAIN f = 0 .. n /\ f = [k \in 0 .. n |-> f[k]]
    BY <1>4
  <2> QED BY <2>1, <2>2
<1>5. up = W
  <2> HIDE DEF Step, W
  <2> QED BY <1>3, <1>4
<1>6. {k \in 0 .. n : up[k] # NoContext} = 0 .. len - 1
  <2>1. \A k \in 0 .. n : W[k] # NoContext <=> k \in 0 .. len - 1
    <3> TAKE k \in 0 .. n
    <3>1. k < len => len - k \in 1 .. len
      BY <1>1
    <3>2. W[k] = IF k < len THEN calls[len - k] ELSE NoContext
      OBVIOUS
    <3> HIDE DEF W
    <3> QED BY <1>1, <3>1, <3>2 DEF NoContext
  <2>2. 0 .. len - 1 \subseteq 0 .. n
    BY <1>1
  <2> HIDE DEF W
  <2>3. {k \in 0 .. n : W[k] # NoContext} = 0 .. len - 1
    BY <2>1, <2>2
  <2> HIDE DEF up
  <2> QED BY <1>5, <2>3
<1>7. depth = len
  <2> DEFINE b == len - 1
  <2>1. b \in Int /\ 0 \in Int /\ b - 0 + 1 = len /\ (0 > b <=> len = 0)
    BY <1>1
  <2> HIDE DEF b
  <2>2. Cardinality(0 .. b) = IF 0 > b THEN 0 ELSE b - 0 + 1
    BY <2>1, FS_Interval
  <2>3. Cardinality(0 .. b) = len
    BY <2>1, <2>2
  <2> QED BY <1>6, <2>3 DEF b
<1> HIDE DEF up, W, depth
<1>8. \A k \in 1 .. len : W[k - 1] = calls[len + 1 - k]
  <2> TAKE k \in 1 .. len
  <2>1. k - 1 \in 0 .. n /\ k - 1 < len /\ len - (k - 1) = len + 1 - k
    BY <1>1
  <2> QED BY <2>1 DEF W
<1> QED BY <1>2, <1>5, <1>7, <1>8 DEF len

(* What is below the top of a stack is not touched by a pop. *)
LEMMA SubSeqOfTail ==
  ASSUME NEW S, NEW s \in Seq(S), NEW d \in 1 .. Len(s)
  PROVE  SubSeq(Tail(s), d, Len(s) - 1) = SubSeq(s, d + 1, Len(s))
<1>1. Tail(s) \in Seq(S) /\ Len(Tail(s)) = Len(s) - 1 /\ Len(s) \in Nat
      /\ \A i \in 1 .. Len(s) - 1 : Tail(s)[i] = s[i + 1]
  OBVIOUS
<1> QED BY <1>1, SMTT(60)

(* Nor by a push. *)
LEMMA SubSeqOfPush ==
  ASSUME NEW S, NEW s \in Seq(S), NEW e \in S, NEW d \in 1 .. Len(s) + 1
  PROVE  /\ <<e>> \o s \in Seq(S) /\ Len(<<e>> \o s) = Len(s) + 1
         /\ (<<e>> \o s)[1] = e
         /\ \A i \in 1 .. Len(s) : (<<e>> \o s)[i + 1] = s[i]
         /\ SubSeq(<<e>> \o s, d + 1, Len(s) + 1) = SubSeq(s, d, Len(s))
<1> DEFINE t == <<e>> \o s
<1>1. /\ t \in Seq(S) /\ Len(t) = Len(s) + 1 /\ Len(s) \in Nat /\ t[1] = e
      /\ \A i \in 1 .. Len(s) : t[i + 1] = s[i]
  OBVIOUS
<1> HIDE DEF t
<1>2. SubSeq(t, d + 1, Len(s) + 1) = SubSeq(s, d, Len(s))
  BY <1>1
<1> QED BY <1>1, <1>2 DEF t

(* How many calls are of left-recursive rules depends on their rules      *)
(* only.                                                                  *)
LEMMA NestedSame ==
  ASSUME NEW p, NEW q, NEW calls, NEW more, NEW i \in Nat,
         \A j \in 1 .. i : IsRecursive(q, more[j]) <=> IsRecursive(p, calls[j])
  PROVE  Nested(q, more, i) = Nested(p, calls, i)
<1>1. {j \in 1 .. i : IsRecursive(q, more[j])} = {j \in 1 .. i : IsRecursive(p, calls[j])}
  OBVIOUS
<1> QED BY <1>1 DEF Nested

Recursive(p, calls) == {j \in Nat : IsRecursive(p, calls[j])}

(* It is the count of a set of places. *)
LEMMA NestedIsUpTo ==
  ASSUME NEW p, NEW calls, NEW i \in Nat
  PROVE  Nested(p, calls, i) = UpTo(Recursive(p, calls), i)
<1>1. {j \in 1 .. i : IsRecursive(p, calls[j])} = {j \in 1 .. i : j \in Recursive(p, calls)}
  BY DEF Recursive
<1> QED BY <1>1 DEF Nested, UpTo

(* It grows by one at each call of a left-recursive rule. *)
LEMMA NestedCounts ==
  ASSUME NEW p, NEW calls, NEW n \in Nat
  PROVE  /\ Nested(p, calls, 0) = 0
         /\ Nested(p, calls, n) \in Nat
         /\ Nested(p, calls, n + 1) =
              Nested(p, calls, n) + IF IsRecursive(p, calls[n + 1]) THEN 1 ELSE 0
         /\ \A i \in 1 .. n :
              /\ Nested(p, calls, i) \in Nat /\ Nested(p, calls, i) <= Nested(p, calls, n)
              /\ IsRecursive(p, calls[i]) => Nested(p, calls, i) >= 1
              /\ i < n /\ IsRecursive(p, calls[n]) =>
                   Nested(p, calls, i) < Nested(p, calls, n)
<1> DEFINE R == Recursive(p, calls)
<1>1. \A i \in Nat : Nested(p, calls, i) = UpTo(R, i) /\ (i \in R <=> IsRecursive(p, calls[i]))
  BY NestedIsUpTo DEF Recursive
<1> HIDE DEF R
<1>2. UpTo(R, 0) = 0 /\ UpTo(R, n) \in Nat
      /\ UpTo(R, n + 1) = UpTo(R, n) + IF n + 1 \in R THEN 1 ELSE 0
  BY UpToNone, UpToIsNatural, UpToNext
<1>3. \A i \in 1 .. n : /\ UpTo(R, i) \in Nat /\ UpTo(R, i) <= UpTo(R, n)
                        /\ i \in R => UpTo(R, i) >= 1
                        /\ i < n /\ n \in R => UpTo(R, i) < UpTo(R, n)
  <2> TAKE i \in 1 .. n
  <2>1. i \in Nat /\ i \in 0 .. n
    OBVIOUS
  <2> QED BY <2>1, UpToIsNatural, UpToGrows
<1> QED BY <1>1, <1>2, <1>3

(* The parts of AreCalls: how a context was invoked, and its entry.        *)
WasCalled(p, c) ==
  IF p.tree[c].invoking = NoState THEN p.tree[c].parent = NoContext
  ELSE /\ p.tree[c].parent # NoContext
       /\ Len(g.out[p.tree[c].invoking]) = 1
       /\ CallAt(p.tree[c].invoking).kind = "rule"
       /\ CallAt(p.tree[c].invoking).rule = p.tree[c].rule
       /\ g.rule[p.tree[c].invoking] = p.tree[p.tree[c].parent].rule

HasEntry(p, c, entry) ==
  /\ p.precedenceStack[entry] =
       IF p.tree[c].invoking = NoState THEN 0 ELSE CallAt(p.tree[c].invoking).level
  /\ p.parentContextStack[entry] = [ctx |-> p.tree[c].parent, state |-> p.tree[c].invoking]

(* AreCalls, part by part. *)
LEMMA PartsOfCalls ==
  ASSUME NEW p, NEW calls, NEW left
  PROVE  AreCalls(p, calls, left) <=>
           LET depth == Nested(p, calls, Len(calls)) IN
           /\ \A i \in 1 .. Len(calls) : WasCalled(p, calls[i])
           /\ \A i \in 1 .. Len(calls) :
                IsRecursive(p, calls[i]) =>
                  HasEntry(p, calls[i], depth + 1 - Nested(p, calls, i))
           /\ Len(p.precedenceStack) = depth + 1 /\ p.precedenceStack[depth + 1] = 0
           /\ SubSeq(p.parentContextStack, depth + 1, Len(p.parentContextStack)) = left
BY Zenon DEF AreCalls, WasCalled, HasEntry

(* The same calls, by other contexts. *)
Alike(p, calls, q, more) ==
  /\ Len(more) = Len(calls)
  /\ \A i \in 1 .. Len(calls) :
       LET c == p.tree[calls[i]]
           d == q.tree[more[i]]
       IN /\ d.rule = c.rule /\ d.invoking = c.invoking /\ d.parent = c.parent
          /\ c.parent # NoContext => q.tree[c.parent].rule = p.tree[c.parent].rule
  /\ q.precedenceStack = p.precedenceStack
  /\ q.parentContextStack = p.parentContextStack

(* Other contexts, called alike, are as good. *)
LEMMA AlikeInCalls ==
  ASSUME NEW p, NEW calls, NEW left, InCalls(p, calls, left),
         NEW q, NEW more, Chain(q, more), Alike(p, calls, q, more)
  PROVE  InCalls(q, more, left)
<1>1. Len(calls) \in Nat
  BY DEF InCalls, Chain
<1>2. \A i \in 1 .. Len(calls) : IsRecursive(q, more[i]) <=> IsRecursive(p, calls[i])
  BY DEF IsRecursive, Alike
<1>3. \A i \in 0 .. Len(calls) : Nested(q, more, i) = Nested(p, calls, i)
  <2> TAKE i \in 0 .. Len(calls)
  <2>1. i \in Nat /\ \A j \in 1 .. i : IsRecursive(q, more[j]) <=> IsRecursive(p, calls[j])
    BY <1>1, <1>2
  <2> QED BY <2>1, NestedSame
<1>4. AreCalls(q, more, left)
  <2>1. \A i \in 1 .. Len(calls) : WasCalled(p, calls[i]) => WasCalled(q, more[i])
    BY DEF WasCalled, Alike
  <2>2. \A i \in 1 .. Len(calls) : \A entry :
          HasEntry(p, calls[i], entry) => HasEntry(q, more[i], entry)
    BY DEF HasEntry, Alike
  <2>3. Nested(q, more, Len(more)) = Nested(p, calls, Len(calls))
    BY <1>1, <1>3 DEF Alike
  <2>4. \A i \in 1 .. Len(calls) : Nested(q, more, i) = Nested(p, calls, i)
    BY <1>1, <1>3
  <2>5. AreCalls(p, calls, left)
    BY DEF InCalls
  <2> QED BY <1>2, <2>1, <2>2, <2>3, <2>4, <2>5, PartsOfCalls DEF Alike
<1> QED BY <1>1, <1>3, <1>4 DEF InCalls, Alike

(* The same contexts and stacks are the same calls. *)
LEMMA SameInCalls ==
  ASSUME NEW p, Typed(p), NEW calls, NEW left, InCalls(p, calls, left), NEW q, SameCalls(p, q)
  PROVE  InCalls(q, calls, left)
<1>1. \A i \in 1 .. Len(calls) :
        calls[i] \in 1 .. Len(p.tree) /\ p.tree[calls[i]].parent \in 0 .. Len(p.tree)
  <2>1. \A c \in 1 .. Len(p.tree) : p.tree[c] \in Contexts(Len(p.tree))
    BY DEF Typed, Shaped, IsTree
  <2>2. \A c \in 1 .. Len(p.tree) : p.tree[c].parent \in 0 .. Len(p.tree)
    BY <2>1 DEF Contexts
  <2> QED BY <2>2 DEF InCalls, Chain
<1>2. Chain(q, calls)
  BY <1>1 DEF InCalls, Chain, SameCalls, SameNodes
<1>3. Len(p.tree) \in Nat
  BY DEF Typed, Shaped, IsTree
<1>4. \A i \in 1 .. Len(calls) :
        LET c == p.tree[calls[i]]
            d == q.tree[calls[i]]
        IN /\ d.rule = c.rule /\ d.invoking = c.invoking /\ d.parent = c.parent
           /\ c.parent # NoContext => q.tree[c.parent].rule = p.tree[c.parent].rule
  BY <1>1, <1>3, SMTT(60) DEF SameCalls, SameNodes, NoContext
<1>5. Alike(p, calls, q, calls)
  BY <1>4 DEF Alike, SameCalls
<1> QED BY <1>2, <1>5, AlikeInCalls

(* What a chain says of its contexts. *)
LEMMA ChainFacts ==
  ASSUME NEW p, Typed(p), NEW calls, NEW left, InCalls(p, calls, left)
  PROVE  /\ Len(p.tree) \in Nat /\ Len(calls) \in 0 .. Len(p.tree)
         /\ calls \in Seq(1 .. Len(p.tree))
         /\ \A i \in 1 .. Len(calls) :
              /\ calls[i] \in 1 .. Len(p.tree)
              /\ p.tree[calls[i]].parent = IF i = 1 THEN NoContext ELSE calls[i - 1]
         /\ p.ctx = IF Len(calls) = 0 THEN NoContext ELSE calls[Len(calls)]
<1>1. /\ Len(p.tree) \in Nat /\ calls \in Seq(1 .. Len(p.tree)) /\ Len(calls) <= Len(p.tree)
      /\ p.ctx = IF calls = <<>> THEN NoContext ELSE calls[Len(calls)]
      /\ \A i \in 1 .. Len(calls) :
           p.tree[calls[i]].parent = IF i = 1 THEN NoContext ELSE calls[i - 1]
  BY DEF InCalls, Chain, Typed, Shaped, IsTree
<1>2. Len(calls) \in Nat /\ (calls = <<>> <=> Len(calls) = 0)
  BY <1>1
<1> QED BY <1>1, <1>2

(* A sequence with one element replaced. *)
LEMMA ReplaceFacts ==
  ASSUME NEW S, NEW T, NEW s \in Seq(S), \A i \in 1 .. Len(s) : s[i] \in T,
         NEW k \in 1 .. Len(s), NEW e \in T
  PROVE  LET t == [s EXCEPT ![k] = e] IN
         /\ t \in Seq(T) /\ Len(t) = Len(s)
         /\ \A i \in 1 .. Len(s) : t[i] = IF i = k THEN e ELSE s[i]
<1>1. s \in Seq(T)
  OBVIOUS
<1> QED BY <1>1

(* A sequence of contexts, and one more. *)
LEMMA AppendFacts ==
  ASSUME NEW n \in Nat, NEW s \in Seq(1 .. n)
  PROVE  LET t == Append(s, n + 1) IN
         /\ t \in Seq(1 .. n + 1) /\ Len(t) = Len(s) + 1 /\ t # <<>>
         /\ \A i \in 1 .. Len(s) : t[i] = s[i]
         /\ t[Len(s) + 1] = n + 1
<1> DEFINE S == 1 .. n + 1
           e == n + 1
<1>1. e \in S
  OBVIOUS
<1>2. s \in Seq(S)
  <2>1. \A i \in 1 .. Len(s) : s[i] \in S
    <3>1. \A i \in 1 .. Len(s) : s[i] \in 1 .. n
      OBVIOUS
    <3> QED BY <3>1
  <2> HIDE DEF S
  <2> QED BY <2>1
<1> HIDE DEF S, e
<1>3. LET t == Append(s, e) IN
         /\ t \in Seq(S) /\ Len(t) = Len(s) + 1 /\ t # <<>>
         /\ \A i \in 1 .. Len(s) : t[i] = s[i]
         /\ t[Len(s) + 1] = e
  BY <1>1, <1>2
<1> QED BY <1>3 DEF S, e

(* From p the rule of its state is called: q has one more context, and an  *)
(* entry if the rule is left-recursive.                                    *)
Enters(p, q) ==
  /\ Len(q.tree) = Len(p.tree) + 1 /\ q.ctx = Len(p.tree) + 1
  /\ \A c \in 1 .. Len(p.tree) :
       /\ q.tree[c].rule = p.tree[c].rule /\ q.tree[c].parent = p.tree[c].parent
       /\ q.tree[c].invoking = p.tree[c].invoking
  /\ LET c == q.tree[Len(p.tree) + 1] IN
     c.rule = CallAt(p.state).rule /\ c.parent = p.ctx /\ c.invoking = p.state

Stacks(p, q) ==
  IF CallAt(p.state).rule \in g.precedenceRules
  THEN /\ q.precedenceStack = <<CallAt(p.state).level>> \o p.precedenceStack
       /\ q.parentContextStack =
            <<[ctx |-> p.ctx, state |-> p.state]>> \o p.parentContextStack
  ELSE /\ q.precedenceStack = p.precedenceStack
       /\ q.parentContextStack = p.parentContextStack

(* A call pushes a context, and an entry if its rule is left-recursive. *)
LEMMA EnteredInCalls ==
  ASSUME NEW p, Typed(p), UnderWay(p), p.tree[p.ctx].rule = g.rule[p.state],
         NEW calls, NEW left, InCalls(p, calls, left),
         Len(g.out[p.state]) = 1, CallAt(p.state).kind = "rule", CallAt(p.state).level \in Nat,
         NoState \notin States,
         NEW q, Enters(p, q), Stacks(p, q)
  PROVE  InCalls(q, Append(calls, Len(p.tree) + 1), left)
<1> DEFINE n     == Len(p.tree)
           len   == Len(calls)
           more  == Append(calls, n + 1)
           depth == Nested(p, calls, len)
           rec   == CallAt(p.state).rule \in g.precedenceRules
<1>1. /\ n \in Nat /\ len \in 0 .. n /\ Len(more) = len + 1
      /\ \A i \in 1 .. len : calls[i] \in 1 .. n /\ more[i] = calls[i]
      /\ more[len + 1] = n + 1 /\ more \in Seq(1 .. n + 1)
  <2>1. /\ n \in Nat /\ len \in 0 .. n /\ calls \in Seq(1 .. n)
        /\ \A i \in 1 .. len : calls[i] \in 1 .. n
    BY ChainFacts
  <2> HIDE DEF n
  <2> QED BY <2>1, AppendFacts
<1>2. len \in 1 .. n /\ p.ctx = calls[len]
  <2>1. p.ctx # NoContext
    BY DEF UnderWay
  <2> QED BY <1>1, <2>1, ChainFacts
<1>3. \A i \in 1 .. len :
        p.tree[calls[i]].parent = IF i = 1 THEN NoContext ELSE calls[i - 1]
  BY ChainFacts
<1> HIDE DEF more
<1>14. \A i \in 1 .. len :
         /\ q.tree[more[i]].rule = p.tree[calls[i]].rule
         /\ q.tree[more[i]].parent = p.tree[calls[i]].parent
         /\ q.tree[more[i]].invoking = p.tree[calls[i]].invoking
  <2> TAKE i \in 1 .. len
  <2>1. calls[i] \in 1 .. n /\ more[i] = calls[i]
    BY <1>1
  <2> HIDE DEF n, len
  <2> QED BY <2>1 DEF Enters, n
<1>15. \A i \in 1 .. len : i # 1 => i - 1 \in 1 .. len
  <2>1. len \in Nat
    BY <1>1
  <2> HIDE DEF len
  <2> QED BY <2>1
<1>4. Chain(q, more)
  <2>1. \A i \in 1 .. Len(more) :
          q.tree[more[i]].parent = IF i = 1 THEN NoContext ELSE more[i - 1]
    <3> TAKE i \in 1 .. Len(more)
    <3>1. CASE i \in 1 .. len
      BY <1>1, <1>3, <1>14, <1>15, <3>1
    <3>2. CASE i = len + 1
      BY <1>1, <1>2, <3>2, SMTT(60) DEF Enters
    <3> QED BY <1>1, <3>1, <3>2
  <2>2. \A i, j \in 1 .. len : calls[i] = calls[j] => i = j
    BY DEF InCalls, Chain
  <2>3. \A i, j \in 1 .. Len(more) : more[i] = more[j] => i = j
    BY <1>1, <2>2, SMTT(60)
  <2>4. more # <<>>
    BY <1>1
  <2> QED BY <1>1, <2>1, <2>3, <2>4 DEF Chain, Enters
<1>5. /\ \A i \in 1 .. len : IsRecursive(q, more[i]) <=> IsRecursive(p, calls[i])
      /\ IsRecursive(q, more[len + 1]) <=> rec
  BY <1>1 DEF IsRecursive, Enters
<1>6. /\ \A i \in 1 .. len : Nested(q, more, i) = Nested(p, calls, i)
      /\ Nested(q, more, Len(more)) = depth + IF rec THEN 1 ELSE 0
      /\ depth \in Nat /\ \A i \in 1 .. len : Nested(p, calls, i) \in 0 .. depth
  <2>1. \A i \in 1 .. len : Nested(q, more, i) = Nested(p, calls, i)
    <3> TAKE i \in 1 .. len
    <3>1. i \in Nat /\ \A j \in 1 .. i : IsRecursive(q, more[j]) <=> IsRecursive(p, calls[j])
      BY <1>1, <1>5
    <3> QED BY <3>1, NestedSame
  <2>2. len \in Nat
    BY <1>1
  <2>3. Nested(q, more, len + 1) =
          Nested(q, more, len) + IF IsRecursive(q, more[len + 1]) THEN 1 ELSE 0
    BY <2>2, NestedCounts
  <2>4. depth \in Nat /\ \A i \in 1 .. len : Nested(p, calls, i) \in 0 .. depth
    BY <2>2, NestedCounts
  <2> QED BY <1>1, <1>2, <1>5, <2>1, <2>3, <2>4, SMTT(60)
<1>7. AreCalls(p, calls, left)
  BY DEF InCalls
<1>8. \A i \in 1 .. Len(more) : WasCalled(q, more[i])
  <2> TAKE i \in 1 .. Len(more)
  <2>1. CASE i \in 1 .. len
    <3>1. WasCalled(p, calls[i])
      BY <1>7, <2>1, PartsOfCalls
    <3>2. p.tree[calls[i]].parent # NoContext => p.tree[calls[i]].parent \in 1 .. n
      BY <1>1, <1>3, <1>15, <2>1
    <3> DEFINE c == calls[i]
               d == p.tree[c].parent
    <3>3. /\ more[i] = c /\ q.tree[c].rule = p.tree[c].rule
          /\ q.tree[c].parent = p.tree[c].parent
          /\ q.tree[c].invoking = p.tree[c].invoking
      BY <1>1, <1>14, <2>1
    <3>4. d # NoContext => q.tree[d].rule = p.tree[d].rule
      BY <3>2 DEF Enters
    <3> HIDE DEF c
    <3> QED BY <3>1, <3>3, <3>4 DEF WasCalled, c
  <2>2. CASE i = len + 1
    <3>1. more[i] = n + 1 /\ p.state # NoState /\ p.ctx # NoContext /\ p.ctx \in 1 .. n
      BY <1>1, <1>2, <2>2 DEF UnderWay
    <3>2. /\ q.tree[n + 1].rule = CallAt(p.state).rule /\ q.tree[n + 1].parent = p.ctx
          /\ q.tree[n + 1].invoking = p.state
          /\ q.tree[p.ctx].rule = p.tree[p.ctx].rule
      BY <3>1 DEF Enters
    <3> HIDE DEF n
    <3> QED BY <3>1, <3>2 DEF WasCalled
  <2> QED BY <1>1, <2>1, <2>2
<1>9. \A i \in 1 .. len : \A entry :
        HasEntry(p, calls[i], entry) =>
          /\ p.precedenceStack[entry] =
               IF q.tree[more[i]].invoking = NoState THEN 0
               ELSE CallAt(q.tree[more[i]].invoking).level
          /\ p.parentContextStack[entry] =
               [ctx |-> q.tree[more[i]].parent, state |-> q.tree[more[i]].invoking]
  BY <1>14 DEF HasEntry
<1>10. /\ \A i \in 1 .. len : IsRecursive(p, calls[i]) =>
            HasEntry(p, calls[i], depth + 1 - Nested(p, calls, i))
       /\ Len(p.precedenceStack) = depth + 1 /\ p.precedenceStack[depth + 1] = 0
       /\ SubSeq(p.parentContextStack, depth + 1, Len(p.parentContextStack)) = left
       /\ Len(p.parentContextStack) >= depth
  BY <1>7, PartsOfCalls DEF InCalls
<1>11. /\ p.precedenceStack \in Seq(Nat)
       /\ p.parentContextStack \in Seq([ctx : Nat, state : Maybe(States)])
  BY DEF Typed, Shaped
<1>16. depth \in Nat /\ Len(p.parentContextStack) \in Nat /\ Len(p.parentContextStack) >= depth
  BY <1>6, <1>10, <1>11
<1>12. CASE ~rec
  <2>1. \A i \in 1 .. Len(more) : IsRecursive(q, more[i]) =>
          i \in 1 .. len /\ HasEntry(q, more[i], depth + 1 - Nested(q, more, i))
    <3> TAKE i \in 1 .. Len(more)
    <3> SUFFICES ASSUME IsRecursive(q, more[i])
                 PROVE  i \in 1 .. len /\ HasEntry(q, more[i], depth + 1 - Nested(q, more, i))
      OBVIOUS
    <3>1. i \in 1 .. len
      BY <1>1, <1>5, <1>12
    <3>2. HasEntry(p, calls[i], depth + 1 - Nested(p, calls, i))
      BY <1>5, <1>10, <3>1
    <3> QED BY <1>6, <1>9, <1>12, <3>1, <3>2 DEF HasEntry, Stacks
  <2>2. Nested(q, more, Len(more)) = depth
    BY <1>6, <1>12
  <2>3. AreCalls(q, more, left)
    BY <1>8, <1>10, <1>12, <2>1, <2>2, PartsOfCalls DEF Stacks
  <2> QED BY <1>4, <1>10, <1>12, <2>2, <2>3 DEF InCalls, Stacks, more
<1>13. CASE rec
  <2> DEFINE e == [ctx |-> p.ctx, state |-> p.state]
             T == [ctx : Nat, state : Maybe(States)]
  <2>1. e \in T
    BY <1>1, <1>2 DEF Typed, Shaped, UnderWay, Maybe
  <2>2. q.parentContextStack = <<e>> \o p.parentContextStack
    BY <1>13 DEF Stacks
  <2>3. e.ctx = p.ctx /\ e.state = p.state
    OBVIOUS
  <2> HIDE DEF e, T
  <2>4. /\ Len(q.parentContextStack) = Len(p.parentContextStack) + 1
        /\ q.parentContextStack[1] = e
        /\ \A i \in 1 .. Len(p.parentContextStack) :
             q.parentContextStack[i + 1] = p.parentContextStack[i]
        /\ SubSeq(q.parentContextStack, depth + 2, Len(p.parentContextStack) + 1) = left
    <3>1. depth + 1 \in 1 .. Len(p.parentContextStack) + 1 /\ (depth + 1) + 1 = depth + 2
      BY <1>6, <1>10, <1>11, SMTT(60)
    <3>2. p.parentContextStack \in Seq(T)
      BY <1>11 DEF T
    <3> DEFINE s == p.parentContextStack
               d == depth + 1
    <3>3. s \in Seq(T) /\ e \in T /\ d \in 1 .. Len(s) + 1 /\ d + 1 = depth + 2
      BY <2>1, <3>1, <3>2
    <3>4. q.parentContextStack = <<e>> \o s /\ SubSeq(s, d, Len(s)) = left
      BY <1>10, <2>2
    <3> HIDE DEF s, d
    <3>5. /\ Len(<<e>> \o s) = Len(s) + 1 /\ (<<e>> \o s)[1] = e
          /\ \A i \in 1 .. Len(s) : (<<e>> \o s)[i + 1] = s[i]
          /\ SubSeq(<<e>> \o s, d + 1, Len(s) + 1) = SubSeq(s, d, Len(s))
      BY <3>3, SubSeqOfPush
    <3> QED BY <3>3, <3>4, <3>5 DEF s
  <2>5. /\ Len(q.precedenceStack) = depth + 2
        /\ q.precedenceStack[1] = CallAt(p.state).level
        /\ \A i \in 1 .. depth + 1 : q.precedenceStack[i + 1] = p.precedenceStack[i]
    <3> DEFINE s == p.precedenceStack
               v == CallAt(p.state).level
    <3>1. s \in Seq(Nat) /\ v \in Nat /\ Len(s) = depth + 1 /\ q.precedenceStack = <<v>> \o s
      BY <1>10, <1>11, <1>13 DEF Stacks
    <3>2. Len(s) + 1 \in 1 .. Len(s) + 1
      BY <1>16, <3>1
    <3> HIDE DEF s, v
    <3>3. /\ Len(<<v>> \o s) = Len(s) + 1 /\ (<<v>> \o s)[1] = v
          /\ \A i \in 1 .. Len(s) : (<<v>> \o s)[i + 1] = s[i]
      BY <3>1, <3>2, SubSeqOfPush
    <3> QED BY <1>6, <3>1, <3>3 DEF s, v
  <2>6. Nested(q, more, Len(more)) = depth + 1
    BY <1>6, <1>13
  <2>7. \A i \in 1 .. Len(more) : IsRecursive(q, more[i]) =>
          HasEntry(q, more[i], depth + 2 - Nested(q, more, i))
    <3> SUFFICES ASSUME NEW i \in 1 .. Len(more), IsRecursive(q, more[i])
                 PROVE  HasEntry(q, more[i], depth + 2 - Nested(q, more, i))
      OBVIOUS
    <3>1. CASE i \in 1 .. len
      <4> DEFINE entry == depth + 1 - Nested(p, calls, i)
      <4>1. HasEntry(p, calls[i], entry)
        BY <1>5, <1>10, <3>1
      <4>2. Nested(p, calls, i) >= 1
        <5>1. len \in Nat /\ IsRecursive(p, calls[i])
          BY <1>1, <1>5, <3>1
        <5> QED BY <3>1, <5>1, NestedCounts
      <4>3. entry \in 1 .. depth /\ depth + 2 - Nested(q, more, i) = entry + 1
        BY <1>6, <3>1, <4>2
      <4> HIDE DEF entry
      <4>4. /\ q.precedenceStack[entry + 1] = p.precedenceStack[entry]
            /\ q.parentContextStack[entry + 1] = p.parentContextStack[entry]
        <5>1. entry \in 1 .. depth + 1 /\ entry \in 1 .. Len(p.parentContextStack)
          BY <1>16, <4>3
        <5> QED BY <2>4, <2>5, <5>1
      <4> QED BY <1>9, <3>1, <4>1, <4>3, <4>4 DEF HasEntry
    <3>2. CASE i = len + 1
      <4>1. depth + 2 - Nested(q, more, i) = 1 /\ more[i] = n + 1
        BY <1>1, <1>6, <2>6, <3>2
      <4>2. p.state # NoState
        BY DEF UnderWay
      <4> QED BY <2>4, <2>5, <4>1, <4>2, SMTT(60) DEF HasEntry, Enters, e
    <3> QED BY <1>1, <3>1, <3>2
  <2>8. q.precedenceStack[depth + 2] = 0
    BY <1>6, <1>10, <2>5, SMTT(60)
  <2>9. AreCalls(q, more, left)
    <3>1. (depth + 1) + 1 = depth + 2
      BY <1>6
    <3>2. /\ depth + 2 = Nested(q, more, Len(more)) + 1
          /\ SubSeq(q.parentContextStack, depth + 2, Len(q.parentContextStack)) = left
      BY <2>4, <2>6, <3>1
    <3>3. \A i \in 1 .. Len(more) : IsRecursive(q, more[i]) =>
            HasEntry(q, more[i], Nested(q, more, Len(more)) + 1 - Nested(q, more, i))
      <4> SUFFICES ASSUME NEW i \in 1 .. Len(more), IsRecursive(q, more[i])
                   PROVE  HasEntry(q, more[i],
                                   Nested(q, more, Len(more)) + 1 - Nested(q, more, i))
        OBVIOUS
      <4>1. Nested(q, more, Len(more)) + 1 - Nested(q, more, i) =
              depth + 2 - Nested(q, more, i)
        <5>1. Nested(q, more, i) \in Nat
          <6>1. i \in Nat
            BY <1>1
          <6> QED BY <6>1, NestedCounts
        <5> QED BY <1>16, <2>6, <5>1
      <4> QED BY <2>7, <4>1
    <3>4. /\ Len(q.precedenceStack) = Nested(q, more, Len(more)) + 1
          /\ q.precedenceStack[Nested(q, more, Len(more)) + 1] = 0
          /\ SubSeq(q.parentContextStack, Nested(q, more, Len(more)) + 1,
                    Len(q.parentContextStack)) = left
      BY <2>5, <2>8, <3>2
    <3> QED BY <1>8, <3>3, <3>4, PartsOfCalls, Zenon
  <2> QED BY <1>4, <1>6, <1>10, <1>11, <2>4, <2>6, <2>9 DEF InCalls, more
<1> QED BY <1>12, <1>13

(* The rule under way returns: one context less, and its entry. *)
Returns(p, q) ==
  /\ SameNodes(p, q)
  /\ q.ctx = p.tree[p.ctx].parent
  /\ IF IsRecursive(p, p.ctx)
     THEN /\ q.precedenceStack = Tail(p.precedenceStack)
          /\ q.parentContextStack = Tail(p.parentContextStack)
     ELSE /\ q.precedenceStack = p.precedenceStack
          /\ q.parentContextStack = p.parentContextStack

(* A sequence without its last element. *)
LEMMA FrontFacts ==
  ASSUME NEW S, NEW s \in Seq(S), s # <<>>
  PROVE  LET t == SubSeq(s, 1, Len(s) - 1) IN
         /\ t \in Seq(S) /\ Len(t) = Len(s) - 1
         /\ \A i \in 1 .. Len(s) - 1 : t[i] = s[i]
<1>1. Len(s) \in Nat /\ Len(s) # 0
  OBVIOUS
<1> DEFINE l == Len(s) - 1
           t == SubSeq(s, 1, l)
<1>2. l \in Nat /\ \A i \in 1 .. l : i \in 1 .. Len(s) /\ s[i] \in S
  BY <1>1
<1> HIDE DEF l
<1>3. t = [i \in 1 .. l |-> s[i]]
  BY <1>2
<1> HIDE DEF t
<1>4. t \in Seq(S) /\ Len(t) = l /\ \A i \in 1 .. l : t[i] = s[i]
  BY <1>2, <1>3
<1> QED BY <1>4 DEF l, t

(* A sequence without its first. *)
LEMMA TailFacts ==
  ASSUME NEW S, NEW s \in Seq(S), s # <<>>
  PROVE  /\ Tail(s) \in Seq(S) /\ Len(Tail(s)) = Len(s) - 1
         /\ \A i \in 1 .. Len(s) - 1 : Tail(s)[i] = s[i + 1]
OBVIOUS

(* A return pops both. *)
LEMMA ReturnedInCalls ==
  ASSUME NEW p, Typed(p), p.ctx # NoContext, NEW calls, NEW left, InCalls(p, calls, left),
         NEW q, Returns(p, q)
  PROVE  InCalls(q, SubSeq(calls, 1, Len(calls) - 1), left)
<1> DEFINE n     == Len(p.tree)
           len   == Len(calls)
           more  == SubSeq(calls, 1, len - 1)
           depth == Nested(p, calls, len)
           now   == Nested(q, more, len - 1)
           rec   == IsRecursive(p, p.ctx)
<1>1. /\ n \in Nat /\ len \in 1 .. n /\ calls \in Seq(1 .. n) /\ p.ctx = calls[len]
      /\ \A i \in 1 .. len :
           /\ calls[i] \in 1 .. n
           /\ p.tree[calls[i]].parent = IF i = 1 THEN NoContext ELSE calls[i - 1]
  BY ChainFacts
<1>2. /\ more \in Seq(1 .. n) /\ Len(more) = len - 1
      /\ \A i \in 1 .. len - 1 : more[i] = calls[i]
  <2>1. calls # <<>>
    BY <1>1
  <2> HIDE DEF n
  <2> QED BY <1>1, <2>1, FrontFacts
<1> HIDE DEF more
<1>3. /\ \A c \in 1 .. n : /\ q.tree[c].rule = p.tree[c].rule
                           /\ q.tree[c].parent = p.tree[c].parent
                           /\ q.tree[c].invoking = p.tree[c].invoking
      /\ q.ctx = IF len = 1 THEN NoContext ELSE calls[len - 1]
      /\ Len(q.tree) = n
  <2>1. SameNodes(p, q) /\ q.ctx = p.tree[calls[len]].parent
    BY <1>1 DEF Returns
  <2>2. p.tree[calls[len]].parent = IF len = 1 THEN NoContext ELSE calls[len - 1]
    <3>1. len \in 1 .. len
      BY <1>1
    <3> HIDE DEF len
    <3> QED BY <1>1, <3>1
  <2> QED BY <2>1, <2>2 DEF SameNodes
<1>4. /\ len - 1 \in Nat /\ (len - 1) + 1 = len /\ len - 1 <= n
      /\ \A i \in 1 .. len - 1 : i \in 1 .. len /\ (i # 1 => i - 1 \in 1 .. len - 1)
  BY <1>1
<1>5. Chain(q, more)
  <2>1. \A i \in 1 .. Len(more) :
          q.tree[more[i]].parent = IF i = 1 THEN NoContext ELSE more[i - 1]
    <3> TAKE i \in 1 .. Len(more)
    <3>1. i \in 1 .. len /\ more[i] = calls[i] /\ more[i] \in 1 .. n
      BY <1>1, <1>2, <1>4
    <3>2. q.tree[more[i]].parent = IF i = 1 THEN NoContext ELSE calls[i - 1]
      <4>1. q.tree[calls[i]].parent = p.tree[calls[i]].parent
        BY <1>3, <3>1
      <4> QED BY <1>1, <3>1, <4>1
    <3>3. i # 1 => more[i - 1] = calls[i - 1]
      BY <1>2, <1>4
    <3> QED BY <3>2, <3>3
  <2>2. \A i, j \in 1 .. len : calls[i] = calls[j] => i = j
    BY DEF InCalls, Chain
  <2>3. \A i, j \in 1 .. Len(more) : more[i] = more[j] => i = j
    BY <1>2, <1>4, <2>2
  <2>4. q.ctx = IF more = <<>> THEN NoContext ELSE more[Len(more)]
    <3>1. more = <<>> <=> len = 1
      BY <1>1, <1>2, SMTT(60)
    <3>2. len # 1 => more[len - 1] = calls[len - 1]
      BY <1>1, <1>2, SMTT(60)
    <3> QED BY <1>2, <1>3, <3>1, <3>2
  <2> QED BY <1>2, <1>3, <1>4, <2>1, <2>3, <2>4 DEF Chain
<1>6. \A i \in 1 .. len - 1 : IsRecursive(q, more[i]) <=> IsRecursive(p, calls[i])
  BY <1>1, <1>2, <1>3, <1>4 DEF IsRecursive
<1>7. \A i \in 0 .. len - 1 : Nested(q, more, i) = Nested(p, calls, i)
  <2> TAKE i \in 0 .. len - 1
  <2>1. i \in Nat /\ \A j \in 1 .. i : IsRecursive(q, more[j]) <=> IsRecursive(p, calls[j])
    BY <1>1, <1>6
  <2> QED BY <2>1, NestedSame
<1>8. now \in Nat /\ depth = now + IF rec THEN 1 ELSE 0
  <2>1. now = Nested(p, calls, len - 1)
    BY <1>4, <1>7
  <2>2. /\ Nested(p, calls, len - 1) \in Nat
        /\ Nested(p, calls, (len - 1) + 1) =
             Nested(p, calls, len - 1) + IF IsRecursive(p, calls[(len - 1) + 1]) THEN 1 ELSE 0
    BY <1>4, NestedCounts
  <2> QED BY <1>1, <1>4, <2>1, <2>2
<1>9. \A i \in 1 .. len - 1 :
        /\ Nested(q, more, i) \in 0 .. now
        /\ IsRecursive(q, more[i]) => Nested(q, more, i) >= 1
  BY <1>4, NestedCounts
<1>10. AreCalls(p, calls, left) /\ Len(p.parentContextStack) >= depth
  BY DEF InCalls
<1>11. \A i \in 1 .. len : WasCalled(p, calls[i])
  BY <1>10, PartsOfCalls
<1>12. \A i \in 1 .. len - 1 : WasCalled(q, more[i])
  <2> TAKE i \in 1 .. len - 1
  <2>1. WasCalled(p, calls[i]) /\ more[i] = calls[i] /\ calls[i] \in 1 .. n
    BY <1>1, <1>2, <1>4, <1>11
  <2>2. p.tree[calls[i]].parent # NoContext => p.tree[calls[i]].parent \in 1 .. n
    BY <1>1, <1>4
  <2>3. /\ q.tree[more[i]].rule = p.tree[calls[i]].rule
        /\ q.tree[more[i]].parent = p.tree[calls[i]].parent
        /\ q.tree[more[i]].invoking = p.tree[calls[i]].invoking
        /\ p.tree[calls[i]].parent # NoContext =>
             q.tree[p.tree[calls[i]].parent].rule = p.tree[p.tree[calls[i]].parent].rule
    BY <1>3, <2>1, <2>2
  <2> QED BY <2>1, <2>3 DEF WasCalled
<1>13. /\ \A i \in 1 .. len - 1 : IsRecursive(q, more[i]) =>
            HasEntry(p, calls[i], depth + 1 - Nested(q, more, i))
       /\ Len(p.precedenceStack) = depth + 1 /\ p.precedenceStack[depth + 1] = 0
       /\ SubSeq(p.parentContextStack, depth + 1, Len(p.parentContextStack)) = left
  <2>1. /\ \A i \in 1 .. len : IsRecursive(p, calls[i]) =>
            HasEntry(p, calls[i], depth + 1 - Nested(p, calls, i))
        /\ Len(p.precedenceStack) = depth + 1 /\ p.precedenceStack[depth + 1] = 0
        /\ SubSeq(p.parentContextStack, depth + 1, Len(p.parentContextStack)) = left
    BY <1>10, PartsOfCalls
  <2>2. \A i \in 1 .. len - 1 : Nested(q, more, i) = Nested(p, calls, i)
    BY <1>4, <1>7
  <2> QED BY <1>4, <1>6, <2>1, <2>2
<1>14. /\ p.precedenceStack \in Seq(Nat)
       /\ p.parentContextStack \in Seq([ctx : Nat, state : Maybe(States)])
       /\ depth \in Nat /\ Len(p.parentContextStack) \in Nat
  BY <1>8 DEF Typed, Shaped
<1>15. \A i \in 1 .. len - 1 : \A entry, shifted :
         /\ HasEntry(p, calls[i], entry)
         /\ q.precedenceStack[shifted] = p.precedenceStack[entry]
         /\ q.parentContextStack[shifted] = p.parentContextStack[entry]
         => HasEntry(q, more[i], shifted)
  <2> TAKE i \in 1 .. len - 1
  <2>1. more[i] = calls[i] /\ calls[i] \in 1 .. n
    BY <1>1, <1>2, <1>4
  <2> QED BY <1>3, <2>1 DEF HasEntry
<1>16. ASSUME \A i \in 1 .. len - 1 : IsRecursive(q, more[i]) =>
                HasEntry(q, more[i], now + 1 - Nested(q, more, i)),
              Len(q.precedenceStack) = now + 1, q.precedenceStack[now + 1] = 0,
              SubSeq(q.parentContextStack, now + 1, Len(q.parentContextStack)) = left,
              Len(q.parentContextStack) >= now
       PROVE  InCalls(q, more, left)
  <2>1. Nested(q, more, Len(more)) = now
    BY <1>2
  <2>2. AreCalls(q, more, left)
    BY <1>2, <1>12, <1>16, <2>1, PartsOfCalls
  <2> QED BY <1>5, <1>16, <2>1, <2>2 DEF InCalls
<1>17. CASE ~rec
  <2>1. now = depth /\ q.precedenceStack = p.precedenceStack
        /\ q.parentContextStack = p.parentContextStack
    BY <1>8, <1>17 DEF Returns
  <2>2. \A i \in 1 .. len - 1 : IsRecursive(q, more[i]) =>
          HasEntry(q, more[i], now + 1 - Nested(q, more, i))
    BY <1>13, <1>15, <2>1
  <2> QED BY <1>10, <1>13, <1>16, <2>1, <2>2 DEF more
<1>18. CASE rec
  <2>1. /\ depth = now + 1 /\ q.precedenceStack = Tail(p.precedenceStack)
        /\ q.parentContextStack = Tail(p.parentContextStack)
    BY <1>8, <1>18 DEF Returns
  <2>2. /\ Len(q.precedenceStack) = now + 1
        /\ \A i \in 1 .. now + 1 : q.precedenceStack[i] = p.precedenceStack[i + 1]
    <3>1. p.precedenceStack # <<>> /\ Len(p.precedenceStack) = now + 2
      BY <1>8, <1>13, <1>14, <2>1
    <3>2. Len(p.precedenceStack) - 1 = now + 1
      BY <1>8, <3>1
    <3> QED BY <1>14, <2>1, <3>1, <3>2, TailFacts
  <2>3. /\ Len(q.parentContextStack) = Len(p.parentContextStack) - 1
        /\ \A i \in 1 .. Len(p.parentContextStack) - 1 :
             q.parentContextStack[i] = p.parentContextStack[i + 1]
        /\ SubSeq(q.parentContextStack, now + 1, Len(q.parentContextStack)) = left
    <3> DEFINE s == p.parentContextStack
               T == [ctx : Nat, state : Maybe(States)]
               d == now + 1
    <3>1. /\ s \in Seq(T) /\ d \in 1 .. Len(s) /\ q.parentContextStack = Tail(s)
          /\ SubSeq(s, d + 1, Len(s)) = left
      <4>1. d = depth /\ d \in 1 .. Len(s)
        BY <1>8, <1>10, <1>14, <2>1
      <4> QED BY <1>13, <1>14, <2>1, <4>1
    <3> HIDE DEF s, T, d
    <3>2. s # <<>>
      BY <3>1
    <3>3. SubSeq(Tail(s), d, Len(s) - 1) = left
      BY <3>1, SubSeqOfTail
    <3>4. Len(Tail(s)) = Len(s) - 1 /\ \A i \in 1 .. Len(s) - 1 : Tail(s)[i] = s[i + 1]
      BY <3>1, <3>2, TailFacts
    <3> QED BY <3>1, <3>3, <3>4 DEF s, d
  <2>4. \A i \in 1 .. len - 1 : IsRecursive(q, more[i]) =>
          HasEntry(q, more[i], now + 1 - Nested(q, more, i))
    <3> SUFFICES ASSUME NEW i \in 1 .. len - 1, IsRecursive(q, more[i])
                 PROVE  HasEntry(q, more[i], now + 1 - Nested(q, more, i))
      OBVIOUS
    <3> DEFINE shifted == now + 1 - Nested(q, more, i)
    <3>1. shifted \in 1 .. now /\ depth + 1 - Nested(q, more, i) = shifted + 1
      BY <1>8, <1>9, <2>1
    <3>2. HasEntry(p, calls[i], shifted + 1)
      BY <1>13, <3>1, SMTT(60)
    <3> HIDE DEF shifted
    <3>3. shifted \in 1 .. now + 1 /\ shifted \in 1 .. Len(p.parentContextStack) - 1
      BY <1>8, <1>10, <1>14, <2>1, <3>1, SMTT(60)
    <3>4. HasEntry(q, more[i], shifted)
      BY <1>15, <2>2, <2>3, <3>2, <3>3
    <3> QED BY <3>4 DEF shifted
  <2>5. q.precedenceStack[now + 1] = 0
    <3>1. now + 1 \in 1 .. now + 1 /\ (now + 1) + 1 = depth + 1
      BY <1>8, <2>1
    <3> QED BY <1>13, <2>2, <3>1
  <2>6. Len(q.parentContextStack) >= now
    BY <1>8, <1>10, <1>14, <2>1, <2>3
  <2> QED BY <1>16, <2>2, <2>3, <2>4, <2>5, <2>6 DEF more
<1> QED BY <1>17, <1>18

(* A left operand's context gives its place among the calls to a new one. *)
Regroups(p, q) ==
  LET n == Len(p.tree) IN
  /\ Len(q.tree) = n + 1 /\ q.ctx = n + 1
  /\ \A c \in 1 .. n :
       /\ q.tree[c].rule = p.tree[c].rule
       /\ c # p.ctx => /\ q.tree[c].parent = p.tree[c].parent
                       /\ q.tree[c].invoking = p.tree[c].invoking
  /\ q.tree[n + 1].rule = p.tree[p.ctx].rule
  /\ q.tree[n + 1].parent = p.tree[p.ctx].parent
  /\ q.tree[n + 1].invoking = p.tree[p.ctx].invoking
  /\ q.precedenceStack = p.precedenceStack
  /\ q.parentContextStack = p.parentContextStack

(* The new context of a left operand was called as the operand was. *)
LEMMA RegroupedInCalls ==
  ASSUME NEW p, Typed(p), p.ctx # NoContext, NEW calls, NEW left, InCalls(p, calls, left),
         NEW q, Regroups(p, q)
  PROVE  InCalls(q, [calls EXCEPT ![Len(calls)] = Len(p.tree) + 1], left)
<1> DEFINE n    == Len(p.tree)
           len  == Len(calls)
           more == [calls EXCEPT ![len] = n + 1]
<1>1. /\ n \in Nat /\ len \in 1 .. n /\ calls \in Seq(1 .. n) /\ p.ctx = calls[len]
      /\ \A i \in 1 .. len :
           /\ calls[i] \in 1 .. n
           /\ p.tree[calls[i]].parent = IF i = 1 THEN NoContext ELSE calls[i - 1]
  BY ChainFacts
<1>2. /\ more \in Seq(1 .. n + 1) /\ Len(more) = len
      /\ \A i \in 1 .. len : more[i] = IF i = len THEN n + 1 ELSE calls[i]
  <2> DEFINE S == 1 .. n + 1
             e == n + 1
  <2>1. e \in S /\ calls \in Seq(1 .. n) /\ len \in 1 .. Len(calls)
        /\ \A i \in 1 .. Len(calls) : calls[i] \in S
    BY <1>1
  <2> HIDE DEF S, e
  <2>3. /\ [calls EXCEPT ![len] = e] \in Seq(S) /\ Len([calls EXCEPT ![len] = e]) = len
        /\ \A i \in 1 .. len :
             [calls EXCEPT ![len] = e][i] = IF i = len THEN e ELSE calls[i]
    BY <2>1, ReplaceFacts
  <2> QED BY <2>3 DEF S, e
<1> HIDE DEF more
<1>3. len \in Nat /\ len # 0 /\ len \in 1 .. len
      /\ \A i \in 1 .. len : i # 1 => i - 1 \in 1 .. len /\ i - 1 # len
  BY <1>1
<1>4. \A i, j \in 1 .. len : calls[i] = calls[j] => i = j
  BY DEF InCalls, Chain
<1>5. \A i \in 1 .. len :
        /\ q.tree[more[i]].rule = p.tree[calls[i]].rule
        /\ q.tree[more[i]].parent = p.tree[calls[i]].parent
        /\ q.tree[more[i]].invoking = p.tree[calls[i]].invoking
  <2> TAKE i \in 1 .. len
  <2>1. CASE i = len
    BY <1>1, <1>2, <2>1 DEF Regroups
  <2>2. CASE i # len
    <3>1. more[i] = calls[i] /\ calls[i] \in 1 .. n /\ calls[i] # p.ctx
      BY <1>1, <1>2, <1>3, <1>4, <2>2
    <3> QED BY <3>1 DEF Regroups
  <2> QED BY <2>1, <2>2
<1>6. Chain(q, more)
  <2>1. \A i \in 1 .. len :
          q.tree[more[i]].parent = IF i = 1 THEN NoContext ELSE more[i - 1]
    BY <1>1, <1>2, <1>3, <1>5
  <2>2. \A i, j \in 1 .. len : more[i] = more[j] => i = j
    <3> SUFFICES ASSUME NEW i \in 1 .. len, NEW j \in 1 .. len, more[i] = more[j]
                 PROVE  i = j
      OBVIOUS
    <3>1. calls[i] \in 1 .. n /\ calls[j] \in 1 .. n
      BY <1>1
    <3>2. calls[i] # n + 1 /\ calls[j] # n + 1
      BY <1>1, <3>1
    <3> QED BY <1>2, <1>4, <3>2
  <2>3. more # <<>> /\ more[len] = n + 1
    BY <1>2, <1>3
  <2>4. Len(q.tree) = n + 1 /\ q.ctx = n + 1
    BY DEF Regroups
  <2> QED BY <1>1, <1>2, <2>1, <2>2, <2>3, <2>4 DEF Chain
<1>7. \A i \in 1 .. len :
        p.tree[calls[i]].parent # NoContext =>
          q.tree[p.tree[calls[i]].parent].rule = p.tree[p.tree[calls[i]].parent].rule
  <2> TAKE i \in 1 .. len
  <2>1. p.tree[calls[i]].parent # NoContext => p.tree[calls[i]].parent \in 1 .. n
    BY <1>1, <1>3
  <2> QED BY <2>1 DEF Regroups
<1>8. InCalls(q, more, left)
  <2>1. q.precedenceStack = p.precedenceStack /\ q.parentContextStack = p.parentContextStack
    BY DEF Regroups
  <2>2. \A i \in 1 .. Len(calls) :
          LET c == p.tree[calls[i]]
              d == q.tree[more[i]]
          IN /\ d.rule = c.rule /\ d.invoking = c.invoking /\ d.parent = c.parent
             /\ c.parent # NoContext => q.tree[c.parent].rule = p.tree[c.parent].rule
    BY <1>5, <1>7
  <2>3. Len(more) = Len(calls)
    BY <1>2
  <2>4. Alike(p, calls, q, more)
    BY <2>1, <2>2, <2>3 DEF Alike
  <2> QED BY <1>6, <2>4, AlikeInCalls
<1> QED BY <1>8 DEF more
===========================================================================
