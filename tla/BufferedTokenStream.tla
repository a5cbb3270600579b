------------------------ MODULE BufferedTokenStream ------------------------
(***************************************************************************)
(* BufferedTokenStream.ts, and CommonTokenStream.ts when Filtering: a list *)
(* of the tokens fetched so far from a token source, filled only as far as *)
(* a call looks, and a cursor into it.                                     *)
(*                                                                         *)
(* A method is an operator from a stream state to a stream state.  A state *)
(* in which `thrown' is not "none" is one an exception is leaving: every   *)
(* later step of the method returns it as it is.                           *)
(***************************************************************************)
EXTENDS Integers, Sequences, FiniteSets

CONSTANTS
  Sources,      \* what a token source may deliver: sequences ending in EOF
  Filtering,    \* TRUE: a CommonTokenStream; FALSE: a BufferedTokenStream
  Channel,      \* CommonTokenStream.channel
  SeekTargets,  \* the arguments of seek
  Lookaheads,   \* the k > 0 of LT(k) and LT(-k)
  MaxFaults     \* bound on the calls of nextToken that throw

EOF == -1                             \* Token.EOF
DefaultChannel == 0                   \* Token.DEFAULT_CHANNEL
AnyHidden == -1                       \* the `channel' argument's default
Unset == -1                           \* p before the first token is fetched
NoToken == -1                         \* `undefined' where a token is due

Tokens == [type : Int, channel : Nat]

SourcesAssumption ==
  /\ \A src \in Sources :
       /\ src \in Seq(Tokens)
       /\ Len(src) > 0
       /\ \A i \in 1..Len(src) : src[i].type = EOF <=> i = Len(src)
       /\ src[Len(src)].channel = DefaultChannel
  /\ SeekTargets \subseteq Int /\ Lookaheads \subseteq Nat \ {0}
  /\ Filtering \in BOOLEAN /\ Channel \in Nat /\ MaxFaults \in Nat

ASSUME SourcesAssumption

VARIABLES
  source,   \* everything the current token source will deliver
  stream,   \* the stream's fields, the source's position and its faults
  answer    \* what the last call returned: [call, arg, channel, thrown, tokens],
            \* where a token is its index, and a list, always in order, a set

vars == <<source, stream, answer>>

SmallestOf(S) == CHOOSE x \in S : \A y \in S : x <= y
LargestOf(S)  == CHOOSE x \in S : \A y \in S : y <= x

-----------------------------------------------------------------------------
(* The token source: call number j of nextToken() returns the j-th token,  *)
(* and EOF again once EOF was returned.                                    *)

NextToken(j) == source[IF j <= Len(source) THEN j ELSE Len(source)]

(* Everything the list holds or will come to hold. *)
AllTokens(s) ==
  s.tokens \o (IF s.fetchedEOF THEN <<>> ELSE SubSeq(source, s.pos + 1, Len(source)))

-----------------------------------------------------------------------------
(* Filling the list. *)

(* fetch(n): up to n calls of nextToken, stopping after EOF; the call that *)
(* throws leaves the tokens before it in the list.                         *)
Fetch(s, n) ==
  LET calls == s.pos + 1 .. s.pos + n
      last  == SmallestOf({j \in calls : NextToken(j).type = EOF} \cup {s.pos + n})
      bad   == {j \in s.pos + 1 .. last : j \in s.faults}
      stop  == IF bad = {} THEN last ELSE SmallestOf(bad) - 1
  IN IF s.fetchedEOF THEN s
     ELSE [s EXCEPT
            !.tokens     = @ \o [j \in 1..(stop - s.pos) |-> NextToken(s.pos + j)],
            !.pos        = stop,
            !.fetchedEOF = bad = {} /\ NextToken(stop).type = EOF,
            !.faults     = IF bad = {} THEN @ ELSE @ \ {SmallestOf(bad)},
            !.thrown     = IF bad = {} THEN @ ELSE "source"]

(* sync(i) asserts i >= 0; whether it returns true is Holds(s, i) after it. *)
Sync(s, i) ==
  LET need == i - Len(s.tokens) + 1
  IN IF s.thrown # "none" THEN s
     ELSE IF i < 0 THEN [s EXCEPT !.thrown = "assert"]
     ELSE IF need > 0 THEN Fetch(s, need) ELSE s

Holds(s, i) == s.thrown = "none" /\ i < Len(s.tokens)

-----------------------------------------------------------------------------
(* Moving over tokens of other channels. *)

OnChannel(t, channel) == t.channel = channel \/ t.type = EOF

(* nextTokenOnChannel(i, channel): the index it returns, and the state     *)
(* after the syncs on the way there.                                       *)
NextTokenOnChannel(s, i, channel) ==
  LET all  == AllTokens(s)
      good == {j \in 0..Len(all) - 1 : j >= i /\ OnChannel(all[j + 1], channel)}
  IN IF good = {} THEN Len(all) - 1 ELSE SmallestOf(good)

SyncToChannel(s, i, channel) ==
  Sync(s, IF i < 0 THEN i ELSE NextTokenOnChannel(s, i, channel))

(* previousTokenOnChannel(i, channel) looks at tokens the list holds. *)
PreviousTokenOnChannel(s, i, channel) ==
  LET good == {j \in 0..i : OnChannel(s.tokens[j + 1], channel)}
  IN IF i >= Len(s.tokens) THEN Len(s.tokens) - 1
     ELSE IF good = {} THEN -1 ELSE LargestOf(good)

MoveFirst(s, i) ==                    \* variant: p moves before the sync that may throw
  LET t == SyncToChannel(s, i, Channel)
  IN IF s.thrown # "none" THEN s
     ELSE [t EXCEPT !.p = IF i < 0 THEN @ ELSE NextTokenOnChannel(s, i, Channel)]

(* p = adjustSeekIndex(i): p keeps its value when the adjustment throws. *)
MoveTo(s, i) ==
  IF s.thrown # "none" THEN s
  ELSE IF ~Filtering THEN [s EXCEPT !.p = i]
  ELSE LET t == SyncToChannel(s, i, Channel)
       IN IF t.thrown # "none" THEN t
          ELSE [t EXCEPT !.p = NextTokenOnChannel(s, i, Channel)]

(* lazyInit() and setup(). *)
LazyInit(s) == IF s.p = Unset THEN MoveTo(Sync(s, 0), 0) ELSE s

-----------------------------------------------------------------------------
(* Looking ahead and behind.  TokenAhead and TokenBehind give the index of *)
(* the token returned, once SyncAhead has fetched what they need.          *)

(* tryLT(k), k > 0, of CommonTokenStream: the (k-1)-th symbol after the    *)
(* cursor, or EOF, past which the loop does not step.                      *)
SymbolAhead(s, k) ==
  LET all   == AllTokens(s)
      after == {j \in s.p + 1 .. Len(all) - 1 : OnChannel(all[j + 1], Channel)}
      hit   == {j \in after : Cardinality({m \in after : m <= j}) = k - 1}
  IN IF k = 1 THEN s.p
     ELSE IF hit = {} THEN Len(all) - 1 ELSE SmallestOf(hit)

SyncAhead(s, k) ==
  IF s.thrown # "none" THEN s
  ELSE IF ~Filtering THEN Sync(s, s.p + k - 1)
  ELSE IF k = 1 THEN s ELSE Sync(s, SymbolAhead(s, k))

TokenAhead(s, k) ==
  IF Filtering THEN SymbolAhead(s, k)
  ELSE IF s.p + k - 1 >= Len(s.tokens) THEN Len(s.tokens) - 1 ELSE s.p + k - 1

(* tryLB(k): the k-th symbol before the cursor.  The loop of the code ends *)
(* when it reaches index 0, whether or not it has made its k steps: with   *)
(* fewer than k symbols behind, a symbol at index 0 is still returned.     *)
TokenBehind(s, k) ==
  LET before == {j \in 0 .. s.p - 1 : OnChannel(s.tokens[j + 1], Channel)}
      hit    == {j \in before : Cardinality({m \in before : m >= j}) = k}
  IN IF s.p - k < 0 THEN NoToken
     ELSE IF ~Filtering THEN IF s.p - k < Len(s.tokens) THEN s.p - k ELSE NoToken
     ELSE IF hit # {} THEN SmallestOf(hit)
     ELSE IF 0 \in before THEN 0 ELSE NoToken

-----------------------------------------------------------------------------
(* Operations.  An operation starts from the stored stream, runs the       *)
(* method, and stores the fields whether or not an exception left it.      *)

Start == [stream EXCEPT !.thrown = "none"]

FinishOn(s, call, arg, channel, tokens) ==
  /\ stream' = [s EXCEPT !.thrown = "none"]
  /\ answer' = [call   |-> call, arg |-> arg, channel |-> channel, thrown |-> s.thrown,
                tokens |-> IF s.thrown = "none" THEN tokens ELSE {}]
  /\ UNCHANGED source

Finish(s, call, arg, tokens) == FinishOn(s, call, arg, AnyHidden, tokens)

FoundOrNot(i) == {i}                  \* variant: no test for a missing token

Found(i) == IF i = NoToken THEN {} ELSE {i}

SkipsTheTest(s) == s.p >= 0 /\ s.p < Len(s.tokens)    \* variant: EOF is a token too

(* consume() tests for EOF only when the cursor may stand on it. *)
SkipsEofCheck(s) ==
  s.p >= 0 /\ s.p < (IF s.fetchedEOF THEN Len(s.tokens) - 1 ELSE Len(s.tokens))

Consumed(s) ==
  LET seen     == IF SkipsEofCheck(s) THEN s ELSE SyncAhead(LazyInit(s), 1)
      atEOF    == ~SkipsEofCheck(s) /\ seen.tokens[TokenAhead(seen, 1) + 1].type = EOF
      next     == Sync(seen, seen.p + 1)
  IN IF seen.thrown # "none" THEN seen
     ELSE IF atEOF THEN [seen EXCEPT !.thrown = "EOF"]
     ELSE IF Holds(next, seen.p + 1) THEN MoveTo(next, seen.p + 1) ELSE next

Consume == Finish(Consumed(Start), "consume", 0, {})

Seek(i) == Finish(MoveTo(LazyInit(Start), i), "seek", i, {})

LookAhead(k) ==
  LET s == SyncAhead(LazyInit(Start), k)
  IN Finish(s, "tryLT", k, IF s.thrown = "none" THEN {TokenAhead(s, k)} ELSE {})

LookBehind(k) ==
  LET s == LazyInit(Start)
  IN Finish(s, "tryLT", -k, IF s.thrown = "none" THEN Found(TokenBehind(s, k)) ELSE {})

(* fill(): blocks of fetch() until one comes back short, i.e. up to EOF. *)
Filled(s) ==
  LET t == LazyInit(s)
  IN IF t.thrown # "none" THEN t ELSE Fetch(t, Len(source) - t.pos + 1)

Fill == Finish(Filled(Start), "fill", 0, {})

(* The tokens from..to of the list, up to and without EOF. *)
BeforeEOF(s, from, to) ==
  LET last == IF to >= Len(s.tokens) THEN Len(s.tokens) - 1 ELSE to
      end  == IF last >= 0 /\ s.tokens[last + 1].type = EOF THEN last - 1 ELSE last
  IN from..end

(* getText(): the interval is taken from the list before the list is filled. *)
GetText ==
  LET to == Len(stream.tokens) - 1
      s  == IF to < 0 THEN Start ELSE Filled(Start)
  IN Finish(s, "getText", 0, BeforeEOF(s, 0, to))

(* getRange(from, to) initialises the stream and reads what the list holds. *)
GetRange(from, to) ==
  LET s == IF from < 0 \/ to < 0 THEN Start ELSE LazyInit(Start)
  IN Finish(s, "getRange", from, IF from < 0 \/ to < 0 THEN {} ELSE BeforeEOF(s, from, to))

Wanted(t, channel) ==
  IF channel = AnyHidden THEN t.channel # DefaultChannel ELSE t.channel = channel

FilterForChannelBefore(s, from, to, channel) ==   \* variant: `to' is left out
  {i \in from .. to - 1 : Wanted(s.tokens[i + 1], channel)}

FilterForChannel(s, from, to, channel) ==
  {i \in from..to : Wanted(s.tokens[i + 1], channel)}

OutOfRange(s, i) == s.thrown = "none" /\ (i < 0 \/ i >= Len(s.tokens))

GetHiddenTokensToRight(i, channel) ==
  LET s == LazyInit(Start)
      t == SyncToChannel(s, i + 1, DefaultChannel)
  IN IF OutOfRange(s, i)
     THEN FinishOn([s EXCEPT !.thrown = "range"], "getHiddenTokensToRight", i, channel, {})
     ELSE FinishOn(t, "getHiddenTokensToRight", i, channel,
                 IF t.thrown # "none" THEN {}
                 ELSE FilterForChannel(t, i + 1, NextTokenOnChannel(t, i + 1, DefaultChannel), channel))

GetHiddenTokensToLeft(i, channel) ==
  LET s    == LazyInit(Start)
      prev == PreviousTokenOnChannel(s, i - 1, DefaultChannel)
  IN IF OutOfRange(s, i)
     THEN FinishOn([s EXCEPT !.thrown = "range"], "getHiddenTokensToLeft", i, channel, {})
     ELSE FinishOn(s, "getHiddenTokensToLeft", i, channel,
                 IF s.thrown # "none" \/ i = 0 THEN {}
                 ELSE FilterForChannel(s, prev + 1, i - 1, channel))

GetNumberOfOnChannelTokens ==
  LET s == Filled(Start)
      counted == {i \in 0 .. Len(s.tokens) - 1 : s.tokens[i + 1].channel = Channel}
  IN /\ Filtering
     /\ Finish(s, "getNumberOfOnChannelTokens", 0, counted)

-----------------------------------------------------------------------------

Fresh(faults) ==
  [tokens |-> <<>>, p |-> Unset, fetchedEOF |-> FALSE, pos |-> 0, faults |-> faults, thrown |-> "none"]

(* At most MaxFaults calls of nextToken throw before EOF is delivered. *)
FaultSets(src) == {f \in SUBSET (1..Len(src)) : Cardinality(f) <= MaxFaults}

Init ==
  /\ source \in Sources
  /\ stream \in {Fresh(f) : f \in FaultSets(source)}
  /\ answer = [call |-> "new", arg |-> 0, channel |-> AnyHidden, thrown |-> "none",
                tokens |-> {}]

SetTokenSourceKeepingTokens ==        \* variant: tokens.length = 0 is forgotten
  /\ source' \in Sources
  /\ stream' \in {[Fresh(f) EXCEPT !.tokens = stream.tokens] : f \in FaultSets(source')}
  /\ answer' = [call |-> "setTokenSource", arg |-> 0, channel |-> AnyHidden, thrown |-> "none",
                tokens |-> {}]

(* The setter of tokenSource drops the list and the cursor. *)
SetTokenSource ==
  /\ source' \in Sources
  /\ stream' \in {Fresh(f) : f \in FaultSets(source')}
  /\ answer' = [call |-> "setTokenSource", arg |-> 0, channel |-> AnyHidden, thrown |-> "none",
                tokens |-> {}]

Next ==
  \/ Consume
  \/ \E i \in SeekTargets : Seek(i)
  \/ \E k \in Lookaheads : LookAhead(k) \/ LookBehind(k)
  \/ Fill
  \/ GetText
  \/ \E to \in SeekTargets : GetRange(0, to)
  \/ \E i \in SeekTargets, channel \in {AnyHidden, Channel + 1} :
       GetHiddenTokensToRight(i, channel) \/ GetHiddenTokensToLeft(i, channel)
  \/ GetNumberOfOnChannelTokens
  \/ SetTokenSource

Spec == Init /\ [][Next]_vars

-----------------------------------------------------------------------------

Streams ==
  [tokens : Seq(Tokens), p : Int, fetchedEOF : BOOLEAN, pos : Nat,
   faults : SUBSET Nat, thrown : {"none", "source", "assert", "EOF", "range"}]

(* Every token a call returns is one the list holds. *)
TypeOK ==
  /\ source \in Sources
  /\ stream \in Streams /\ stream.thrown = "none"
  /\ answer.tokens \subseteq 0 .. Len(stream.tokens) - 1

(* However the calls interleave with failures of the token source, the     *)
(* list is what the source delivered so far: no token lost, none twice,    *)
(* one EOF, last (fetch and the fetchedEOF flag).                          *)
BufferIsPrefix ==
  /\ stream.pos = Len(stream.tokens)
  /\ stream.tokens = SubSeq(source, 1, Len(stream.tokens))
  /\ stream.fetchedEOF <=> Len(stream.tokens) = Len(source)

(* Once initialised, a CommonTokenStream stands on a fetched token of its  *)
(* channel or on EOF, also when the source failed while it was moving.     *)
CursorOnSymbol ==
  Filtering /\ stream.p # Unset =>
    /\ stream.p \in 0..Len(stream.tokens) - 1
    /\ OnChannel(stream.tokens[stream.p + 1], Channel)

(* The indexes of the unbroken run of hidden tokens beside token i. *)
HiddenRight(i) ==
  {j \in i + 1 .. Len(source) - 1 :
     \A m \in i + 1 .. j : ~OnChannel(source[m + 1], DefaultChannel)}
HiddenLeft(i) ==
  {j \in 0 .. i - 1 : \A m \in j .. i - 1 : ~OnChannel(source[m + 1], DefaultChannel)}

(* getHiddenTokensToRight/Left return, of the whole run of hidden tokens   *)
(* next to a token, those of the channel asked for, however little of it   *)
(* had been fetched when they were asked.                                  *)
HiddenRunsAreWhole ==
  LET Asked(run) == {j \in run : Wanted(source[j + 1], answer.channel)} IN
  answer.thrown = "none" =>
    /\ answer.call = "getHiddenTokensToRight" => answer.tokens = Asked(HiddenRight(answer.arg))
    /\ answer.call = "getHiddenTokensToLeft"  => answer.tokens = Asked(HiddenLeft(answer.arg))

(* The client of a CommonTokenStream cannot tell that tokens are fetched   *)
(* on demand: cursor and lookahead are those of a stream that holds all    *)
(* its input from the start (the contract of IntStream.ts).                *)
Cursor ==
  LET first == NextTokenOnChannel(Fresh({}), 0, Channel)
  IN IF stream.p # Unset THEN stream.p ELSE IF Filtering THEN first ELSE 0

Answer ==
  [call |-> answer.call, arg |-> answer.arg, thrown |-> answer.thrown, tokens |-> answer.tokens]

Promise == INSTANCE TokenStream WITH input <- source, index <- Cursor, answer <- Answer

ImplementsTokenStream == Promise!Spec

-----------------------------------------------------------------------------
(* What the docs say and the code does not do.                             *)

(* TokenStream.ts on getText(): "Return the text of all tokens in the      *)
(* stream."                                                                *)
GetTextIsWhole ==
  answer.call = "getText" /\ answer.thrown = "none" /\ stream.p # Unset =>
    answer.tokens = 0 .. Len(source) - 2

(* TokenStream.ts on tryLT(k): undefined "if k<0 and fewer than -k calls   *)
(* to consume() have occurred from the beginning of the stream".           *)
LookBehindStopsAtStart ==
  answer.call = "tryLT" /\ answer.thrown = "none" /\ answer.arg < 0 =>
    (Promise!Behind(source, Cursor, -answer.arg) = NoToken => answer.tokens = {})

============================================================================
