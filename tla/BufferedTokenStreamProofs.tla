--------------------- MODULE BufferedTokenStreamProofs ---------------------
(***************************************************************************)
(* Proofs about BufferedTokenStream, for every set of inputs, every number *)
(* of failures of the token source and every argument of every call.       *)
(*                                                                         *)
(* Good(s) is the inductive invariant, stated of a state of the stream     *)
(* rather than of the variables, so that each method of the class has a    *)
(* lemma of its own: it takes a good state to a good state.                *)
(*                                                                         *)
(* Then the refinement: a CommonTokenStream implements TokenStream, the    *)
(* stream that IntStream.ts promises.  A method is followed from the state *)
(* s it starts in to the state t it leaves; Position(s) is where the       *)
(* client of s sees the cursor.                                            *)
(***************************************************************************)
EXTENDS BufferedTokenStream, TLAPS, WellFoundedInduction, SequenceTheorems,
        FiniteSetTheorems

Good(s) ==
  /\ s \in Streams
  /\ s.pos = Len(s.tokens)
  /\ Len(s.tokens) <= Len(source)
  /\ s.tokens = SubSeq(source, 1, Len(s.tokens))
  /\ s.fetchedEOF <=> Len(s.tokens) = Len(source)
  /\ Filtering /\ s.p # Unset =>
       /\ s.p \in 0..Len(s.tokens) - 1
       /\ OnChannel(source[s.p + 1], Channel)

(* A non-empty set of naturals has a least element. *)
LEMMA SmallestIsLeast ==
  ASSUME NEW S \in SUBSET Nat, S # {}
  PROVE  SmallestOf(S) \in S /\ \A y \in S : SmallestOf(S) <= y
<1> DEFINE Less == {ss \in Nat \X Nat : ss[1] < ss[2]}
<1>1. IsWellFoundedOn(Less, Nat)
  BY NatLessThanWellFounded DEF OpToRel
<1>2. PICK x \in S : \A y \in S : ~(<<y, x>> \in Less)
  <2> HIDE DEF Less
  <2> QED BY <1>1, WFMin
<1>3. \A y \in S : x <= y
  <2> TAKE y \in S
  <2>1. <<y, x>> \in Nat \X Nat
    OBVIOUS
  <2>2. ~(y < x)
    BY <1>2, <2>1
  <2> QED BY <2>2
<1> QED BY <1>3 DEF SmallestOf

LEMMA LargestIsThere ==
  ASSUME NEW b \in Nat, NEW S \in SUBSET (0..b), S # {}
  PROVE  LargestOf(S) \in S /\ \A y \in S : y <= LargestOf(S)
<1> DEFINE T == {b - x : x \in S}
<1>1. T \in SUBSET Nat /\ T # {}
  <2>1. \A x \in S : b - x \in Nat
    OBVIOUS
  <2>2. PICK x \in S : TRUE
    OBVIOUS
  <2>3. b - x \in T
    BY <2>2
  <2> QED BY <2>1, <2>3
<1>2. SmallestOf(T) \in T /\ \A y \in T : SmallestOf(T) <= y
  <2> HIDE DEF T
  <2> QED BY <1>1, SmallestIsLeast
<1>3. PICK x \in S : \A y \in S : b - x <= b - y
  BY <1>2
<1>4. \A y \in S : y <= x
  BY <1>3
<1> QED BY <1>4 DEF LargestOf

(* What follows a prefix continues it. *)
LEMMA PrefixGrows ==
  ASSUME NEW T, NEW seq \in Seq(T), NEW k \in 0..Len(seq), NEW n \in k..Len(seq)
  PROVE  SubSeq(seq, 1, k) \o SubSeq(seq, k + 1, n) = SubSeq(seq, 1, n)
<1>1. 1 \in 1..Len(seq) + 1 /\ k \in 1 - 1..Len(seq)
  OBVIOUS
<1> QED BY <1>1, ConcatAdjacentSubSeq, Zenon

(* What the assumption says of the source that is being read. *)
LEMMA SourceFacts ==
  ASSUME source \in Sources
  PROVE  /\ source \in Seq(Tokens) /\ Len(source) \in Nat \ {0}
         /\ \A i \in 1..Len(source) : source[i] \in Tokens
         /\ \A i \in 1..Len(source) : source[i].type = EOF <=> i = Len(source)
         /\ \A j \in Nat \ {0} : NextToken(j) \in Tokens /\ (NextToken(j).type = EOF <=> j >= Len(source))
<1>1. source \in Seq(Tokens) /\ Len(source) \in Nat \ {0}
  BY SourcesAssumption DEF SourcesAssumption, Tokens
<1>2. \A i \in 1..Len(source) : source[i] \in Tokens
  BY <1>1
<1>3. \A i \in 1..Len(source) : source[i].type = EOF <=> i = Len(source)
  BY SourcesAssumption DEF SourcesAssumption
<1> QED BY <1>1, <1>2, <1>3 DEF NextToken

(* A good stream has fetched a prefix: what it holds and what it has yet   *)
(* to fetch make up the source.                                            *)
LEMMA AllTokensIsSource ==
  ASSUME source \in Sources, NEW s, Good(s)
  PROVE  AllTokens(s) = source
<1> DEFINE n == Len(s.tokens)
<1>1. source \in Seq(Tokens) /\ s.tokens \in Seq(Tokens) /\ n \in 0..Len(source)
  BY SourceFacts DEF Good, Streams
<1>2. SubSeq(source, 1, Len(source)) = source
  BY <1>1, SubSeqFull
<1>3. CASE s.fetchedEOF
  <2>1. AllTokens(s) = s.tokens
    BY <1>1, <1>3 DEF AllTokens
  <2> QED BY <1>2, <1>3, <2>1 DEF Good
<1>4. CASE ~s.fetchedEOF
  <2>1. AllTokens(s) = SubSeq(source, 1, n) \o SubSeq(source, n + 1, Len(source))
    BY <1>4 DEF AllTokens, Good
  <2> HIDE DEF n
  <2>2. SubSeq(source, 1, n) \o SubSeq(source, n + 1, Len(source)) = SubSeq(source, 1, Len(source))
    <3>1. Len(source) \in n..Len(source)
      BY <1>1
    <3> QED BY <1>1, <3>1, PrefixGrows, Zenon
  <2> QED BY <1>2, <2>1, <2>2
<1> QED BY <1>3, <1>4

(* fetch(n) keeps the list a prefix of the source and the cursor where it  *)
(* is; unless the source fails it adds n tokens or all that is left.       *)
LEMMA FetchIsGood ==
  ASSUME source \in Sources, NEW s, Good(s), NEW n \in Nat \ {0}
  PROVE  /\ Good(Fetch(s, n))
         /\ Fetch(s, n).p = s.p
         /\ Len(s.tokens) <= Len(Fetch(s, n).tokens)
         /\ Fetch(s, n).thrown = "none" =>
              Len(Fetch(s, n).tokens) >= s.pos + n \/ Len(Fetch(s, n).tokens) = Len(source)
<1>1. CASE s.fetchedEOF
  BY <1>1 DEF Fetch, Good, Streams
<1>2. CASE ~s.fetchedEOF
  <2> DEFINE calls == s.pos + 1 .. s.pos + n
             ends  == {j \in calls : NextToken(j).type = EOF} \cup {s.pos + n}
             last  == SmallestOf(ends)
             bad   == {j \in s.pos + 1 .. last : j \in s.faults}
             stop  == IF bad = {} THEN last ELSE SmallestOf(bad) - 1
             new   == [j \in 1..(stop - s.pos) |-> NextToken(s.pos + j)]
             t     == Fetch(s, n)
  <2>1. /\ s.pos \in Nat /\ s.pos < Len(source) /\ Len(source) \in Nat
        /\ source \in Seq(Tokens) /\ s.tokens \in Seq(Tokens)
        /\ s.faults \subseteq Nat
    BY <1>2, SourceFacts DEF Good, Streams
  <2>2. last \in ends /\ \A j \in ends : last <= j
    <3>1. ends \in SUBSET Nat /\ ends # {}
      BY <2>1
    <3> HIDE DEF ends
    <3> QED BY <3>1, SmallestIsLeast
  <2>3. last \in s.pos + 1 .. Len(source) /\ last <= s.pos + n
    <3>1. CASE s.pos + n <= Len(source)
      BY <2>1, <2>2, <3>1
    <3>2. CASE s.pos + n > Len(source)
      <4>1. Len(source) \in ends
        BY <2>1, <3>2, SourceFacts
      <4> QED BY <2>1, <2>2, <4>1
    <3> QED BY <2>1, <3>1, <3>2
  <2>4. NextToken(last).type = EOF <=> last = Len(source)
    BY <2>1, <2>3, SourceFacts
  <2>5. last = s.pos + n \/ last = Len(source)
    BY <2>2, <2>4
  <2> HIDE DEF last
  <2>6. bad # {} => SmallestOf(bad) \in s.pos + 1 .. last
    <3>1. bad \in SUBSET Nat
      BY <2>1, <2>3
    <3>2. bad # {} => SmallestOf(bad) \in bad
      <4> HIDE DEF bad
      <4> QED BY <3>1, SmallestIsLeast
    <3> QED BY <3>2
  <2> DEFINE none == bad = {}
  <2>7. /\ none => stop = last
        /\ ~none => stop \in s.pos .. last - 1
    BY <2>1, <2>3, <2>6
  <2>8. t = [s EXCEPT !.tokens     = @ \o new,
                      !.pos        = stop,
                      !.fetchedEOF = none /\ NextToken(stop).type = EOF,
                      !.faults     = IF none THEN @ ELSE @ \ {SmallestOf(bad)},
                      !.thrown     = IF none THEN @ ELSE "source"]
    BY <1>2 DEF Fetch, last
  <2> HIDE DEF stop, none
  <2>9. stop \in s.pos .. Len(source)
    BY <2>1, <2>3, <2>7
  <2>10. new = SubSeq(source, s.pos + 1, stop)
    <3> DEFINE piece == SubSeq(source, s.pos + 1, stop)
    <3>1. \A j \in s.pos + 1 .. stop : source[j] \in Tokens
      BY <2>1, <2>9
    <3>2. /\ piece \in Seq(Tokens) /\ Len(piece) = stop - s.pos
          /\ \A j \in 1..(stop - s.pos) : piece[j] = source[s.pos + j]
      BY <2>1, <2>9, <3>1, SubSeqProperties
    <3>3. \A j \in 1..(stop - s.pos) : new[j] = source[s.pos + j]
      BY <2>1, <2>9 DEF NextToken
    <3> HIDE DEF piece
    <3>4. piece = [j \in 1..(stop - s.pos) |-> piece[j]]
      BY <3>2
    <3> HIDE DEF new
    <3>5. new = [j \in 1..(stop - s.pos) |-> new[j]]
      BY DEF new
    <3>6. new = piece
      BY <3>2, <3>3, <3>4, <3>5
    <3> QED BY <3>6 DEF piece
  <2>11. s.tokens \o new = SubSeq(source, 1, stop)
    <3>1. SubSeq(source, 1, s.pos) \o SubSeq(source, s.pos + 1, stop) = SubSeq(source, 1, stop)
      <4>1. s.pos \in 0..Len(source)
        BY <2>1
      <4> QED BY <2>1, <2>9, <4>1, PrefixGrows, Zenon
    <3> QED BY <2>10, <3>1 DEF Good
  <2>12. SubSeq(source, 1, stop) \in Seq(Tokens) /\ Len(SubSeq(source, 1, stop)) = stop
    BY <2>1, <2>9
  <2> HIDE DEF new, t
  <2>13. /\ t.tokens = SubSeq(source, 1, stop) /\ t.pos = stop /\ t.p = s.p
         /\ t.fetchedEOF <=> (none /\ NextToken(stop).type = EOF)
         /\ t.thrown = IF none THEN s.thrown ELSE "source"
    BY <2>8, <2>11 DEF Good, Streams
  <2>14. t \in Streams
    <3> DEFINE f == IF none THEN s.faults ELSE s.faults \ {SmallestOf(bad)}
               e == none /\ NextToken(stop).type = EOF
               h == IF none THEN s.thrown ELSE "source"
               l == s.tokens \o new
    <3>1. e \in BOOLEAN /\ f \in SUBSET Nat /\ stop \in Nat /\ l \in Seq(Tokens)
      BY <2>1, <2>9, <2>11, <2>12
    <3>2. h \in {"none", "source", "assert", "EOF", "range"}
      BY DEF Good, Streams
    <3>3. t = [s EXCEPT !.tokens = l, !.pos = stop, !.fetchedEOF = e, !.faults = f, !.thrown = h]
      BY <2>8 DEF Good, Streams
    <3> HIDE DEF f, e, h, l
    <3> QED BY <3>1, <3>2, <3>3 DEF Good, Streams
  <2>15. t.fetchedEOF <=> stop = Len(source)
    BY <2>1, <2>3, <2>4, <2>7, <2>13
  <2>16. Good(t)
    BY <2>1, <2>9, <2>12, <2>13, <2>14, <2>15 DEF Good
  <2>17. t.thrown = "none" => stop = last
    BY <2>7, <2>13
  <2>18. Len(t.tokens) = stop /\ Len(s.tokens) = s.pos
    BY <2>12, <2>13 DEF Good
  <2>19. s.pos <= stop
    BY <2>1, <2>9
  <2> QED BY <2>1, <2>3, <2>5, <2>13, <2>16, <2>17, <2>18, <2>19 DEF t
<1> QED BY <1>1, <1>2

(* sync(i) fetches token i if the source has it and does not fail. *)
LEMMA SyncIsGood ==
  ASSUME source \in Sources, NEW s, Good(s), NEW i \in Int
  PROVE  /\ Good(Sync(s, i))
         /\ Sync(s, i).p = s.p
         /\ Sync(s, i).thrown = "none" => s.thrown = "none" /\ i >= 0
         /\ Sync(s, i).thrown = "none" =>
              i < Len(Sync(s, i).tokens) \/ Len(Sync(s, i).tokens) = Len(source)
<1> DEFINE need == i - Len(s.tokens) + 1
<1>1. /\ s \in Streams /\ s.pos = Len(s.tokens) /\ Len(s.tokens) \in Nat
      /\ Len(source) \in Nat
  BY SourceFacts DEF Good, Streams
<1>2. CASE s.thrown # "none"
  BY <1>2 DEF Sync
<1>3. CASE s.thrown = "none" /\ i < 0
  <2>1. Sync(s, i) = [s EXCEPT !.thrown = "assert"]
    BY <1>3 DEF Sync
  <2>2. Sync(s, i).thrown = "assert"
    BY <1>1, <2>1 DEF Streams
  <2> QED BY <1>1, <2>1, <2>2 DEF Good, Streams
<1>4. CASE s.thrown = "none" /\ ~(i < 0) /\ need > 0
  <2>1. need \in Nat \ {0} /\ Sync(s, i) = Fetch(s, need)
    BY <1>1, <1>4 DEF Sync
  <2>2. s.pos + need = i + 1
    BY <1>1
  <2> HIDE DEF need
  <2>3. /\ Good(Fetch(s, need)) /\ Fetch(s, need).p = s.p
        /\ Fetch(s, need).thrown = "none" =>
             Len(Fetch(s, need).tokens) >= i + 1 \/ Len(Fetch(s, need).tokens) = Len(source)
    BY <2>1, <2>2, FetchIsGood
  <2>4. Len(Fetch(s, need).tokens) \in Nat
    BY <2>3 DEF Good, Streams
  <2> QED BY <1>1, <1>4, <2>1, <2>3, <2>4
<1>5. CASE s.thrown = "none" /\ ~(i < 0) /\ ~(need > 0)
  <2>1. Sync(s, i) = s
    BY <1>5 DEF Sync
  <2>2. ASSUME NEW l \in Nat, ~(i - l + 1 > 0) PROVE i < l
    BY <2>2
  <2>3. i < Len(s.tokens)
    BY <1>1, <1>5, <2>2
  <2> QED BY <1>5, <2>1, <2>3
<1> QED BY <1>2, <1>3, <1>4, <1>5

(* What a good stream holds is what the source delivers there. *)
LEMMA HeldIsSource ==
  ASSUME source \in Sources, NEW s, Good(s), NEW i \in 0 .. Len(s.tokens) - 1
  PROVE  s.tokens[i + 1] = source[i + 1] /\ i \in 0 .. Len(source) - 1
<1> DEFINE n == Len(s.tokens)
<1>1. source \in Seq(Tokens) /\ Len(source) \in Nat
  BY SourceFacts
<1>2. n \in Nat /\ n <= Len(source) /\ s.tokens = SubSeq(source, 1, n) /\ i + 1 \in 1..n
  BY DEF Good, Streams
<1> HIDE DEF n
<1>3. SubSeq(source, 1, n)[i + 1] = source[i + 1]
  BY <1>1, <1>2
<1> QED BY <1>1, <1>2, <1>3

(* nextTokenOnChannel stays inside the source and returns a token of the   *)
(* channel, or EOF, at or after the index it is given.                     *)
LEMMA NextTokenIsOnChannel ==
  ASSUME source \in Sources, NEW s, Good(s), NEW i \in Int, NEW channel
  PROVE  /\ NextTokenOnChannel(s, i, channel) \in 0..Len(source) - 1
         /\ OnChannel(source[NextTokenOnChannel(s, i, channel) + 1], channel)
         /\ i < Len(source) => i <= NextTokenOnChannel(s, i, channel)
<1> DEFINE n    == NextTokenOnChannel(s, i, channel)
           good == {j \in 0..Len(source) - 1 : j >= i /\ OnChannel(source[j + 1], channel)}
<1>1. Len(source) \in Nat \ {0}
  BY SourceFacts
<1>2. n = IF good = {} THEN Len(source) - 1 ELSE SmallestOf(good)
  <2>1. AllTokens(s) = source
    BY AllTokensIsSource
  <2> QED BY <2>1 DEF NextTokenOnChannel
<1>3. good \in SUBSET Nat
  BY <1>1
<1>4. OnChannel(source[Len(source)], channel)
  BY <1>1, SourceFacts DEF OnChannel
<1>5. i < Len(source) => Len(source) - 1 \in good
  <2>1. (Len(source) - 1) + 1 = Len(source)
    BY <1>1
  <2> QED BY <1>1, <1>4, <2>1
<1>6. CASE good = {}
  <2>1. n = Len(source) - 1
    BY <1>2, <1>6
  <2>2. n + 1 = Len(source) /\ n \in 0..Len(source) - 1 /\ ~(i < Len(source))
    BY <1>1, <1>5, <1>6, <2>1
  <2> QED BY <1>4, <2>2
<1>7. CASE good # {}
  <2>1. n = SmallestOf(good)
    BY <1>2, <1>7
  <2>2. n \in good
    <3> HIDE DEF good
    <3> QED BY <1>3, <1>7, <2>1, SmallestIsLeast
  <2>3. n \in 0..Len(source) - 1 /\ n >= i /\ OnChannel(source[n + 1], channel)
    BY <2>2
  <2>4. n \in Int
    BY <1>1, <2>3
  <2> QED BY <2>3, <2>4
<1> QED BY <1>6, <1>7

(* p = adjustSeekIndex(i), from wherever a method stands. *)
LEMMA MoveToIsGood ==
  ASSUME source \in Sources, NEW s, Good(s), NEW i \in Int
  PROVE  /\ Good(MoveTo(s, i))
         /\ Filtering /\ MoveTo(s, i).thrown = "none" => MoveTo(s, i).p # Unset
<1> DEFINE n == NextTokenOnChannel(s, i, Channel)
           t == SyncToChannel(s, i, Channel)
           m == IF i < 0 THEN i ELSE n
<1>1. n \in 0..Len(source) - 1 /\ OnChannel(source[n + 1], Channel)
  BY NextTokenIsOnChannel
<1>2. Len(source) \in Nat
  BY SourceFacts
<1>3. CASE s.thrown # "none"
  BY <1>3 DEF MoveTo
<1>4. CASE s.thrown = "none" /\ ~Filtering
  BY <1>4 DEF MoveTo, Good, Streams
<1>5. CASE s.thrown = "none" /\ Filtering
  <2>1. t = Sync(s, m)
    BY DEF SyncToChannel
  <2> HIDE DEF n
  <2>2. m \in Int
    BY <1>1, <1>2
  <2> HIDE DEF t, m
  <2>3. /\ Good(t)
        /\ t.thrown = "none" => m >= 0 /\ (m < Len(t.tokens) \/ Len(t.tokens) = Len(source))
    BY <2>1, <2>2, SyncIsGood
  <2>4. CASE t.thrown # "none"
    BY <1>5, <2>3, <2>4 DEF MoveTo, t
  <2>5. CASE t.thrown = "none"
    <3>1. m = n
      BY <2>3, <2>5 DEF m
    <3>2. n \in 0..Len(t.tokens) - 1
      BY <1>1, <1>2, <2>3, <2>5, <3>1 DEF Good, Streams
    <3>3. MoveTo(s, i) = [t EXCEPT !.p = n]
      BY <1>5, <2>5 DEF MoveTo, t, n
    <3>4. n \in Int
      BY <1>1, <1>2
    <3> HIDE DEF n
    <3> DEFINE u == [t EXCEPT !.p = n]
    <3>5. u \in Streams
      BY <2>3, <3>4 DEF Good, Streams
    <3>6. /\ u.pos = t.pos /\ u.tokens = t.tokens /\ u.fetchedEOF = t.fetchedEOF /\ u.p = n
      BY <2>3 DEF Good, Streams
    <3> HIDE DEF u
    <3>7. Good(u)
      BY <1>1, <2>3, <3>2, <3>5, <3>6 DEF Good
    <3>8. u.p # Unset
      BY <1>1, <3>6 DEF n, Unset
    <3> QED BY <3>3, <3>7, <3>8 DEF u
  <2> QED BY <2>4, <2>5
<1> QED BY <1>3, <1>4, <1>5

LEMMA LazyInitIsGood ==
  ASSUME source \in Sources, NEW s, Good(s)
  PROVE  /\ Good(LazyInit(s))
         /\ Filtering /\ LazyInit(s).thrown = "none" => LazyInit(s).p # Unset
<1>1. Good(Sync(s, 0))
  BY SyncIsGood
<1>2. /\ Good(MoveTo(Sync(s, 0), 0))
      /\ Filtering /\ MoveTo(Sync(s, 0), 0).thrown = "none" => MoveTo(Sync(s, 0), 0).p # Unset
  BY <1>1, MoveToIsGood
<1> QED BY <1>2 DEF LazyInit

LEMMA SyncToChannelIsGood ==
  ASSUME source \in Sources, NEW s, Good(s), NEW i \in Int, NEW channel
  PROVE  LET t == SyncToChannel(s, i, channel)
         IN /\ Good(t)
            /\ t.thrown = "none" => /\ s.thrown = "none"
                                    /\ NextTokenOnChannel(t, i, channel) < Len(t.tokens)
<1> DEFINE n == NextTokenOnChannel(s, i, channel)
           m == IF i < 0 THEN i ELSE n
           t == SyncToChannel(s, i, channel)
<1>1. n \in 0..Len(source) - 1 /\ Len(source) \in Nat
  BY NextTokenIsOnChannel, SourceFacts
<1>2. t = Sync(s, m)
  BY DEF SyncToChannel
<1> HIDE DEF n
<1>3. m \in Int
  BY <1>1
<1> HIDE DEF m, t
<1>4. /\ Good(t)
      /\ t.thrown = "none" => /\ s.thrown = "none" /\ m >= 0
                              /\ m < Len(t.tokens) \/ Len(t.tokens) = Len(source)
  BY <1>2, <1>3, SyncIsGood
<1>5. NextTokenOnChannel(t, i, channel) = n
  <2>1. AllTokens(t) = source /\ AllTokens(s) = source
    BY <1>4, AllTokensIsSource
  <2> QED BY <2>1 DEF NextTokenOnChannel, n
<1>6. t.thrown = "none" => m = n
  BY <1>4 DEF m
<1> QED BY <1>1, <1>4, <1>5, <1>6 DEF t

LEMMA SyncAheadIsGood ==
  ASSUME source \in Sources, NEW s, Good(s), NEW k \in Nat \ {0}
  PROVE  Good(SyncAhead(s, k)) /\ SyncAhead(s, k).p = s.p
<1>1. s.p \in Int /\ Len(source) \in Nat \ {0} /\ (Filtering => s.p + 1 \in Nat)
  BY SourceFacts DEF Good, Streams, Unset
<1>2. CASE s.thrown # "none" \/ (Filtering /\ k = 1)
  BY <1>2 DEF SyncAhead
<1>3. CASE s.thrown = "none" /\ ~Filtering
  <2>1. s.p + k - 1 \in Int
    BY <1>1
  <2> QED BY <1>3, <2>1, SyncIsGood DEF SyncAhead
<1>4. CASE s.thrown = "none" /\ Filtering /\ k # 1
  <2> DEFINE after == {j \in s.p + 1 .. Len(source) - 1 : OnChannel(source[j + 1], Channel)}
             hit   == {j \in after : Cardinality({m \in after : m <= j}) = k - 1}
  <2>1. SymbolAhead(s, k) = IF hit = {} THEN Len(source) - 1 ELSE SmallestOf(hit)
    <3>1. AllTokens(s) = source
      BY AllTokensIsSource
    <3> QED BY <1>4, <3>1 DEF SymbolAhead
  <2>2. hit \in SUBSET Nat
    BY <1>1, <1>4
  <2> HIDE DEF hit
  <2>3. hit # {} => SmallestOf(hit) \in hit
    BY <2>2, SmallestIsLeast
  <2>4. SymbolAhead(s, k) \in Int
    <3>1. CASE hit = {}
      BY <1>1, <2>1, <3>1
    <3>2. CASE hit # {}
      <4>1. SmallestOf(hit) \in Nat
        BY <2>2, <2>3, <3>2
      <4> QED BY <2>1, <3>2, <4>1
    <3> QED BY <3>1, <3>2
  <2>5. SyncAhead(s, k) = Sync(s, SymbolAhead(s, k))
    BY <1>4 DEF SyncAhead
  <2> QED BY <2>4, <2>5, SyncIsGood
<1> QED BY <1>2, <1>3, <1>4

(* An exception that a method throws itself. *)
LEMMA ThrowIsGood ==
  ASSUME NEW s, Good(s), NEW e \in {"none", "source", "assert", "EOF", "range"}
  PROVE  Good([s EXCEPT !.thrown = e]) /\ [s EXCEPT !.thrown = e].thrown = e
BY DEF Good, Streams

LEMMA ConsumedIsGood ==
  ASSUME source \in Sources, NEW s, Good(s)
  PROVE  Good(Consumed(s))
<1> DEFINE skip(last) == s.p >= 0 /\ s.p < last
           ready == SyncAhead(LazyInit(s), 1)
<1>1. Good(ready)
  BY LazyInitIsGood, SyncAheadIsGood
<1>2. ASSUME NEW seen, Good(seen)
      PROVE  /\ Good([seen EXCEPT !.thrown = "EOF"])
             /\ Good(Sync(seen, seen.p + 1))
             /\ Good(MoveTo(Sync(seen, seen.p + 1), seen.p + 1))
  <2>1. seen.p + 1 \in Int
    BY <1>2 DEF Good, Streams
  <2>2. Good(Sync(seen, seen.p + 1))
    BY <1>2, <2>1, SyncIsGood
  <2> QED BY <1>2, <2>1, <2>2, MoveToIsGood, ThrowIsGood
<1> HIDE DEF ready
<1> QED BY <1>1, <1>2 DEF Consumed, ready

LEMMA FilledIsGood ==
  ASSUME source \in Sources, NEW s, Good(s)
  PROVE  Good(Filled(s))
<1> DEFINE t == LazyInit(s)
<1>1. Good(t)
  BY LazyInitIsGood
<1> HIDE DEF t
<1>2. Len(source) - t.pos + 1 \in Nat \ {0}
  BY <1>1, SourceFacts DEF Good, Streams
<1>3. Good(Fetch(t, Len(source) - t.pos + 1))
  BY <1>1, <1>2, FetchIsGood
<1> QED BY <1>1, <1>3 DEF Filled, t

-----------------------------------------------------------------------------
(* Every token a call returns is in the list. *)

Listed(s, tokens) == s.thrown = "none" => tokens \subseteq 0 .. Len(s.tokens) - 1

LEMMA AheadIsListed ==
  ASSUME source \in Sources, NEW s, Good(s), NEW k \in Nat \ {0},
         Filtering /\ s.thrown = "none" => s.p # Unset
  PROVE  LET t == SyncAhead(s, k) IN Listed(t, {TokenAhead(t, k)})
<1> DEFINE t == SyncAhead(s, k)
<1>1. Good(t) /\ t.p = s.p
  BY SyncAheadIsGood
<1> SUFFICES ASSUME t.thrown = "none" PROVE TokenAhead(t, k) \in 0 .. Len(t.tokens) - 1
  BY DEF Listed
<1>2. s.thrown = "none"
  BY DEF SyncAhead
<1>3. /\ s.p \in Int /\ Len(source) \in Nat \ {0} /\ (Filtering => s.p + 1 \in Nat)
      /\ Len(t.tokens) \in Nat
  BY <1>1, SourceFacts DEF Good, Streams, Unset
<1>4. CASE Filtering /\ k = 1
  <2>1. t = s /\ TokenAhead(t, k) = s.p
    BY <1>2, <1>4 DEF SyncAhead, TokenAhead, SymbolAhead
  <2> QED BY <1>2, <1>4, <2>1 DEF Good
<1>5. CASE Filtering /\ k # 1
  <2> DEFINE n == SymbolAhead(s, k)
             after == {j \in s.p + 1 .. Len(source) - 1 : OnChannel(source[j + 1], Channel)}
             hit   == {j \in after : Cardinality({m \in after : m <= j}) = k - 1}
  <2>1. AllTokens(s) = source /\ AllTokens(t) = source
    BY <1>1, AllTokensIsSource
  <2>2. n = IF hit = {} THEN Len(source) - 1 ELSE SmallestOf(hit)
    BY <1>5, <2>1 DEF SymbolAhead
  <2>3. SymbolAhead(t, k) = n
    BY <1>1, <2>1 DEF SymbolAhead
  <2>4. n \in Int /\ n < Len(source)
    <3>1. hit \in SUBSET Nat
      BY <1>3, <1>5
    <3>2. hit # {} => SmallestOf(hit) \in hit
      <4> HIDE DEF hit
      <4> QED BY <3>1, SmallestIsLeast
    <3>3. CASE hit = {}
      BY <1>3, <2>2, <3>3
    <3>4. CASE hit # {}
      <4>1. SmallestOf(hit) \in s.p + 1 .. Len(source) - 1
        BY <3>2, <3>4
      <4>2. SmallestOf(hit) \in Int /\ SmallestOf(hit) < Len(source)
        BY <1>3, <4>1
      <4> HIDE DEF hit, n
      <4> QED BY <2>2, <3>4, <4>2
    <3> QED BY <3>3, <3>4
  <2> HIDE DEF n
  <2>5. t = Sync(s, n)
    BY <1>2, <1>5 DEF SyncAhead, n
  <2>6. n >= 0 /\ (n < Len(t.tokens) \/ Len(t.tokens) = Len(source))
    <3> HIDE DEF t
    <3> QED BY <2>4, <2>5, SyncIsGood
  <2>7. TokenAhead(t, k) = n
    BY <1>5, <2>3 DEF TokenAhead
  <2> HIDE DEF t
  <2> QED BY <1>3, <2>4, <2>6, <2>7
<1>6. CASE ~Filtering
  <2> DEFINE i == s.p + k - 1
  <2>1. t = Sync(s, i) /\ i \in Int
    BY <1>2, <1>3, <1>6 DEF SyncAhead
  <2>2. i >= 0 /\ (i < Len(t.tokens) \/ Len(t.tokens) = Len(source))
    <3> HIDE DEF t, i
    <3> QED BY <2>1, SyncIsGood
  <2>3. TokenAhead(t, k) = IF i >= Len(t.tokens) THEN Len(t.tokens) - 1 ELSE i
    BY <1>1, <1>6 DEF TokenAhead
  <2> HIDE DEF t, i
  <2> QED BY <1>3, <2>1, <2>2, <2>3
<1> QED BY <1>4, <1>5, <1>6

LEMMA BehindIsListed ==
  ASSUME source \in Sources, NEW s, Good(s), NEW k \in Nat \ {0}
  PROVE  Listed(s, Found(TokenBehind(s, k)))
<1> DEFINE before == {j \in 0 .. s.p - 1 : OnChannel(s.tokens[j + 1], Channel)}
           hit    == {j \in before : Cardinality({m \in before : m >= j}) = k}
           n      == TokenBehind(s, k)
<1>1. s.p \in Int /\ Len(s.tokens) \in Nat
  BY DEF Good, Streams
<1>2. n # NoToken => n \in 0 .. Len(s.tokens) - 1
  <2>1. CASE s.p - k < 0
    BY <2>1 DEF TokenBehind
  <2>2. CASE ~(s.p - k < 0) /\ ~Filtering
    BY <1>1, <2>2 DEF TokenBehind
  <2>3. CASE ~(s.p - k < 0) /\ Filtering
    <3>1. s.p <= Len(s.tokens) - 1
      BY <1>1, <2>3 DEF Good, Unset
    <3>2. before \subseteq 0 .. Len(s.tokens) - 1
      BY <1>1, <3>1
    <3>3. n = IF hit # {} THEN SmallestOf(hit) ELSE IF 0 \in before THEN 0 ELSE NoToken
      BY <2>3 DEF TokenBehind
    <3>4. hit # {} => SmallestOf(hit) \in before
      <4>1. hit \in SUBSET Nat
        BY <1>1
      <4>2. hit # {} => SmallestOf(hit) \in hit
        <5> HIDE DEF hit
        <5> QED BY <4>1, SmallestIsLeast
      <4> QED BY <4>2
    <3> HIDE DEF hit, before, n
    <3> QED BY <3>2, <3>3, <3>4
  <2> QED BY <2>1, <2>2, <2>3
<1> QED BY <1>2 DEF Found, Listed

LEMMA BeforeEOFIsListed ==
  ASSUME NEW s, Good(s), NEW to \in Int
  PROVE  Listed(s, BeforeEOF(s, 0, to))
<1>1. Len(s.tokens) \in Nat
  BY DEF Good, Streams
<1> QED BY <1>1 DEF BeforeEOF, Listed

LEMMA RightIsListed ==
  ASSUME source \in Sources, NEW s, Good(s), NEW i \in Int, ~OutOfRange(s, i), NEW channel
  PROVE  LET t == SyncToChannel(s, i + 1, DefaultChannel)
         IN Listed(t, FilterForChannel(t, i + 1, NextTokenOnChannel(t, i + 1, DefaultChannel), channel))
<1> DEFINE t == SyncToChannel(s, i + 1, DefaultChannel)
           n == NextTokenOnChannel(t, i + 1, DefaultChannel)
<1>1. /\ Good(t)
      /\ t.thrown = "none" => s.thrown = "none" /\ n < Len(t.tokens)
  BY SyncToChannelIsGood
<1>2. n \in Int
  BY <1>1, NextTokenIsOnChannel, SourceFacts
<1> HIDE DEF t, n
<1>3. ASSUME t.thrown = "none"
      PROVE  FilterForChannel(t, i + 1, n, channel) \subseteq 0 .. Len(t.tokens) - 1
  <2>1. i >= 0 /\ n < Len(t.tokens) /\ Len(t.tokens) \in Nat
    BY <1>1, <1>3 DEF OutOfRange, Good, Streams
  <2>2. FilterForChannel(t, i + 1, n, channel) \subseteq i + 1 .. n
    BY DEF FilterForChannel
  <2> QED BY <1>2, <2>1, <2>2
<1> QED BY <1>3 DEF Listed, t, n

LEMMA LeftIsListed ==
  ASSUME NEW s, Good(s), NEW i \in Int, ~OutOfRange(s, i), i # 0, NEW channel
  PROVE  Listed(s, FilterForChannel(s, PreviousTokenOnChannel(s, i - 1, DefaultChannel) + 1, i - 1, channel))
<1> DEFINE prev == PreviousTokenOnChannel(s, i - 1, DefaultChannel)
           good == {j \in 0..i - 1 : OnChannel(s.tokens[j + 1], DefaultChannel)}
<1> SUFFICES ASSUME s.thrown = "none"
             PROVE  FilterForChannel(s, prev + 1, i - 1, channel) \subseteq 0 .. Len(s.tokens) - 1
  BY DEF Listed
<1>1. Len(s.tokens) \in Nat /\ i - 1 \in Nat /\ i - 1 < Len(s.tokens)
  BY DEF Good, Streams, OutOfRange
<1>2. prev = IF good = {} THEN -1 ELSE LargestOf(good)
  BY <1>1 DEF PreviousTokenOnChannel
<1>3. good \in SUBSET (0..i - 1)
  OBVIOUS
<1> HIDE DEF prev, good
<1>4. prev + 1 \in Nat
  <2>1. CASE good = {}
    BY <1>2, <2>1
  <2>2. CASE good # {}
    <3>1. LargestOf(good) \in 0..i - 1
      BY <1>1, <1>3, <2>2, LargestIsThere
    <3> QED BY <1>1, <1>2, <2>2, <3>1
  <2> QED BY <2>1, <2>2
<1>5. FilterForChannel(s, prev + 1, i - 1, channel) \subseteq prev + 1 .. i - 1
  BY DEF FilterForChannel
<1> QED BY <1>1, <1>4, <1>5

-----------------------------------------------------------------------------
(* The inductive invariant and the steps. *)

Inv ==
  /\ source \in Sources
  /\ Good(stream) /\ stream.thrown = "none"
  /\ answer.tokens \subseteq 0 .. Len(stream.tokens) - 1

LEMMA FreshFacts ==
  ASSUME NEW src \in Sources, NEW f \in FaultSets(src)
  PROVE  /\ Fresh(f) \in Streams /\ Fresh(f).thrown = "none"
         /\ Len(src) \in Nat \ {0} /\ <<>> = SubSeq(src, 1, 0)
<1>1. Len(src) \in Nat \ {0} /\ src \in Seq(Tokens)
  BY SourcesAssumption DEF SourcesAssumption, Tokens
<1>2. f \in SUBSET Nat
  BY <1>1 DEF FaultSets
<1> QED BY <1>1, <1>2 DEF Fresh, Streams, Unset

LEMMA FinishKeepsInv ==
  ASSUME source \in Sources, NEW s, Good(s), NEW call, NEW arg, NEW channel, NEW tokens,
         Listed(s, tokens), FinishOn(s, call, arg, channel, tokens)
  PROVE  Inv'
<1>1. /\ source' = source /\ stream' = [s EXCEPT !.thrown = "none"]
      /\ answer'.tokens = IF s.thrown = "none" THEN tokens ELSE {}
  BY DEF FinishOn
<1>2. Good([s EXCEPT !.thrown = "none"]) /\ [s EXCEPT !.thrown = "none"].thrown = "none"
  BY ThrowIsGood
<1>3. stream'.tokens = s.tokens
  BY <1>1 DEF Good, Streams
<1> QED BY <1>1, <1>2, <1>3 DEF Inv, Good, Listed

LEMMA InitGivesInv == Init => Inv
<1> SUFFICES ASSUME Init PROVE Inv
  OBVIOUS
<1>1. source \in Sources /\ answer.tokens = {} /\ \E f \in FaultSets(source) : stream = Fresh(f)
  BY DEF Init
<1>2. PICK f \in FaultSets(source) : stream = Fresh(f)
  BY <1>1
<1> QED BY <1>1, <1>2, FreshFacts DEF Inv, Good, Fresh, Unset

LEMMA NextKeepsInv == Inv /\ [Next]_vars => Inv'
<1> SUFFICES ASSUME Inv, [Next]_vars PROVE Inv'
  OBVIOUS
<1>1. /\ source \in Sources /\ Good(Start) /\ Good(LazyInit(Start))
      /\ Filtering /\ LazyInit(Start).thrown = "none" => LazyInit(Start).p # Unset
      /\ \A s : Listed(s, {})
  BY ThrowIsGood, LazyInitIsGood DEF Inv, Start, Listed
<1>2. CASE Consume
  BY <1>1, <1>2, ConsumedIsGood, FinishKeepsInv DEF Consume, Finish
<1>3. ASSUME NEW i \in SeekTargets, Seek(i) PROVE Inv'
  <2>1. i \in Int
    BY SourcesAssumption DEF SourcesAssumption
  <2>2. Good(MoveTo(LazyInit(Start), i))
    BY <1>1, <2>1, MoveToIsGood
  <2> QED BY <1>1, <1>3, <2>2, FinishKeepsInv DEF Seek, Finish
<1>4. ASSUME NEW k \in Lookaheads, LookAhead(k) PROVE Inv'
  <2>1. k \in Nat \ {0}
    BY SourcesAssumption DEF SourcesAssumption
  <2> DEFINE s == SyncAhead(LazyInit(Start), k)
  <2>2. Good(s) /\ Listed(s, {TokenAhead(s, k)})
    BY <1>1, <2>1, SyncAheadIsGood, AheadIsListed
  <2>3. Listed(s, IF s.thrown = "none" THEN {TokenAhead(s, k)} ELSE {})
    BY <2>2 DEF Listed
  <2> QED BY <1>1, <1>4, <2>2, <2>3, FinishKeepsInv DEF LookAhead, Finish
<1>5. ASSUME NEW k \in Lookaheads, LookBehind(k) PROVE Inv'
  <2> DEFINE s == LazyInit(Start)
  <2>1. k \in Nat \ {0}
    BY SourcesAssumption DEF SourcesAssumption
  <2>2. Listed(s, IF s.thrown = "none" THEN Found(TokenBehind(s, k)) ELSE {})
    BY <1>1, <2>1, BehindIsListed DEF Listed
  <2> QED BY <1>1, <1>5, <2>2, FinishKeepsInv DEF LookBehind, Finish
<1>6. CASE Fill
  BY <1>1, <1>6, FilledIsGood, FinishKeepsInv DEF Fill, Finish
<1>7. CASE GetText
  <2> DEFINE to == Len(stream.tokens) - 1
             s  == IF to < 0 THEN Start ELSE Filled(Start)
  <2>1. to \in Int
    BY DEF Inv, Good, Streams
  <2>2. Good(s)
    BY <1>1, FilledIsGood
  <2>3. Listed(s, BeforeEOF(s, 0, to))
    BY <2>1, <2>2, BeforeEOFIsListed
  <2> QED BY <1>1, <1>7, <2>2, <2>3, FinishKeepsInv DEF GetText, Finish
<1>8. ASSUME NEW to \in SeekTargets, GetRange(0, to) PROVE Inv'
  <2> DEFINE s == IF 0 < 0 \/ to < 0 THEN Start ELSE LazyInit(Start)
             tokens == IF 0 < 0 \/ to < 0 THEN {} ELSE BeforeEOF(s, 0, to)
  <2>1. to \in Int
    BY SourcesAssumption DEF SourcesAssumption
  <2>2. Good(s)
    BY <1>1
  <2>3. Listed(s, tokens)
    BY <1>1, <2>1, <2>2, BeforeEOFIsListed
  <2>4. Finish(s, "getRange", 0, tokens)
    BY <1>8 DEF GetRange
  <2> QED BY <1>1, <2>2, <2>3, <2>4, FinishKeepsInv DEF Finish
<1>9. ASSUME NEW i \in SeekTargets, NEW channel, GetHiddenTokensToRight(i, channel) PROVE Inv'
  <2> DEFINE s == LazyInit(Start)
             t == SyncToChannel(s, i + 1, DefaultChannel)
             r == [s EXCEPT !.thrown = "range"]
             tokens == FilterForChannel(t, i + 1, NextTokenOnChannel(t, i + 1, DefaultChannel), channel)
  <2>1. i \in Int /\ i + 1 \in Int
    BY SourcesAssumption DEF SourcesAssumption
  <2>2. Good(t) /\ Good(r)
    BY <1>1, <2>1, SyncToChannelIsGood, ThrowIsGood
  <2>3. CASE OutOfRange(s, i)
    <3>1. FinishOn(r, "getHiddenTokensToRight", i, channel, {})
      BY <1>9, <2>3 DEF GetHiddenTokensToRight
    <3> QED BY <1>1, <2>2, <3>1, FinishKeepsInv
  <2>4. CASE ~OutOfRange(s, i)
    <3>1. Listed(t, tokens)
      BY <1>1, <2>1, <2>4, RightIsListed
    <3>2. Listed(t, IF t.thrown # "none" THEN {} ELSE tokens)
      BY <3>1 DEF Listed
    <3>3. FinishOn(t, "getHiddenTokensToRight", i, channel,
                   IF t.thrown # "none" THEN {} ELSE tokens)
      BY <1>9, <2>4 DEF GetHiddenTokensToRight
    <3> QED BY <1>1, <2>2, <3>2, <3>3, FinishKeepsInv
  <2> QED BY <2>3, <2>4
<1>10. ASSUME NEW i \in SeekTargets, NEW channel, GetHiddenTokensToLeft(i, channel) PROVE Inv'
  <2> DEFINE s == LazyInit(Start)
             r == [s EXCEPT !.thrown = "range"]
             prev == PreviousTokenOnChannel(s, i - 1, DefaultChannel)
             tokens == IF s.thrown # "none" \/ i = 0 THEN {}
                       ELSE FilterForChannel(s, prev + 1, i - 1, channel)
  <2>1. i \in Int
    BY SourcesAssumption DEF SourcesAssumption
  <2>2. CASE OutOfRange(s, i)
    <3>1. FinishOn(r, "getHiddenTokensToLeft", i, channel, {})
      BY <1>10, <2>2 DEF GetHiddenTokensToLeft
    <3>2. Good(r)
      BY <1>1, ThrowIsGood
    <3> QED BY <1>1, <3>1, <3>2, FinishKeepsInv
  <2>3. CASE ~OutOfRange(s, i)
    <3>1. Listed(s, tokens)
      BY <1>1, <2>1, <2>3, LeftIsListed
    <3>2. FinishOn(s, "getHiddenTokensToLeft", i, channel, tokens)
      BY <1>10, <2>3 DEF GetHiddenTokensToLeft
    <3> QED BY <1>1, <3>1, <3>2, FinishKeepsInv
  <2> QED BY <2>2, <2>3
<1>11. CASE GetNumberOfOnChannelTokens
  <2> DEFINE s == Filled(Start)
             counted == {i \in 0 .. Len(s.tokens) - 1 : s.tokens[i + 1].channel = Channel}
  <2>1. Good(s) /\ Listed(s, counted)
    BY <1>1, FilledIsGood DEF Listed
  <2>2. Finish(s, "getNumberOfOnChannelTokens", 0, counted)
    BY <1>11 DEF GetNumberOfOnChannelTokens
  <2> QED BY <1>1, <2>1, <2>2, FinishKeepsInv DEF Finish
<1>12. CASE SetTokenSource
  <2>1. /\ source' \in Sources /\ answer'.tokens = {}
        /\ \E f \in FaultSets(source') : stream' = Fresh(f)
    BY <1>12 DEF SetTokenSource
  <2>2. PICK f \in FaultSets(source') : stream' = Fresh(f)
    BY <2>1
  <2> QED BY <2>1, <2>2, FreshFacts DEF Inv, Good, Fresh, Unset
<1>13. CASE UNCHANGED vars
  BY <1>13 DEF vars, Inv, Good
<1> QED BY <1>2, <1>3, <1>4, <1>5, <1>6, <1>7, <1>8, <1>9, <1>10, <1>11, <1>12, <1>13 DEF Next

-----------------------------------------------------------------------------
(* Hidden tokens. *)

(* The token EOF and those of the default channel are not hidden. *)
LEMMA SymbolsAreNotHidden ==
  ASSUME source \in Sources, NEW i \in 0 .. Len(source) - 1,
         OnChannel(source[i + 1], DefaultChannel), NEW channel \in {AnyHidden, Channel + 1}
  PROVE  ~Wanted(source[i + 1], channel)
<1>1. source[i + 1].channel = DefaultChannel
  <2>1. CASE source[i + 1].type = EOF
    <3>1. i + 1 = Len(source)
      BY <2>1, SourceFacts
    <3> QED BY <3>1, SourcesAssumption DEF SourcesAssumption
  <2>2. CASE source[i + 1].channel = DefaultChannel
    BY <2>2
  <2> QED BY <2>1, <2>2 DEF OnChannel
<1>2. Channel + 1 # DefaultChannel /\ Channel + 1 # AnyHidden
  BY SourcesAssumption DEF SourcesAssumption, DefaultChannel, AnyHidden
<1> QED BY <1>1, <1>2 DEF Wanted

Asked(run, channel) == {j \in run : Wanted(source[j + 1], channel)}

LEMMA RightRunIsWhole ==
  ASSUME source \in Sources, NEW s, Good(s), NEW i \in Int, ~OutOfRange(s, i),
         NEW channel \in {AnyHidden, Channel + 1}
  PROVE  LET t == SyncToChannel(s, i + 1, DefaultChannel)
         IN t.thrown = "none" =>
              FilterForChannel(t, i + 1, NextTokenOnChannel(t, i + 1, DefaultChannel), channel)
                = Asked(HiddenRight(i), channel)
<1> DEFINE t    == SyncToChannel(s, i + 1, DefaultChannel)
           n    == NextTokenOnChannel(t, i + 1, DefaultChannel)
           good == {j \in 0..Len(source) - 1 : j >= i + 1 /\ OnChannel(source[j + 1], DefaultChannel)}
<1> SUFFICES ASSUME t.thrown = "none"
             PROVE  FilterForChannel(t, i + 1, n, channel) = Asked(HiddenRight(i), channel)
  OBVIOUS
<1>1. Good(t) /\ s.thrown = "none" /\ n < Len(t.tokens)
  BY SyncToChannelIsGood
<1>2. i \in 0 .. Len(source) - 1 /\ Len(source) \in Nat /\ Len(t.tokens) \in Nat
  BY <1>1, SourceFacts DEF OutOfRange, Good, Streams
<1>3. n \in 0..Len(source) - 1 /\ OnChannel(source[n + 1], DefaultChannel) /\ i <= n
  <2>1. /\ n \in 0..Len(source) - 1 /\ OnChannel(source[n + 1], DefaultChannel)
        /\ i + 1 < Len(source) => i + 1 <= n
        /\ n = IF good = {} THEN Len(source) - 1 ELSE SmallestOf(good)
    <3>1. AllTokens(t) = source
      BY <1>1, AllTokensIsSource
    <3> HIDE DEF t
    <3>2. i + 1 \in Int
      OBVIOUS
    <3>3. n = IF good = {} THEN Len(source) - 1 ELSE SmallestOf(good)
      BY <3>1 DEF NextTokenOnChannel
    <3> QED BY <1>1, <3>2, <3>3, NextTokenIsOnChannel
  <2>2. CASE i + 1 < Len(source)
    BY <1>2, <2>1, <2>2
  <2>3. CASE ~(i + 1 < Len(source))
    <3>1. good = {}
      BY <1>2, <2>3
    <3>2. n = Len(source) - 1
      BY <2>1, <3>1
    <3> HIDE DEF n
    <3> QED BY <1>2, <2>1, <3>2
  <2> QED BY <2>2, <2>3
<1>4. \A m \in i + 1 .. n - 1 : ~OnChannel(source[m + 1], DefaultChannel)
  <2>1. n = IF good = {} THEN Len(source) - 1 ELSE SmallestOf(good)
    <3>1. AllTokens(t) = source
      BY <1>1, AllTokensIsSource
    <3> HIDE DEF t
    <3> QED BY <3>1 DEF NextTokenOnChannel
  <2>2. good \in SUBSET Nat
    BY <1>2
  <2>3. \A m \in good : n <= m
    <3>1. CASE good = {}
      BY <3>1
    <3>2. CASE good # {}
      <4> HIDE DEF good, n
      <4> QED BY <2>1, <2>2, <3>2, SmallestIsLeast
    <3> QED BY <3>1, <3>2
  <2> HIDE DEF n
  <2> QED BY <1>2, <1>3, <2>3
<1> HIDE DEF t, n
<1>5. \A j \in i + 1 .. n : t.tokens[j + 1] = source[j + 1]
  <2>1. \A j \in i + 1 .. n : j \in 0 .. Len(t.tokens) - 1
    BY <1>1, <1>2, <1>3
  <2> QED BY <1>1, <2>1, HeldIsSource
<1>6. FilterForChannel(t, i + 1, n, channel) = {j \in i + 1 .. n : Wanted(source[j + 1], channel)}
  BY <1>5 DEF FilterForChannel
<1>7. ~Wanted(source[n + 1], channel)
  BY <1>3, SymbolsAreNotHidden
<1>8. ASSUME NEW j, Wanted(source[j + 1], channel)
      PROVE  j \in i + 1 .. n <=> j \in HiddenRight(i)
  <2>1. ASSUME j \in i + 1 .. n PROVE j \in HiddenRight(i)
    <3>1. j # n
      BY <1>7, <1>8
    <3> QED BY <1>2, <1>3, <1>4, <2>1, <3>1 DEF HiddenRight
  <2>2. ASSUME j \in HiddenRight(i) PROVE j \in i + 1 .. n
    <3>1. j \in i + 1 .. Len(source) - 1 /\ n \notin i + 1 .. j
      BY <1>3, <2>2 DEF HiddenRight
    <3>2. n # i
      <4>1. CASE n = i
        <5>1. i + 1 < Len(source)
          BY <1>2, <3>1
        <5>2. i + 1 <= NextTokenOnChannel(t, i + 1, DefaultChannel)
          BY <1>1, <1>2, <5>1, NextTokenIsOnChannel
        <5> QED BY <1>2, <4>1, <5>2 DEF n
      <4> QED BY <4>1
    <3> QED BY <1>2, <1>3, <3>1, <3>2
  <2> QED BY <2>1, <2>2
<1> QED BY <1>6, <1>8 DEF Asked, t, n

LEMMA LeftRunIsWhole ==
  ASSUME source \in Sources, NEW s, Good(s), NEW i \in Int, ~OutOfRange(s, i),
         s.thrown = "none", NEW channel \in {AnyHidden, Channel + 1}
  PROVE  LET prev == PreviousTokenOnChannel(s, i - 1, DefaultChannel)
         IN (IF i = 0 THEN {} ELSE FilterForChannel(s, prev + 1, i - 1, channel))
              = Asked(HiddenLeft(i), channel)
<1> DEFINE prev == PreviousTokenOnChannel(s, i - 1, DefaultChannel)
           good == {j \in 0..i - 1 : OnChannel(s.tokens[j + 1], DefaultChannel)}
<1>1. i \in 0 .. Len(s.tokens) - 1 /\ Len(s.tokens) \in Nat
  BY DEF Good, Streams, OutOfRange
<1>2. \A j \in 0 .. i - 1 : s.tokens[j + 1] = source[j + 1]
  <2>1. \A j \in 0 .. i - 1 : j \in 0 .. Len(s.tokens) - 1
    BY <1>1
  <2> QED BY <2>1, HeldIsSource
<1>3. CASE i = 0
  BY <1>3 DEF Asked, HiddenLeft
<1>4. CASE i # 0
  <2>1. prev = IF good = {} THEN -1 ELSE LargestOf(good)
    BY <1>1, <1>4 DEF PreviousTokenOnChannel
  <2>2. /\ prev \in -1 .. i - 1
        /\ prev # -1 => OnChannel(source[prev + 1], DefaultChannel)
        /\ \A m \in prev + 1 .. i - 1 : ~OnChannel(source[m + 1], DefaultChannel)
    <3>1. CASE good = {}
      BY <1>1, <1>2, <1>4, <2>1, <3>1
    <3>2. CASE good # {}
      <4>1. prev \in good /\ \A m \in good : m <= prev
        <5>1. good \in SUBSET (0..i - 1) /\ i - 1 \in Nat
          BY <1>1, <1>4
        <5> HIDE DEF good
        <5> QED BY <2>1, <3>2, <5>1, LargestIsThere
      <4> HIDE DEF prev
      <4>2. prev \in 0..i - 1 /\ OnChannel(source[prev + 1], DefaultChannel)
        BY <1>2, <4>1
      <4>3. ASSUME NEW m \in prev + 1 .. i - 1 PROVE ~OnChannel(source[m + 1], DefaultChannel)
        <5>1. m \in 0 .. i - 1 /\ ~(m <= prev)
          BY <1>1, <4>2
        <5> QED BY <1>2, <4>1, <5>1
      <4> QED BY <1>1, <4>2, <4>3
    <3> QED BY <3>1, <3>2
  <2> HIDE DEF prev
  <2>3. \A j \in prev + 1 .. i - 1 : j \in 0 .. i - 1
    BY <1>1, <2>2
  <2>4. FilterForChannel(s, prev + 1, i - 1, channel)
          = {j \in prev + 1 .. i - 1 : Wanted(source[j + 1], channel)}
    BY <1>2, <2>3 DEF FilterForChannel
  <2>5. prev + 1 .. i - 1 = HiddenLeft(i)
    <3>1. ASSUME NEW j \in prev + 1 .. i - 1 PROVE j \in HiddenLeft(i)
      BY <1>1, <2>2, <2>3 DEF HiddenLeft
    <3>2. ASSUME NEW j \in HiddenLeft(i) PROVE j \in prev + 1 .. i - 1
      <4>1. j \in 0 .. i - 1 /\ (prev # -1 => prev \notin j .. i - 1)
        BY <2>2 DEF HiddenLeft
      <4> QED BY <1>1, <2>2, <4>1
    <3> QED BY <3>1, <3>2
  <2> QED BY <1>4, <2>4, <2>5 DEF Asked, prev
<1> QED BY <1>3, <1>4

LEMMA NextKeepsHiddenRuns == Inv /\ HiddenRunsAreWhole /\ [Next]_vars => HiddenRunsAreWhole'
<1> SUFFICES ASSUME Inv, HiddenRunsAreWhole, [Next]_vars PROVE HiddenRunsAreWhole'
  OBVIOUS
<1> DEFINE Hidden == {"getHiddenTokensToRight", "getHiddenTokensToLeft"}
<1>1. ASSUME answer'.call \notin Hidden PROVE HiddenRunsAreWhole'
  BY <1>1 DEF HiddenRunsAreWhole
<1>2. /\ source \in Sources /\ Good(LazyInit(Start))
      /\ \A i \in SeekTargets : i \in Int
  BY ThrowIsGood, LazyInitIsGood, SourcesAssumption DEF Inv, Start, SourcesAssumption
<1>3. ASSUME NEW i \in SeekTargets, NEW channel \in {AnyHidden, Channel + 1},
             GetHiddenTokensToRight(i, channel)
      PROVE  HiddenRunsAreWhole'
  <2> DEFINE s == LazyInit(Start)
             t == SyncToChannel(s, i + 1, DefaultChannel)
             tokens == FilterForChannel(t, i + 1, NextTokenOnChannel(t, i + 1, DefaultChannel), channel)
  <2>1. CASE OutOfRange(s, i)
    <3>1. answer'.thrown = "range"
      BY <1>2, <1>3, <2>1, ThrowIsGood DEF GetHiddenTokensToRight, FinishOn
    <3> QED BY <3>1 DEF HiddenRunsAreWhole
  <2>2. CASE ~OutOfRange(s, i)
    <3>1. t.thrown = "none" => tokens = Asked(HiddenRight(i), channel)
      BY <1>2, <2>2, RightRunIsWhole
    <3> HIDE DEF s, t
    <3>2. /\ source' = source
          /\ answer'.call = "getHiddenTokensToRight" /\ answer'.arg = i /\ answer'.channel = channel
          /\ answer'.thrown = t.thrown
          /\ t.thrown = "none" => answer'.tokens = tokens
      BY <1>3, <2>2 DEF GetHiddenTokensToRight, FinishOn, s, t
    <3> HIDE DEF tokens
    <3> QED BY <3>1, <3>2 DEF HiddenRunsAreWhole, Asked, HiddenRight
  <2> QED BY <2>1, <2>2
<1>4. ASSUME NEW i \in SeekTargets, NEW channel \in {AnyHidden, Channel + 1},
             GetHiddenTokensToLeft(i, channel)
      PROVE  HiddenRunsAreWhole'
  <2> DEFINE s == LazyInit(Start)
             prev == PreviousTokenOnChannel(s, i - 1, DefaultChannel)
             tokens == IF i = 0 THEN {} ELSE FilterForChannel(s, prev + 1, i - 1, channel)
  <2>1. CASE OutOfRange(s, i)
    <3>1. answer'.thrown = "range"
      BY <1>2, <1>4, <2>1, ThrowIsGood DEF GetHiddenTokensToLeft, FinishOn
    <3> QED BY <3>1 DEF HiddenRunsAreWhole
  <2>2. CASE ~OutOfRange(s, i)
    <3>1. s.thrown = "none" => tokens = Asked(HiddenLeft(i), channel)
      BY <1>2, <2>2, LeftRunIsWhole
    <3> HIDE DEF s
    <3>2. /\ source' = source
          /\ answer'.call = "getHiddenTokensToLeft" /\ answer'.arg = i /\ answer'.channel = channel
          /\ answer'.thrown = s.thrown
          /\ s.thrown = "none" => answer'.tokens = tokens
      BY <1>4, <2>2 DEF GetHiddenTokensToLeft, FinishOn, s
    <3> HIDE DEF tokens
    <3> QED BY <3>1, <3>2 DEF HiddenRunsAreWhole, Asked, HiddenLeft
  <2> QED BY <2>1, <2>2
<1>5. ASSUME Consume \/ Fill \/ GetText \/ GetNumberOfOnChannelTokens \/ SetTokenSource
      PROVE  HiddenRunsAreWhole'
  <2>1. answer'.call \notin Hidden
    BY <1>5 DEF Consume, Fill, GetText, GetNumberOfOnChannelTokens, SetTokenSource, Finish, FinishOn
  <2> QED BY <1>1, <2>1
<1>6. ASSUME NEW i \in SeekTargets, Seek(i) \/ GetRange(0, i) PROVE HiddenRunsAreWhole'
  <2>1. answer'.call \notin Hidden
    BY <1>6 DEF Seek, GetRange, Finish, FinishOn
  <2> QED BY <1>1, <2>1
<1>7. ASSUME NEW k \in Lookaheads, LookAhead(k) \/ LookBehind(k) PROVE HiddenRunsAreWhole'
  <2>1. answer'.call \notin Hidden
    BY <1>7 DEF LookAhead, LookBehind, Finish, FinishOn
  <2> QED BY <1>1, <2>1
<1>8. CASE UNCHANGED vars
  BY <1>8 DEF vars, HiddenRunsAreWhole, HiddenRight, HiddenLeft
<1> QED BY <1>3, <1>4, <1>5, <1>6, <1>7, <1>8 DEF Next

-----------------------------------------------------------------------------
(* The theorems. *)

THEOREM SpecKeepsInv == Spec => []Inv
BY InitGivesInv, NextKeepsInv, PTL DEF Spec

(* Type correctness, of every call of every method with every argument.    *)
THEOREM TypesAreCorrect == Spec => []TypeOK
<1>1. Inv => TypeOK
  BY DEF Inv, Good, TypeOK
<1> QED BY <1>1, SpecKeepsInv, PTL

(* The list is what the source delivered so far, with one EOF, last, also  *)
(* when nextToken threw in the middle of a method (fetch, fetchedEOF).     *)
THEOREM BufferIsAlwaysPrefix == Spec => []BufferIsPrefix
<1>1. Inv => BufferIsPrefix
  BY DEF Inv, Good, BufferIsPrefix
<1> QED BY <1>1, SpecKeepsInv, PTL

(* The cursor of a CommonTokenStream stands on a fetched token of its      *)
(* channel or on EOF (adjustSeekIndex), whatever threw on the way there.   *)
THEOREM CursorIsAlwaysOnSymbol == Spec => []CursorOnSymbol
<1>1. Inv => CursorOnSymbol
  <2> SUFFICES ASSUME Inv, Filtering, stream.p # Unset
               PROVE  /\ stream.p \in 0..Len(stream.tokens) - 1
                      /\ OnChannel(stream.tokens[stream.p + 1], Channel)
    BY DEF CursorOnSymbol
  <2>1. /\ stream.p \in 0..Len(stream.tokens) - 1
        /\ OnChannel(source[stream.p + 1], Channel)
    BY DEF Inv, Good
  <2>2. stream.tokens[stream.p + 1] = source[stream.p + 1]
    BY <2>1, HeldIsSource DEF Inv
  <2> QED BY <2>1, <2>2
<1> QED BY <1>1, SpecKeepsInv, PTL

(* The runs of hidden tokens beside a token are whole, whatever had been   *)
(* fetched of them and whichever channel of theirs is asked for            *)
(* (getHiddenTokensToRight, getHiddenTokensToLeft).                        *)
THEOREM HiddenRunsAreAlwaysWhole == Spec => []HiddenRunsAreWhole
<1>1. Init => HiddenRunsAreWhole
  BY DEF Init, HiddenRunsAreWhole
<1> QED BY <1>1, NextKeepsHiddenRuns, SpecKeepsInv, PTL DEF Spec

-----------------------------------------------------------------------------
(* CommonTokenStream, as its client sees it. *)

First == NextTokenOnChannel(Fresh({}), 0, Channel)
Position(s) == IF s.p # Unset THEN s.p ELSE First

(* A method may end, or may be left by what nextToken() throws. *)
MayEnd(t) == t.thrown \in {"none", "source"}

-----------------------------------------------------------------------------
(* Symbols. *)

LEMMA SymbolsAreOnChannel ==
  ASSUME source \in Sources, Filtering
  PROVE  Promise!Symbols(source) = {i \in 0 .. Len(source) - 1 : OnChannel(source[i + 1], Channel)}
BY DEF Promise!Symbols, Promise!IsSymbol, Promise!EofIndex, OnChannel, EOF, Promise!EOF

LEMMA NextIsSymbolAtOrAfter ==
  ASSUME source \in Sources, Filtering, NEW s, Good(s), NEW i \in Nat
  PROVE  NextTokenOnChannel(s, i, Channel) = Promise!SymbolAtOrAfter(source, i)
<1> DEFINE symbols == Promise!Symbols(source)
           n    == NextTokenOnChannel(s, i, Channel)
           good == {j \in 0..Len(source) - 1 : j >= i /\ OnChannel(source[j + 1], Channel)}
<1>1. Len(source) \in Nat \ {0} /\ symbols = {j \in 0 .. Len(source) - 1 : OnChannel(source[j + 1], Channel)}
  BY SourceFacts, SymbolsAreOnChannel
<1>2. n = IF good = {} THEN Len(source) - 1 ELSE SmallestOf(good)
  <2>1. AllTokens(s) = source
    BY AllTokensIsSource
  <2> QED BY <2>1 DEF NextTokenOnChannel
<1>3. good = {j \in symbols : j >= i} /\ good \in SUBSET Nat
  BY <1>1
<1>4. CASE i > Len(source) - 1
  <2>1. good = {}
    BY <1>1, <1>4
  <2> QED BY <1>2, <1>4, <2>1 DEF Promise!SymbolAtOrAfter, Promise!EofIndex
<1>5. CASE ~(i > Len(source) - 1)
  <2>1. n \in 0..Len(source) - 1 /\ OnChannel(source[n + 1], Channel) /\ i <= n
    BY <1>1, <1>5, NextTokenIsOnChannel
  <2> HIDE DEF n
  <2>2. n \in good
    BY <1>1, <2>1
  <2>3. \A m \in good : n <= m
    <3> HIDE DEF good
    <3> QED BY <1>2, <1>3, <2>2, SmallestIsLeast
  <2> DEFINE IsFirst(j) == j >= i /\ \A m \in symbols : m >= i => j <= m
  <2>4. n \in symbols /\ IsFirst(n)
    BY <1>3, <2>2, <2>3
  <2>5. ASSUME NEW j \in symbols, IsFirst(j) PROVE j = n
    <3>1. j <= n /\ n <= j
      BY <2>4, <2>5
    <3>2. j \in Nat /\ n \in Nat
      BY <1>1, <2>4
    <3> QED BY <3>1, <3>2
  <2>6. (CHOOSE j \in symbols : IsFirst(j)) = n
    <3> HIDE DEF symbols, IsFirst
    <3> QED BY <2>4, <2>5
  <2> QED BY <1>5, <2>6 DEF Promise!SymbolAtOrAfter, Promise!EofIndex, n
<1> QED BY <1>4, <1>5

(* The promise counts as the stream does. *)
LEMMA CountsAreSame == \A S : Promise!Cardinality(S) = Cardinality(S)
BY DEF Cardinality, Promise!Cardinality

(* The first symbol of the input, where a stream that has not fetched it   *)
(* yet is seen to stand.                                                   *)
LEMMA FirstIsSymbol ==
  Filtering /\ source \in Sources =>
    /\ First = Promise!SymbolAtOrAfter(source, 0)
    /\ \A s : Good(s) => First = NextTokenOnChannel(s, 0, Channel)
<1> SUFFICES ASSUME Filtering, source \in Sources
             PROVE  /\ First = Promise!SymbolAtOrAfter(source, 0)
                    /\ \A s : Good(s) => First = NextTokenOnChannel(s, 0, Channel)
  OBVIOUS
<1>1. Good(Fresh({}))
  <2>1. Len(source) \in Nat \ {0} /\ source \in Seq(Tokens)
    BY SourceFacts
  <2>2. Fresh({}) \in Streams /\ <<>> = SubSeq(source, 1, 0)
    BY <2>1 DEF Fresh, Streams, Unset
  <2> QED BY <2>1, <2>2 DEF Good, Fresh, Unset
<1>2. First = Promise!SymbolAtOrAfter(source, 0)
  BY <1>1, NextIsSymbolAtOrAfter DEF First
<1> QED BY <1>2, NextIsSymbolAtOrAfter

LEMMA FirstIsPromised ==
  Filtering /\ source \in Sources => First = Promise!SymbolAtOrAfter(source, 0)
BY FirstIsSymbol

-----------------------------------------------------------------------------
(* What may be thrown, and where the cursor is then. *)

LEMMA FetchMayEnd ==
  ASSUME NEW s, Good(s), s.thrown = "none", NEW n
  PROVE  MayEnd(Fetch(s, n))
<1>1. ASSUME NEW a, NEW b, NEW c, NEW d, NEW e \in {"none", "source"}
      PROVE  [s EXCEPT !.tokens = a, !.pos = b, !.fetchedEOF = c, !.faults = d, !.thrown = e].thrown
               \in {"none", "source"}
  BY <1>1 DEF Good, Streams
<1> QED BY <1>1 DEF Fetch, MayEnd

LEMMA SyncMayEnd ==
  ASSUME NEW s, Good(s), s.thrown = "none", NEW i \in Int
  PROVE  IF i < 0 THEN Sync(s, i).thrown = "assert" ELSE MayEnd(Sync(s, i))
<1>1. CASE i < 0
  BY <1>1, ThrowIsGood DEF Sync
<1>2. CASE ~(i < 0)
  BY <1>2, FetchMayEnd DEF Sync, MayEnd
<1> QED BY <1>1, <1>2

LEMMA MoveToMayEnd ==
  ASSUME source \in Sources, Filtering, NEW s, Good(s), s.thrown = "none", NEW i \in Int
  PROVE  LET t == MoveTo(s, i)
         IN /\ IF i < 0 THEN t.thrown = "assert" ELSE MayEnd(t)
            /\ t.p = IF t.thrown = "none" THEN Promise!SymbolAtOrAfter(source, i) ELSE s.p
<1> DEFINE n == NextTokenOnChannel(s, i, Channel)
           u == SyncToChannel(s, i, Channel)
           t == MoveTo(s, i)
<1>1. u = Sync(s, IF i < 0 THEN i ELSE n) /\ t = IF u.thrown # "none" THEN u ELSE [u EXCEPT !.p = n]
  BY DEF SyncToChannel, MoveTo
<1>2. n \in Int /\ n >= 0
  BY NextTokenIsOnChannel, SourceFacts
<1> HIDE DEF u, t
<1>3. CASE i < 0
  BY <1>1, <1>3, SyncMayEnd, SyncIsGood DEF t
<1>4. CASE ~(i < 0)
  <2>1. n = Promise!SymbolAtOrAfter(source, i)
    BY <1>4, NextIsSymbolAtOrAfter
  <2> HIDE DEF n
  <2>2. MayEnd(u) /\ Good(u) /\ u.p = s.p
    BY <1>1, <1>2, <1>4, SyncMayEnd, SyncIsGood
  <2>3. [u EXCEPT !.p = n].thrown = u.thrown /\ [u EXCEPT !.p = n].p = n
    BY <2>2 DEF Good, Streams
  <2> QED BY <1>1, <1>4, <2>1, <2>2, <2>3 DEF MayEnd, t
<1> QED BY <1>3, <1>4

LEMMA LazyInitMayEnd ==
  ASSUME source \in Sources, Filtering, NEW s, Good(s), s.thrown = "none"
  PROVE  LET t == LazyInit(s)
         IN MayEnd(t) /\ t.p = IF t.thrown = "none" THEN Position(s) ELSE s.p
<1> DEFINE u == Sync(s, 0)
           t == LazyInit(s)
<1>1. CASE s.p # Unset
  BY <1>1 DEF LazyInit, MayEnd, Position
<1>2. CASE s.p = Unset
  <2>1. t = MoveTo(u, 0)
    BY <1>2 DEF LazyInit
  <2>2. Good(u) /\ MayEnd(u) /\ u.p = s.p
    BY SyncMayEnd, SyncIsGood
  <2>3. First = Promise!SymbolAtOrAfter(source, 0)
    BY FirstIsSymbol
  <2> HIDE DEF t, u
  <2>4. CASE u.thrown = "none"
    <3>1. MayEnd(t) /\ t.p = IF t.thrown = "none" THEN Promise!SymbolAtOrAfter(source, 0) ELSE u.p
      BY <2>1, <2>2, <2>4, MoveToMayEnd
    <3> QED BY <1>2, <2>2, <2>3, <3>1 DEF Position, t
  <2>5. CASE u.thrown # "none"
    <3>1. t = u
      BY <2>1, <2>5 DEF MoveTo
    <3> QED BY <2>2, <2>5, <3>1 DEF t
  <2> QED BY <2>4, <2>5
<1> QED BY <1>1, <1>2

(* What stands before the first symbol is seen to stand on it, before and  *)
(* after it is fetched.                                                    *)
LEMMA LazyInitKeepsPosition ==
  ASSUME source \in Sources, Filtering, NEW s, Good(s), s.thrown = "none"
  PROVE  Position(LazyInit(s)) = Position(s)
<1> DEFINE t == LazyInit(s)
<1>1. t.p = IF t.thrown = "none" THEN Position(s) ELSE s.p
  BY LazyInitMayEnd
<1>2. First # Unset
  BY FirstIsSymbol, NextTokenIsOnChannel, SourceFacts DEF Unset
<1> HIDE DEF t
<1>3. Position(t) = Position(s)
  BY <1>1, <1>2 DEF Position
<1> QED BY <1>3 DEF t

LEMMA SyncAheadMayEnd ==
  ASSUME source \in Sources, Filtering, NEW s, Good(s), s.thrown = "none", s.p # Unset,
         NEW k \in Nat \ {0}
  PROVE  MayEnd(SyncAhead(s, k)) /\ SymbolAhead(s, k) = Promise!Ahead(source, s.p, k)
<1> DEFINE after == {j \in s.p + 1 .. Len(source) - 1 : OnChannel(source[j + 1], Channel)}
           hit   == {j \in after : Cardinality({m \in after : m <= j}) = k - 1}
<1>1. s.p \in Nat /\ Len(source) \in Nat \ {0}
  BY SourceFacts DEF Good, Streams
<1>2. SymbolAhead(s, k) = IF k = 1 THEN s.p ELSE IF hit = {} THEN Len(source) - 1 ELSE SmallestOf(hit)
  <2>1. AllTokens(s) = source
    BY AllTokensIsSource
  <2> QED BY <2>1 DEF SymbolAhead
<1>3. after = {j \in Promise!Symbols(source) : j > s.p}
  BY <1>1, SymbolsAreOnChannel
<1>4. Promise!Ahead(source, s.p, k)
        = IF k = 1 THEN s.p ELSE IF hit = {} THEN Len(source) - 1 ELSE SmallestOf(hit)
  <2> DEFINE later == {j \in Promise!Symbols(source) : j > s.p}
             found == {j \in later : Promise!Cardinality({m \in later : m <= j}) = k - 1}
  <2>1. found = hit
    BY <1>3, CountsAreSame, Zenon
  <2>2. Promise!Ahead(source, s.p, k)
          = IF k = 1 THEN s.p
            ELSE IF found = {} THEN Len(source) - 1
            ELSE CHOOSE j \in found : \A m \in found : j <= m
    BY DEF Promise!Ahead, Promise!EofIndex
  <2> HIDE DEF hit, found
  <2> QED BY <2>1, <2>2 DEF SmallestOf
<1>5. MayEnd(SyncAhead(s, k))
  <2>1. CASE k = 1
    BY <2>1 DEF SyncAhead, MayEnd
  <2>2. CASE k # 1
    <3>1. SymbolAhead(s, k) \in Nat
      <4>1. hit \in SUBSET Nat /\ Len(source) - 1 \in Nat
        BY <1>1
      <4> HIDE DEF hit
      <4>2. hit # {} => SmallestOf(hit) \in Nat
        BY <4>1, SmallestIsLeast
      <4> QED BY <1>2, <2>2, <4>1, <4>2
    <3>2. SyncAhead(s, k) = Sync(s, SymbolAhead(s, k))
      BY <2>2 DEF SyncAhead
    <3> QED BY <3>1, <3>2, SyncMayEnd
  <2> QED BY <2>1, <2>2
<1> QED BY <1>2, <1>4, <1>5

(* tryLT(k) answers as promised. *)
LEMMA AheadIsPromised ==
  ASSUME source \in Sources, Filtering, NEW s, Good(s), s.thrown = "none", s.p # Unset,
         NEW k \in Nat \ {0}
  PROVE  TokenAhead(SyncAhead(s, k), k) = Promise!Ahead(source, s.p, k)
<1> DEFINE t == SyncAhead(s, k)
<1>1. Good(t) /\ t.p = s.p
  BY SyncAheadIsGood
<1>2. AllTokens(t) = AllTokens(s)
  BY <1>1, AllTokensIsSource
<1> HIDE DEF t
<1>3. TokenAhead(t, k) = SymbolAhead(s, k)
  BY <1>1, <1>2 DEF TokenAhead, SymbolAhead
<1> QED BY <1>3, SyncAheadMayEnd DEF t

(* tryLB(k) answers as promised when there are k symbols behind. *)
LEMMA BehindIsPromised ==
  ASSUME source \in Sources, Filtering, NEW s, Good(s), s.p # Unset, NEW k \in Nat \ {0}
  PROVE  LET i == Promise!Behind(source, s.p, k)
         IN i # NoToken => TokenBehind(s, k) = i
<1> DEFINE before == {j \in 0 .. s.p - 1 : OnChannel(s.tokens[j + 1], Channel)}
           hit    == {j \in before : Cardinality({m \in before : m >= j}) = k}
<1>1. /\ s.p \in 0 .. Len(s.tokens) - 1 /\ s.p \in Nat
      /\ Len(s.tokens) \in Nat /\ Len(source) \in Nat /\ Len(s.tokens) <= Len(source)
  BY SourceFacts DEF Good, Streams
<1>2. before = {j \in Promise!Symbols(source) : j < s.p}
  <2>1. \A j \in 0 .. s.p - 1 : j \in 0 .. Len(s.tokens) - 1
    BY <1>1
  <2>2. \A j \in 0 .. s.p - 1 : s.tokens[j + 1] = source[j + 1] /\ j \in 0 .. Len(source) - 1
    BY <2>1, HeldIsSource
  <2>3. Promise!Symbols(source) = {j \in 0 .. Len(source) - 1 : OnChannel(source[j + 1], Channel)}
    BY SymbolsAreOnChannel
  <2>4. \A j \in 0 .. Len(source) - 1 : j < s.p <=> j \in 0 .. s.p - 1
    BY <1>1
  <2> QED BY <2>2, <2>3, <2>4, Zenon
<1>3. Promise!Behind(source, s.p, k) = IF hit = {} THEN NoToken ELSE SmallestOf(hit)
  <2> DEFINE earlier == {j \in Promise!Symbols(source) : j < s.p}
             found == {j \in earlier : Promise!Cardinality({m \in earlier : m >= j}) = k}
  <2>1. found = hit
    BY <1>2, CountsAreSame, Zenon
  <2>2. Promise!Behind(source, s.p, k)
          = IF found = {} THEN NoToken ELSE CHOOSE j \in found : \A m \in found : j <= m
    BY DEF Promise!Behind, NoToken, Promise!NoToken
  <2> HIDE DEF hit, found
  <2> QED BY <2>1, <2>2 DEF SmallestOf
<1> SUFFICES ASSUME hit # {} PROVE TokenBehind(s, k) = SmallestOf(hit)
  BY <1>3
<1>4. k <= s.p
  <2>1. PICK j \in hit : Cardinality({m \in before : m >= j}) = k
    OBVIOUS
  <2> DEFINE behind == {m \in before : m >= j}
  <2>2. behind \subseteq 0 .. s.p - 1
    OBVIOUS
  <2>3. IsFiniteSet(0 .. s.p - 1) /\ Cardinality(0 .. s.p - 1) = s.p
    <3> DEFINE b == s.p - 1
    <3>1. b \in Int /\ 0 \in Int /\ b - 0 + 1 = s.p /\ (0 > b <=> s.p = 0)
      BY <1>1
    <3> HIDE DEF b
    <3>2. IsFiniteSet(0 .. b) /\ Cardinality(0 .. b) = IF 0 > b THEN 0 ELSE b - 0 + 1
      BY <3>1, FS_Interval
    <3> QED BY <3>1, <3>2 DEF b
  <2> HIDE DEF behind
  <2>4. Cardinality(behind) <= Cardinality(0 .. s.p - 1)
    BY <2>2, <2>3, FS_Subset
  <2> QED BY <2>1, <2>3, <2>4 DEF behind
<1>5. ~(s.p - k < 0)
  BY <1>1, <1>4
<1> QED BY <1>5 DEF TokenBehind

-----------------------------------------------------------------------------
(* consume(), and what fills the list. *)

LEMMA ConsumedIsPromised ==
  ASSUME source \in Sources, Filtering, NEW s, Good(s), s.thrown = "none"
  PROVE  LET t == Consumed(s)
             i == Position(s)
             last == Len(source) - 1
         IN \/ t.thrown = "source" /\ Position(t) = i
            \/ t.thrown = "EOF" /\ i = last /\ Position(t) = i
            \/ t.thrown = "none" /\ i < last /\ Position(t) = Promise!SymbolAtOrAfter(source, i + 1)
<1> DEFINE skips == SkipsEofCheck(s)
           lazy  == LazyInit(s)
           seen  == IF skips THEN s ELSE lazy
           next  == Sync(seen, seen.p + 1)
           last  == Len(source) - 1
           i     == Position(s)
           t     == Consumed(s)
<1>1. Len(source) \in Nat \ {0} /\ i \in 0 .. last
  <2>1. Len(source) \in Nat \ {0}
    BY SourceFacts
  <2>2. CASE s.p # Unset
    <3>1. /\ Len(s.tokens) \in Nat /\ Len(s.tokens) <= Len(source)
          /\ s.p \in 0 .. Len(s.tokens) - 1
      BY <2>2 DEF Good, Streams
    <3> QED BY <2>1, <2>2, <3>1 DEF Position
  <2>3. CASE s.p = Unset
    BY <2>1, <2>3, FirstIsSymbol, NextTokenIsOnChannel DEF Position
  <2> QED BY <2>1, <2>2, <2>3
<1>2. SyncAhead(lazy, 1) = lazy
  BY DEF SyncAhead
<1>3. Good(seen) /\ MayEnd(seen)
  BY LazyInitIsGood, LazyInitMayEnd DEF MayEnd
<1>4. seen.p = IF seen.thrown = "none" THEN i ELSE s.p
  <2>1. CASE skips
    <3>1. s.p # Unset
      BY <2>1 DEF SkipsEofCheck, Unset, Good, Streams
    <3> QED BY <2>1, <3>1 DEF Position
  <2>2. CASE ~skips
    BY <2>2, LazyInitMayEnd
  <2> QED BY <2>1, <2>2
<1>5. t = IF seen.thrown # "none" THEN seen
          ELSE IF ~skips /\ seen.tokens[TokenAhead(seen, 1) + 1].type = EOF
          THEN [seen EXCEPT !.thrown = "EOF"]
          ELSE IF Holds(next, seen.p + 1) THEN MoveTo(next, seen.p + 1) ELSE next
  BY <1>2 DEF Consumed
<1>6. TokenAhead(seen, 1) = seen.p
  BY DEF TokenAhead, SymbolAhead
<1>7. skips => i < last
  <2> SUFFICES ASSUME skips PROVE i < last
    OBVIOUS
  <2>1. seen = s /\ s.p = i
    BY <1>4
  <2>2. Len(s.tokens) \in Nat /\ Len(s.tokens) <= Len(source)
    BY DEF Good, Streams
  <2> QED BY <1>1, <2>1, <2>2 DEF SkipsEofCheck, Good
<1> HIDE DEF skips, lazy, seen, t, i
<1>8. CASE seen.thrown # "none"
  <2>1. t = seen /\ t.thrown = "source" /\ t.p = s.p
    BY <1>3, <1>4, <1>5, <1>8 DEF MayEnd
  <2> QED BY <2>1 DEF Position, t, i
<1>9. CASE seen.thrown = "none"
  <2>1. seen.p = i /\ i # Unset
    BY <1>1, <1>4, <1>9 DEF Unset
  <2>2. i \in 0 .. Len(seen.tokens) - 1
    BY <1>3, <2>1 DEF Good
  <2>3. seen.tokens[i + 1].type = EOF <=> i = last
    <3>1. seen.tokens[i + 1] = source[i + 1]
      BY <1>3, <2>2, HeldIsSource
    <3>2. i + 1 \in 1 .. Len(source)
      BY <1>1
    <3> QED BY <1>1, <3>1, <3>2, SourceFacts
  <2>4. CASE ~skips /\ i = last
    <3>1. t = [seen EXCEPT !.thrown = "EOF"]
      BY <1>5, <1>6, <1>9, <2>1, <2>3, <2>4
    <3>2. t.thrown = "EOF" /\ t.p = i
      BY <1>3, <2>1, <3>1 DEF Good, Streams
    <3> QED BY <2>1, <2>4, <3>2 DEF Position, t, i
  <2>5. CASE skips \/ i # last
    <3>1. i < last /\ i + 1 \in Nat
      BY <1>1, <1>7, <2>5
    <3>2. t = IF Holds(next, i + 1) THEN MoveTo(next, i + 1) ELSE next
      BY <1>5, <1>6, <1>7, <1>9, <2>1, <2>3, <2>5, <3>1
    <3>3. next = Sync(seen, i + 1)
      BY <2>1
    <3> HIDE DEF next
    <3>4. /\ Good(next) /\ MayEnd(next) /\ next.p = i
          /\ next.thrown = "none" => i + 1 < Len(next.tokens) \/ Len(next.tokens) = Len(source)
      BY <1>3, <1>9, <2>1, <3>1, <3>3, SyncIsGood, SyncMayEnd
    <3>5. next.thrown = "none" => Holds(next, i + 1)
      BY <1>1, <3>1, <3>4 DEF Holds
    <3>6. CASE next.thrown = "none"
      <4>1. /\ MayEnd(t)
            /\ t.p = IF t.thrown = "none" THEN Promise!SymbolAtOrAfter(source, i + 1) ELSE i
        BY <3>1, <3>2, <3>4, <3>5, <3>6, MoveToMayEnd
      <4>2. Good(t) /\ (t.thrown = "none" => t.p # Unset)
        BY <3>1, <3>2, <3>4, <3>5, <3>6, MoveToIsGood
      <4> QED BY <2>1, <3>1, <4>1, <4>2 DEF MayEnd, Position, t, i
    <3>7. CASE next.thrown # "none"
      <4>1. t = next
        BY <3>2, <3>7 DEF Holds
      <4> QED BY <2>1, <3>4, <3>7, <4>1 DEF MayEnd, Position, t, i
    <3> QED BY <3>6, <3>7
  <2> QED BY <2>4, <2>5
<1> QED BY <1>8, <1>9

LEMMA FilledMayEnd ==
  ASSUME source \in Sources, Filtering, NEW s, Good(s), s.thrown = "none"
  PROVE  MayEnd(Filled(s)) /\ Position(Filled(s)) = Position(s)
<1> DEFINE t == LazyInit(s)
           n == Len(source) - t.pos + 1
<1>1. Good(t) /\ MayEnd(t) /\ Position(t) = Position(s)
  BY LazyInitIsGood, LazyInitMayEnd, LazyInitKeepsPosition
<1> HIDE DEF t
<1>2. n \in Nat \ {0}
  BY <1>1, SourceFacts DEF Good, Streams
<1>3. Fetch(t, n).p = t.p /\ (t.thrown = "none" => MayEnd(Fetch(t, n)))
  BY <1>1, <1>2, FetchIsGood, FetchMayEnd
<1> QED BY <1>1, <1>3 DEF Filled, Position, t

LEMMA SyncToChannelMayEnd ==
  ASSUME source \in Sources, NEW s, Good(s), MayEnd(s), NEW i \in Nat, NEW channel
  PROVE  LET t == SyncToChannel(s, i, channel) IN MayEnd(t) /\ t.p = s.p
<1> DEFINE n == NextTokenOnChannel(s, i, channel)
<1>1. n \in Int /\ n >= 0
  BY NextTokenIsOnChannel, SourceFacts
<1> HIDE DEF n
<1>2. SyncToChannel(s, i, channel) = Sync(s, n)
  BY DEF SyncToChannel, n
<1>3. Sync(s, n).p = s.p
  BY <1>1, SyncIsGood
<1>4. CASE s.thrown = "none"
  BY <1>1, <1>2, <1>3, <1>4, SyncMayEnd
<1>5. CASE s.thrown # "none"
  BY <1>2, <1>3, <1>5 DEF Sync
<1> QED BY <1>4, <1>5

-----------------------------------------------------------------------------
(* Every step of the stream is one of its promise. *)

(* What the client sees once a call is over. *)
LEMMA FinishShows ==
  ASSUME NEW s, Good(s), NEW call, NEW arg, NEW channel, NEW tokens,
         FinishOn(s, call, arg, channel, tokens)
  PROVE  /\ source' = source /\ (Filtering => Cursor' = Position(s))
         /\ Answer' = [call |-> call, arg |-> arg, thrown |-> s.thrown,
                       tokens |-> IF s.thrown = "none" THEN tokens ELSE {}]
<1>1. /\ source' = source /\ stream' = [s EXCEPT !.thrown = "none"]
      /\ answer' = [call |-> call, arg |-> arg, channel |-> channel, thrown |-> s.thrown,
                    tokens |-> IF s.thrown = "none" THEN tokens ELSE {}]
  BY DEF FinishOn
<1>2. stream'.p = s.p
  BY <1>1 DEF Good, Streams
<1>3. First' = First
  BY <1>1 DEF First, NextTokenOnChannel, AllTokens, Fresh, OnChannel
<1>4. Filtering => Cursor' = Position(s)
  BY <1>2, <1>3 DEF Cursor, Position, First
<1> QED BY <1>1, <1>4 DEF Answer

LEMMA NextIsPromised ==
  ASSUME Filtering, Inv, [Next]_vars
  PROVE  [Promise!Next]_Promise!vars
<1> DEFINE lazy == LazyInit(Start)
<1>1. /\ source \in Sources /\ Good(Start) /\ Start.thrown = "none" /\ Start.p = stream.p
  BY ThrowIsGood DEF Inv, Start, Good, Streams
<1>2. Cursor = Position(Start)
  BY <1>1 DEF Cursor, Position, First
<1>3. /\ Good(lazy) /\ MayEnd(lazy) /\ Position(lazy) = Cursor
      /\ lazy.thrown = "none" => lazy.p = Cursor /\ lazy.p # Unset
  BY <1>1, <1>2, LazyInitIsGood, LazyInitMayEnd, LazyInitKeepsPosition
<1>4. Len(source) \in Nat \ {0}
  BY <1>1, SourceFacts
<1> HIDE DEF lazy
<1>5. ASSUME NEW s, Good(s), s.thrown = "source", Position(s) = Cursor,
             NEW call, NEW arg, NEW channel, NEW tokens, FinishOn(s, call, arg, channel, tokens)
      PROVE  Promise!SourceFails
  BY <1>5, FinishShows DEF Promise!SourceFails
<1>6. ASSUME NEW s, Good(s), s.thrown \in {"none", "source", "range"}, Position(s) = Cursor,
             NEW call \in {"fill", "getText", "getHiddenTokensToRight", "getHiddenTokensToLeft",
                           "getRange", "getNumberOfOnChannelTokens"},
             NEW arg, NEW channel, NEW tokens, FinishOn(s, call, arg, channel, tokens)
      PROVE  Promise!Report \/ Promise!SourceFails
  <2>1. CASE s.thrown = "source"
    BY <1>5, <1>6, <2>1
  <2>2. CASE s.thrown \in {"none", "range"}
    <3>1. /\ source' = source /\ Cursor' = Cursor
          /\ Answer' = [call |-> call, arg |-> arg, thrown |-> s.thrown,
                        tokens |-> IF s.thrown = "none" THEN tokens ELSE {}]
      BY <1>6, FinishShows
    <3>2. Answer'.call = call /\ Answer'.thrown \in {"none", "range"}
      BY <2>2, <3>1
    <3> QED BY <3>1, <3>2 DEF Promise!Report
  <2> QED BY <1>6, <2>1, <2>2
<1>7. CASE Consume
  <2> DEFINE t == Consumed(Start)
  <2>1. Good(t)
    BY <1>1, ConsumedIsGood
  <2>2. \/ t.thrown = "source" /\ Position(t) = Cursor
        \/ t.thrown = "EOF" /\ Cursor = Len(source) - 1 /\ Position(t) = Cursor
        \/ /\ t.thrown = "none" /\ Cursor < Len(source) - 1
           /\ Position(t) = Promise!SymbolAtOrAfter(source, Cursor + 1)
    BY <1>1, <1>2, ConsumedIsPromised
  <2> HIDE DEF t
  <2>3. FinishOn(t, "consume", 0, AnyHidden, {})
    BY <1>7 DEF Consume, Finish, t
  <2>4. /\ source' = source /\ Cursor' = Position(t)
        /\ Answer' = [call |-> "consume", arg |-> 0, thrown |-> t.thrown, tokens |-> {}]
    BY <2>1, <2>3, FinishShows
  <2>5. Promise!Consume \/ Promise!SourceFails
    BY <2>2, <2>4 DEF Promise!Consume, Promise!SourceFails, Promise!EofIndex, Promise!Returned,
                      Promise!Thrown
  <2> QED BY <2>5 DEF Promise!Next
<1>8. ASSUME NEW i \in SeekTargets, Seek(i) PROVE Promise!Next
  <2> DEFINE t == MoveTo(lazy, i)
  <2>1. i \in Int
    BY SourcesAssumption DEF SourcesAssumption
  <2>2. Good(t) /\ (t.thrown = "none" => t.p # Unset)
    BY <1>1, <1>3, <2>1, MoveToIsGood
  <2>3. FinishOn(t, "seek", i, AnyHidden, {})
    BY <1>8 DEF Seek, Finish, lazy
  <2>4. CASE lazy.thrown # "none"
    <3>1. t = lazy /\ t.thrown = "source"
      BY <1>3, <2>4 DEF MoveTo, MayEnd
    <3> HIDE DEF t
    <3> QED BY <1>3, <1>5, <2>2, <2>3, <3>1 DEF Promise!Next
  <2>5. CASE lazy.thrown = "none"
    <3>1. /\ IF i < 0 THEN t.thrown = "assert" ELSE MayEnd(t)
          /\ t.p = IF t.thrown = "none" THEN Promise!SymbolAtOrAfter(source, i) ELSE lazy.p
      BY <1>1, <1>3, <2>1, <2>5, MoveToMayEnd
    <3> HIDE DEF t
    <3>2. Position(t) = IF t.thrown = "none" THEN Promise!SymbolAtOrAfter(source, i) ELSE Cursor
      BY <1>3, <2>2, <2>5, <3>1 DEF Position
    <3>3. CASE t.thrown = "source"
      BY <1>5, <2>2, <2>3, <3>2, <3>3 DEF Promise!Next
    <3>4. CASE t.thrown # "source"
      <4>1. /\ source' = source /\ Cursor' = Position(t)
            /\ Answer' = [call |-> "seek", arg |-> i, thrown |-> t.thrown, tokens |-> {}]
        BY <2>2, <2>3, FinishShows
      <4>2. Promise!Seek(i)
        BY <3>1, <3>2, <3>4, <4>1 DEF MayEnd, Promise!Seek, Promise!Returned, Promise!Thrown
      <4> QED BY <4>2 DEF Promise!Next
    <3> QED BY <3>3, <3>4
  <2> QED BY <2>4, <2>5
<1>9. ASSUME NEW k \in Lookaheads, LookAhead(k) PROVE Promise!Next
  <2> DEFINE t == SyncAhead(lazy, k)
             found == IF t.thrown = "none" THEN {TokenAhead(t, k)} ELSE {}
  <2>1. k \in Nat \ {0}
    BY SourcesAssumption DEF SourcesAssumption
  <2>2. Good(t) /\ t.p = lazy.p
    BY <1>1, <1>3, <2>1, SyncAheadIsGood
  <2>3. FinishOn(t, "tryLT", k, AnyHidden, found)
    BY <1>9 DEF LookAhead, Finish, lazy
  <2>4. Position(t) = Cursor
    <3> HIDE DEF t
    <3> QED BY <1>3, <2>2 DEF Position
  <2>5. CASE t.thrown = "source"
    <3> HIDE DEF t
    <3> QED BY <1>5, <2>2, <2>3, <2>4, <2>5 DEF Promise!Next
  <2>6. CASE t.thrown # "source"
    <3>1. lazy.thrown = "none"
      BY <1>3, <2>6 DEF SyncAhead, MayEnd
    <3>2. MayEnd(t) /\ TokenAhead(t, k) = Promise!Ahead(source, Cursor, k)
      BY <1>1, <1>3, <2>1, <3>1, SyncAheadMayEnd, AheadIsPromised
    <3> HIDE DEF t
    <3>3. /\ source' = source /\ Cursor' = Cursor
          /\ Answer' = [call |-> "tryLT", arg |-> k, thrown |-> "none",
                        tokens |-> {Promise!Ahead(source, Cursor, k)}]
      BY <2>2, <2>3, <2>4, <2>6, <3>2, FinishShows DEF MayEnd
    <3>4. Promise!LookAhead(k)
      BY <3>3 DEF Promise!LookAhead, Promise!Returned
    <3> QED BY <3>4 DEF Promise!Next
  <2> QED BY <2>5, <2>6
<1>10. ASSUME NEW k \in Lookaheads, LookBehind(k) PROVE Promise!Next
  <2> DEFINE found == Found(TokenBehind(lazy, k))
             i     == Promise!Behind(source, Cursor, k)
  <2>1. k \in Nat \ {0}
    BY SourcesAssumption DEF SourcesAssumption
  <2>2. FinishOn(lazy, "tryLT", -k, AnyHidden, IF lazy.thrown = "none" THEN found ELSE {})
    BY <1>10 DEF LookBehind, Finish, lazy
  <2>3. CASE lazy.thrown # "none"
    <3>1. lazy.thrown = "source"
      BY <1>3, <2>3 DEF MayEnd
    <3> QED BY <1>3, <1>5, <2>2, <3>1 DEF Promise!Next
  <2>4. CASE lazy.thrown = "none"
    <3>1. /\ source' = source /\ Cursor' = Cursor
          /\ Answer' = [call |-> "tryLT", arg |-> -k, thrown |-> "none", tokens |-> found]
      <4> HIDE DEF found
      <4> QED BY <1>3, <2>2, <2>4, FinishShows
    <3>2. i # NoToken => found = {i}
      <4>1. i # NoToken => TokenBehind(lazy, k) = i
        BY <1>1, <1>3, <2>1, <2>4, BehindIsPromised
      <4> HIDE DEF i
      <4> QED BY <4>1 DEF Found
    <3>3. found \in {{}} \cup {{j} : j \in 0 .. Len(source) - 1}
      <4>1. found \subseteq 0 .. Len(lazy.tokens) - 1
        BY <1>1, <1>3, <2>1, <2>4, BehindIsListed DEF Listed
      <4>2. Len(lazy.tokens) \in Nat /\ Len(lazy.tokens) <= Len(source)
        BY <1>3 DEF Good, Streams
      <4>3. found = {} \/ \E j : found = {j}
        BY DEF Found
      <4> HIDE DEF found
      <4>4. \A j \in found : j \in 0 .. Len(source) - 1
        BY <1>4, <4>1, <4>2
      <4> QED BY <4>3, <4>4
    <3> HIDE DEF found, i
    <3>4. Promise!LookBehind(k)
      BY <3>1, <3>2, <3>3 DEF Promise!LookBehind, Promise!Returned, Promise!EofIndex, i, NoToken,
                              Promise!NoToken
    <3> QED BY <3>4 DEF Promise!Next
  <2> QED BY <2>3, <2>4
<1>11. ASSUME Fill \/ GetNumberOfOnChannelTokens PROVE Promise!Next
  <2> DEFINE t == Filled(Start)
  <2>1. Good(t) /\ MayEnd(t) /\ Position(t) = Cursor
    BY <1>1, <1>2, FilledIsGood, FilledMayEnd
  <2>2. \E call \in {"fill", "getNumberOfOnChannelTokens"} : \E tokens :
          FinishOn(t, call, 0, AnyHidden, tokens)
    BY <1>11 DEF Fill, GetNumberOfOnChannelTokens, Finish
  <2> HIDE DEF t
  <2> QED BY <1>6, <2>1, <2>2 DEF MayEnd, Promise!Next
<1>12. CASE GetText
  <2> DEFINE to == Len(stream.tokens) - 1
             s  == IF to < 0 THEN Start ELSE Filled(Start)
  <2>1. Good(s) /\ MayEnd(s) /\ Position(s) = Cursor
    BY <1>1, <1>2, FilledIsGood, FilledMayEnd DEF MayEnd
  <2>2. FinishOn(s, "getText", 0, AnyHidden, BeforeEOF(s, 0, to))
    BY <1>12 DEF GetText, Finish
  <2> HIDE DEF s, to
  <2> QED BY <1>6, <2>1, <2>2 DEF MayEnd, Promise!Next
<1>13. ASSUME NEW to \in SeekTargets, GetRange(0, to) PROVE Promise!Next
  <2> DEFINE s == IF 0 < 0 \/ to < 0 THEN Start ELSE lazy
             tokens == IF 0 < 0 \/ to < 0 THEN {} ELSE BeforeEOF(s, 0, to)
  <2>1. Good(s) /\ MayEnd(s) /\ Position(s) = Cursor
    BY <1>1, <1>2, <1>3 DEF MayEnd
  <2>2. FinishOn(s, "getRange", 0, AnyHidden, tokens)
    BY <1>13 DEF GetRange, Finish, lazy
  <2> HIDE DEF s, tokens
  <2> QED BY <1>6, <2>1, <2>2 DEF MayEnd, Promise!Next
<1>14. ASSUME NEW i \in SeekTargets, NEW channel, GetHiddenTokensToRight(i, channel)
       PROVE  Promise!Next
  <2> DEFINE t == SyncToChannel(lazy, i + 1, DefaultChannel)
             r == [lazy EXCEPT !.thrown = "range"]
             tokens == FilterForChannel(t, i + 1, NextTokenOnChannel(t, i + 1, DefaultChannel), channel)
             call == "getHiddenTokensToRight"
  <2>1. i \in Int
    BY SourcesAssumption DEF SourcesAssumption
  <2>2. CASE OutOfRange(lazy, i)
    <3>1. FinishOn(r, call, i, channel, {})
      BY <1>14, <2>2 DEF GetHiddenTokensToRight, lazy
    <3>2. Good(r) /\ r.thrown = "range" /\ r.p = lazy.p
      BY <1>3, ThrowIsGood DEF Good, Streams
    <3> HIDE DEF r
    <3>3. Position(r) = Cursor
      BY <1>3, <3>2 DEF Position
    <3> QED BY <1>6, <3>1, <3>2, <3>3 DEF Promise!Next
  <2>3. CASE ~OutOfRange(lazy, i)
    <3>1. FinishOn(t, call, i, channel, IF t.thrown # "none" THEN {} ELSE tokens)
      BY <1>14, <2>3 DEF GetHiddenTokensToRight, lazy
    <3> HIDE DEF tokens
    <3>2. Good(t) /\ MayEnd(t) /\ t.p = lazy.p
      <4>1. CASE lazy.thrown = "none"
        <5>1. i + 1 \in Nat
          BY <2>1, <2>3, <4>1 DEF OutOfRange
        <5> QED BY <1>1, <1>3, <5>1, SyncToChannelIsGood, SyncToChannelMayEnd
      <4>2. CASE lazy.thrown # "none"
        BY <1>3, <4>2 DEF SyncToChannel, Sync
      <4> QED BY <4>1, <4>2
    <3> HIDE DEF t
    <3>3. Position(t) = Cursor
      BY <1>3, <3>2 DEF Position
    <3> QED BY <1>6, <3>1, <3>2, <3>3 DEF MayEnd, Promise!Next
  <2> QED BY <2>2, <2>3
<1>15. ASSUME NEW i \in SeekTargets, NEW channel, GetHiddenTokensToLeft(i, channel)
       PROVE  Promise!Next
  <2> DEFINE r == [lazy EXCEPT !.thrown = "range"]
             call == "getHiddenTokensToLeft"
  <2>1. CASE OutOfRange(lazy, i)
    <3>1. FinishOn(r, call, i, channel, {})
      BY <1>15, <2>1 DEF GetHiddenTokensToLeft, lazy
    <3>2. Good(r) /\ r.thrown = "range" /\ r.p = lazy.p
      BY <1>3, ThrowIsGood DEF Good, Streams
    <3> HIDE DEF r
    <3>3. Position(r) = Cursor
      BY <1>3, <3>2 DEF Position
    <3> QED BY <1>6, <3>1, <3>2, <3>3 DEF Promise!Next
  <2>2. CASE ~OutOfRange(lazy, i)
    <3>1. \E tokens : FinishOn(lazy, call, i, channel, tokens)
      BY <1>15, <2>2 DEF GetHiddenTokensToLeft, lazy
    <3> QED BY <1>3, <1>6, <3>1 DEF MayEnd, Promise!Next
  <2> QED BY <2>1, <2>2
<1>16. CASE SetTokenSource
  <2>1. /\ source' \in Sources /\ \E f : stream' = Fresh(f)
        /\ Answer' = [call |-> "setTokenSource", arg |-> 0, thrown |-> "none", tokens |-> {}]
    BY <1>16 DEF SetTokenSource, Answer
  <2>2. stream'.p = Unset
    BY <2>1 DEF Fresh
  <2>3. (Filtering /\ source \in Sources => First = Promise!SymbolAtOrAfter(source, 0))'
    BY FirstIsPromised, PTL
  <2>4. Cursor' = Promise!SymbolAtOrAfter(source', 0)
    BY <2>1, <2>2, <2>3 DEF Cursor, First
  <2>5. Promise!SetTokenSource
    BY <2>1, <2>4 DEF Promise!SetTokenSource, Promise!Returned
  <2> QED BY <2>5 DEF Promise!Next
<1>17. CASE UNCHANGED vars
  <2>1. source' = source /\ Cursor' = Cursor /\ Answer' = Answer
    BY <1>17 DEF vars, Cursor, Answer, NextTokenOnChannel, AllTokens, Fresh, OnChannel
  <2> QED BY <2>1 DEF Promise!vars
<1> QED BY <1>7, <1>8, <1>9, <1>10, <1>11, <1>12, <1>13, <1>14, <1>15, <1>16, <1>17 DEF Next

LEMMA InitIsPromised ==
  ASSUME Filtering, Init
  PROVE  Promise!Init
<1>1. /\ source \in Sources /\ \E f : stream = Fresh(f)
      /\ Answer = [call |-> "new", arg |-> 0, thrown |-> "none", tokens |-> {}]
  BY DEF Init, Answer
<1>2. stream.p = Unset
  BY <1>1 DEF Fresh
<1>3. Cursor = Promise!SymbolAtOrAfter(source, 0)
  BY <1>1, <1>2, FirstIsSymbol DEF Cursor, First
<1> QED BY <1>1, <1>3 DEF Promise!Init, Promise!Returned

-----------------------------------------------------------------------------

(* The client of a CommonTokenStream cannot tell that tokens are fetched   *)
(* on demand, that the source failed in the middle of a call, or that a    *)
(* call was repeated: every behaviour is one of the stream that holds all  *)
(* its input from the start (CommonTokenStream.ts, IntStream.ts).          *)
THEOREM CommonTokenStreamKeepsPromise ==
  ASSUME Filtering
  PROVE  Spec => ImplementsTokenStream
<1>1. Init => Promise!Init
  BY InitIsPromised
<1>2. Inv /\ [Next]_vars => [Promise!Next]_Promise!vars
  BY NextIsPromised
<1> QED BY <1>1, <1>2, SpecKeepsInv, PTL DEF Spec, ImplementsTokenStream, Promise!Spec

============================================================================
