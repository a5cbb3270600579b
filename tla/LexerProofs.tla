------------------------------ MODULE LexerProofs ------------------------------
(***************************************************************************)
(* What holds of a lexer and its simulator whatever sets of configurations *)
(* there are: nothing of the text is lost or taken twice, and lines and    *)
(* columns are true; and, if the sets do not depend on where in the text   *)
(* they are computed, that the cache does not show; and, if they find the  *)
(* matches of the grammar, that the simulator implements Lexer.            *)
(*                                                                         *)
(* The invariant says of the lexer what holds between two matches (Rests), *)
(* and of the simulator that the place to come back to is a true one,      *)
(* between the beginning of the match and the stream (Follows).            *)
(***************************************************************************)
EXTENDS LexerWalks, Counting

Modes == DOMAIN g.modeToStartState
IsText == input \in Seq(Nat)

-----------------------------------------------------------------------------
(* Lines and columns. *)

(* The record x, of the lexer or of a token, is at a place of the text. *)
Stands(x) ==
  /\ x.index \in Indexes
  /\ x.line = LineAt(x.index) /\ x.column = ColumnAt(x.index)

(* The last end of a line before an index. *)
LEMMA LastNewline ==
  ASSUME IsText, NEW i \in Indexes, NewlinesBefore(i) # {}
  PROVE  \E k \in NewlinesBefore(i) : \A m \in NewlinesBefore(i) : m <= k
<1> DEFINE N == NewlinesBefore(i)
           S == {i - k : k \in N}
<1>1. i \in Nat /\ N \subseteq 1 .. i
  BY DEF Indexes, NewlinesBefore
<1> HIDE DEF N
<1>2. S \in SUBSET Nat /\ S # {}
  BY <1>1 DEF N
<1>3. PICK x \in S : \A y \in S : x <= y
  BY <1>2, LeastElement
<1>4. PICK k \in N : x = i - k
  BY <1>3
<1>5. \A m \in N : m <= k
  BY <1>1, <1>3, <1>4
<1> QED BY <1>4, <1>5 DEF N

LEMMA PlacesInText ==
  ASSUME IsText, NEW i \in Indexes
  PROVE  LineAt(i) \in 1 .. Len(input) + 1 /\ ColumnAt(i) \in Indexes
<1>1. i \in Nat /\ Len(input) \in Nat /\ i <= Len(input)
  BY DEF IsText, Indexes
<1>2. NewlinesBefore(i) \subseteq 1 .. i
  BY DEF NewlinesBefore
<1>3. Cardinality(NewlinesBefore(i)) \in 0 .. i
  <2>1. IsFiniteSet(1 .. i) /\ Cardinality(1 .. i) = i
    <3>1. 1 \in Int /\ i \in Int /\ (1 > i <=> i = 0) /\ i - 1 + 1 = i
      BY <1>1
    <3> QED BY <3>1, FS_Interval
  <2>2. IsFiniteSet(NewlinesBefore(i)) /\ Cardinality(NewlinesBefore(i)) <= i
    BY <1>2, <2>1, FS_Subset
  <2> QED BY <1>1, <2>2, FS_CardinalityType
<1>4. ColumnAt(i) \in Indexes
  <2>1. CASE NewlinesBefore(i) = {}
    BY <1>1, <2>1 DEF ColumnAt, Indexes
  <2>2. CASE NewlinesBefore(i) # {}
    <3> DEFINE last == CHOOSE k \in NewlinesBefore(i) : \A m \in NewlinesBefore(i) : m <= k
    <3>1. last \in NewlinesBefore(i)
      BY <2>2, LastNewline
    <3>2. ColumnAt(i) = i - last
      BY <2>2 DEF ColumnAt
    <3> HIDE DEF last
    <3> QED BY <1>1, <1>2, <3>1, <3>2 DEF Indexes
  <2> QED BY <2>1, <2>2
<1> QED BY <1>1, <1>3, <1>4 DEF LineAt

LEMMA FirstPlace == LineAt(0) = 1 /\ ColumnAt(0) = 0
<1>1. NewlinesBefore(0) = {}
  BY DEF NewlinesBefore
<1> QED BY <1>1, FS_EmptySet DEF LineAt, ColumnAt

(* A character on: the line and the column that LexerATNSimulator.consume  *)
(* counts.                                                                 *)
LEMMA NextPlace ==
  ASSUME IsText, NEW i \in Indexes, i < Len(input)
  PROVE  /\ i + 1 \in Indexes
         /\ LineAt(i + 1) = IF input[i + 1] = NEWLINE THEN LineAt(i) + 1 ELSE LineAt(i)
         /\ ColumnAt(i + 1) = IF input[i + 1] = NEWLINE THEN 0 ELSE ColumnAt(i) + 1
<1> DEFINE N == NewlinesBefore(i)
           M == NewlinesBefore(i + 1)
<1>1. i \in Nat /\ i + 1 \in Indexes
  BY DEF IsText, Indexes
<1>2. N \subseteq 1 .. i /\ IsFiniteSet(N) /\ Cardinality(N) \in Nat
  <2>1. N \subseteq 1 .. i
    BY DEF NewlinesBefore
  <2>2. IsFiniteSet(1 .. i)
    BY <1>1, FS_Interval
  <2> QED BY <2>1, <2>2, FS_Subset, FS_CardinalityType
<1>3. CASE input[i + 1] = NEWLINE
  <2>1. M = N \cup {i + 1} /\ i + 1 \notin N
    BY <1>1, <1>3 DEF NewlinesBefore
  <2> HIDE DEF N, M
  <2>2. Cardinality(M) = Cardinality(N) + 1
    BY <1>2, <2>1, FS_AddElement
  <2>3. \A k \in M : (\A m \in M : m <= k) <=> k = i + 1
    BY <1>1, <1>2, <2>1
  <2>4. (CHOOSE k \in M : \A m \in M : m <= k) = i + 1
    BY <2>1, <2>3
  <2>5. LineAt(i + 1) = LineAt(i) + 1
    BY <1>2, <2>2 DEF LineAt, N, M
  <2>6. ColumnAt(i + 1) = (i + 1) - (i + 1)
    BY <2>1, <2>4 DEF ColumnAt, M
  <2> QED BY <1>1, <1>3, <2>5, <2>6
<1>4. CASE input[i + 1] # NEWLINE
  <2>1. M = N
    BY <1>1, <1>4 DEF NewlinesBefore
  <2>2. LineAt(i + 1) = LineAt(i)
    BY <2>1 DEF LineAt
  <2>3. ColumnAt(i + 1) = ColumnAt(i) + 1
    <3>1. CASE N = {}
      BY <2>1, <3>1 DEF ColumnAt
    <3>2. CASE N # {}
      <4> DEFINE last == CHOOSE k \in N : \A m \in N : m <= k
      <4>1. last \in N
        BY <3>2, LastNewline
      <4>2. ColumnAt(i) = i - last /\ ColumnAt(i + 1) = (i + 1) - last
        BY <2>1, <3>2 DEF ColumnAt
      <4> HIDE DEF last, N
      <4>3. last \in Nat
        BY <1>1, <1>2, <4>1
      <4> QED BY <1>1, <4>2, <4>3
    <3> QED BY <3>1, <3>2
  <2> QED BY <1>1, <1>4, <2>2, <2>3
<1> QED BY <1>1, <1>3, <1>4

-----------------------------------------------------------------------------
(* The lexer. *)

Types == TokenTypes \cup {SKIP, MORE}
Places == [index : Indexes, line : Nat, column : Nat]
Pieces == [type : TokenTypes \cup {SKIP, ERROR_TEXT, LOST_TEXT}, channel : Nat,
           at : Places, stop : Int]

FieldNames ==
  {"index", "line", "column", "mode", "modeStack", "hitEOF", "start", "type", "channel",
   "calling", "thrown", "out", "ran"}

(* The index behind all that came out. *)
EndOf(out) == IF out = <<>> THEN 0 ELSE out[Len(out)].stop + 1

(* All that came out tiles the text up to there. *)
Tiled(out) ==
  /\ out \in Seq(Pieces)
  /\ out # <<>> => out[1].at.index = 0
  /\ \A i \in 2 .. Len(out) : out[i].at.index = out[i - 1].stop + 1
  /\ \A i \in 1 .. Len(out) :
       /\ Stands(out[i].at)
       /\ out[i].stop + 1 \in Indexes
       /\ out[i].type = ERROR_TEXT => out[i].stop >= out[i].at.index

(* What actions may change. *)
Acts(l) ==
  /\ FieldNames \subseteq DOMAIN l
  /\ l.mode \in Modes /\ l.modeStack \in Seq(Modes)
  /\ l.type \in Types /\ l.channel \in Nat /\ l.thrown \in BOOLEAN

(* A record is its fields. *)
IsRecord(l) == l = [f \in DOMAIN l |-> l[f]]

(* What they leave alone. *)
Same(l, m) ==
  /\ IsRecord(l) => IsRecord(m)
  /\ DOMAIN m = DOMAIN l /\ m.line = l.line /\ m.column = l.column /\ m.start = l.start
  /\ m.calling = l.calling /\ m.out = l.out

(* In the middle of a token, which began behind what came out. *)
Within(l) ==
  /\ l.start \in Places /\ Stands(l.start)
  /\ l.start.index = EndOf(l.out) /\ l.start.index <= l.index

(* The lexer when no match is under way; the stream then only goes on. *)
Rests(l) ==
  /\ Acts(l) /\ ~l.thrown
  /\ Stands(l) /\ Tiled(l.out)
  /\ \/ l.calling = "match" /\ Within(l)
     \/ l.calling \in {"no", "again"} /\ l.index = EndOf(l.out)

LEMMA PlaceOf ==
  ASSUME IsText, NEW l, Stands(l)
  PROVE  /\ [index |-> l.index, line |-> l.line, column |-> l.column] \in Places
         /\ Stands([index |-> l.index, line |-> l.line, column |-> l.column])
         /\ l.index \in Nat /\ l.index <= Len(input)
<1>1. LineAt(l.index) \in 1 .. Len(input) + 1 /\ ColumnAt(l.index) \in Indexes
      /\ Len(input) \in Nat
  BY PlacesInText DEF Stands, IsText
<1> QED BY <1>1 DEF Stands, Places, Indexes

LEMMA ConsumeStands ==
  ASSUME IsText, NEW l, FieldNames \subseteq DOMAIN l, Stands(l), l.index < Len(input)
  PROVE  /\ Stands(ConsumeChar(l)) /\ ConsumeChar(l).index = l.index + 1
         /\ FieldNames \subseteq DOMAIN ConsumeChar(l)
         /\ \A f \in FieldNames \ {"index", "line", "column"} : ConsumeChar(l)[f] = l[f]
<1> DEFINE i == l.index
           m == ConsumeChar(l)
<1>1. LA(l) = input[i + 1]
  BY DEF LA
<1>2. /\ m.index = i + 1 /\ FieldNames \subseteq DOMAIN m
      /\ m.line = IF LA(l) = NEWLINE THEN l.line + 1 ELSE l.line
      /\ m.column = IF LA(l) = NEWLINE THEN 0 ELSE l.column + 1
      /\ \A f \in FieldNames \ {"index", "line", "column"} : m[f] = l[f]
  BY DEF ConsumeChar, FieldNames
<1>3. i \in Indexes
  BY DEF Stands
<1> HIDE DEF m
<1>4. Stands(m)
  <2>1. /\ i + 1 \in Indexes
        /\ LineAt(i + 1) = IF input[i + 1] = NEWLINE THEN LineAt(i) + 1 ELSE LineAt(i)
        /\ ColumnAt(i + 1) = IF input[i + 1] = NEWLINE THEN 0 ELSE ColumnAt(i) + 1
    BY <1>3, NextPlace
  <2>2. l.line = LineAt(i) /\ l.column = ColumnAt(i)
    BY DEF Stands
  <2> QED BY <1>1, <1>2, <2>1, <2>2 DEF Stands
<1> QED BY <1>2, <1>4 DEF m

(* One more piece. *)
LEMMA OneMore ==
  ASSUME IsText, NEW out, Tiled(out), NEW p \in Pieces, Stands(p.at),
         p.at.index = EndOf(out), p.stop + 1 \in Indexes,
         p.type = ERROR_TEXT => p.stop >= p.at.index
  PROVE  Tiled(Append(out, p)) /\ EndOf(Append(out, p)) = p.stop + 1
<1> DEFINE n    == Len(out)
           more == Append(out, p)
<1>1. /\ n \in Nat /\ more \in Seq(Pieces) /\ Len(more) = n + 1 /\ more # <<>>
      /\ \A i \in 1 .. n : more[i] = out[i]
      /\ more[n + 1] = p /\ (out = <<>> <=> n = 0)
  <2>1. out \in Seq(Pieces)
    BY DEF Tiled
  <2> QED BY <2>1
<1> HIDE DEF n, more
<1>2. more[1].at.index = 0
  <2>1. CASE n = 0
    BY <1>1, <2>1 DEF EndOf
  <2>2. CASE n # 0
    BY <1>1, <2>2 DEF Tiled
  <2> QED BY <2>1, <2>2
<1>3. \A i \in 2 .. n + 1 : more[i].at.index = more[i - 1].stop + 1
  <2> TAKE i \in 2 .. n + 1
  <2>1. i \in Int /\ i - 1 \in 1 .. n /\ more[i - 1] = out[i - 1]
    BY <1>1
  <2>2. CASE i = n + 1
    <3>1. EndOf(out) = out[n].stop + 1 /\ i - 1 = n
      BY <1>1, <2>1, <2>2 DEF EndOf, n
    <3> QED BY <1>1, <2>1, <2>2, <3>1
  <2>3. CASE i # n + 1
    <3>1. i \in 2 .. n /\ more[i] = out[i]
      BY <1>1, <2>1, <2>3
    <3> QED BY <2>1, <3>1 DEF Tiled, n
  <2> QED BY <2>2, <2>3
<1>4. \A i \in 1 .. n + 1 :
        /\ Stands(more[i].at)
        /\ more[i].stop + 1 \in Indexes
        /\ more[i].type = ERROR_TEXT => more[i].stop >= more[i].at.index
  <2> TAKE i \in 1 .. n + 1
  <2>1. CASE i = n + 1
    BY <1>1, <2>1
  <2>2. CASE i # n + 1
    <3>1. i \in 1 .. n /\ more[i] = out[i]
      BY <1>1, <2>2
    <3> QED BY <3>1 DEF Tiled, n
  <2> QED BY <2>1, <2>2
<1>5. Tiled(more)
  BY <1>1, <1>2, <1>3, <1>4 DEF Tiled
<1>6. EndOf(more) = p.stop + 1
  BY <1>1 DEF EndOf
<1> QED BY <1>5, <1>6 DEF more

(* An exception of an action, a match, an error, the end of the input. *)
LEMMA EmitTiles ==
  ASSUME IsText, NEW l, Acts(l), Stands(l), Tiled(l.out), Within(l),
         NEW type \in TokenTypes \cup {SKIP, ERROR_TEXT, LOST_TEXT},
         type = ERROR_TEXT => l.start.index < l.index
  PROVE  /\ Tiled(Emit(l, type).out) /\ EndOf(Emit(l, type).out) = l.index
         /\ \A f \in FieldNames \ {"out"} : Emit(l, type)[f] = l[f]
         /\ FieldNames \subseteq DOMAIN Emit(l, type)
<1> DEFINE p == [type |-> type, channel |-> l.channel, at |-> l.start, stop |-> l.index - 1]
<1>1. /\ Emit(l, type).out = Append(l.out, p)
      /\ \A f \in FieldNames \ {"out"} : Emit(l, type)[f] = l[f]
      /\ FieldNames \subseteq DOMAIN Emit(l, type)
  BY DEF Emit, Acts, FieldNames
<1>2. l.index \in Nat /\ l.index \in Indexes
  BY PlaceOf DEF Stands
<1>3. l.start \in Places /\ Stands(l.start) /\ l.start.index = EndOf(l.out)
      /\ l.start.index \in Nat
  BY DEF Within, Places, Indexes
<1>4. p \in Pieces
  BY <1>2, <1>3 DEF Pieces, Acts
<1>5. /\ p.at = l.start /\ p.stop + 1 = l.index
      /\ p.type = ERROR_TEXT => p.stop >= p.at.index
  BY <1>2, <1>3
<1> HIDE DEF p
<1>6. Tiled(Append(l.out, p)) /\ EndOf(Append(l.out, p)) = p.stop + 1
  BY <1>2, <1>3, <1>4, <1>5, OneMore
<1> QED BY <1>1, <1>5, <1>6

LEMMA AfterThrowRests ==
  ASSUME IsText, NEW l, Acts(l), Stands(l), Tiled(l.out), Within(l)
  PROVE  Rests(AfterThrow(l)) /\ AfterThrow(l).calling # "match"
<1> DEFINE e == Emit(l, LOST_TEXT)
           m == AfterThrow(l)
<1>0. LOST_TEXT \in TokenTypes \cup {SKIP, ERROR_TEXT, LOST_TEXT} /\ LOST_TEXT # ERROR_TEXT
  BY DEF LOST_TEXT, ERROR_TEXT
<1>1. /\ Tiled(e.out) /\ EndOf(e.out) = l.index /\ FieldNames \subseteq DOMAIN e
      /\ \A f \in FieldNames \ {"out"} : e[f] = l[f]
  BY <1>0, EmitTiles
<1>2. m = [e EXCEPT !.thrown = FALSE, !.calling = "no"]
  BY DEF AfterThrow
<1> HIDE DEF e, m
<1>3. /\ m.out = e.out /\ m.thrown = FALSE /\ m.calling = "no" /\ FieldNames \subseteq DOMAIN m
      /\ \A f \in FieldNames \ {"out", "thrown", "calling"} : m[f] = l[f]
  BY <1>1, <1>2 DEF FieldNames
<1>4. Acts(m) /\ Stands(m)
  BY <1>3 DEF Acts, Stands, FieldNames
<1>5. m.index = EndOf(m.out)
  BY <1>1, <1>3 DEF FieldNames
<1> QED BY <1>1, <1>3, <1>4, <1>5 DEF Rests, m

LEMMA AfterMatchRests ==
  ASSUME IsText, NEW l, Acts(l), Stands(l), Tiled(l.out), Within(l), l.calling = "match",
         ~l.thrown, NEW ttype \in TokenTypes
  PROVE  Rests(AfterMatch(l, ttype))
<1> DEFINE type  == IF l.type = INVALID_TYPE THEN ttype ELSE l.type
           after == [l EXCEPT !.hitEOF = @ \/ LA(l) = EOF, !.type = type]
           m     == AfterMatch(l, ttype)
<1>1. type \in Types
  BY DEF Acts, Types
<1>2. /\ FieldNames \subseteq DOMAIN after /\ after.type = type
      /\ \A f \in FieldNames \ {"hitEOF", "type"} : after[f] = l[f]
  BY DEF Acts, FieldNames
<1>3. m = CASE type = SKIP -> [Emit(after, SKIP) EXCEPT !.calling = "again"]
            [] type = MORE -> [after EXCEPT !.type = INVALID_TYPE]
            [] OTHER -> [Emit(after, type) EXCEPT !.calling = "no"]
  BY DEF AfterMatch
<1> HIDE DEF type, after, m
<1>4. Acts(after) /\ Stands(after) /\ Tiled(after.out) /\ Within(after) /\ ~after.thrown
  <2>1. /\ after.index = l.index /\ after.line = l.line /\ after.column = l.column
        /\ after.mode = l.mode /\ after.modeStack = l.modeStack /\ after.channel = l.channel
        /\ after.thrown = l.thrown /\ after.start = l.start /\ after.out = l.out
    BY <1>2 DEF FieldNames
  <2> QED BY <1>1, <1>2, <2>1 DEF Acts, Stands, Within
<1>5. after.calling = "match"
  BY <1>2 DEF FieldNames
<1>6. ASSUME type # MORE, NEW c \in {"again", "no"}, m = [Emit(after, type) EXCEPT !.calling = c]
      PROVE  Rests(m)
  <2> DEFINE e == Emit(after, type)
  <2>1. type \in TokenTypes \cup {SKIP, ERROR_TEXT, LOST_TEXT} /\ type # ERROR_TEXT
    BY <1>1, <1>6 DEF Types, TokenTypes, EOF, SKIP, MORE, ERROR_TEXT
  <2>2. /\ Tiled(e.out) /\ EndOf(e.out) = after.index /\ FieldNames \subseteq DOMAIN e
        /\ \A f \in FieldNames \ {"out"} : e[f] = after[f]
    BY <1>4, <2>1, EmitTiles
  <2> HIDE DEF e
  <2>3. /\ m.out = e.out /\ m.calling = c /\ FieldNames \subseteq DOMAIN m
        /\ \A f \in FieldNames \ {"out", "calling"} : m[f] = after[f]
    BY <1>6, <2>2 DEF FieldNames, e
  <2>4. Acts(m) /\ Stands(m) /\ ~m.thrown
    BY <1>4, <2>3 DEF Acts, Stands, FieldNames
  <2>5. m.index = EndOf(m.out)
    BY <2>2, <2>3 DEF FieldNames
  <2> QED BY <2>2, <2>3, <2>4, <2>5 DEF Rests
<1>7. CASE type = SKIP
  <2>1. type # MORE
    BY <1>7 DEF SKIP, MORE
  <2> QED BY <1>3, <1>6, <1>7, <2>1 DEF m
<1>8. CASE type = MORE
  <2>1. m = [after EXCEPT !.type = INVALID_TYPE]
    BY <1>3, <1>8 DEF SKIP, MORE
  <2>2. /\ m.type = INVALID_TYPE /\ FieldNames \subseteq DOMAIN m
        /\ \A f \in FieldNames \ {"type"} : m[f] = after[f]
    BY <1>2, <2>1 DEF FieldNames
  <2>3. /\ m.index = after.index /\ m.line = after.line /\ m.column = after.column
        /\ m.mode = after.mode /\ m.modeStack = after.modeStack /\ m.channel = after.channel
        /\ m.thrown = after.thrown /\ m.start = after.start /\ m.out = after.out
        /\ m.calling = after.calling
    BY <2>2 DEF FieldNames
  <2>4. INVALID_TYPE \in Types
    BY DEF INVALID_TYPE, Types, TokenTypes
  <2> QED BY <1>4, <1>5, <2>2, <2>3, <2>4 DEF Rests, Acts, Stands, Within, m
<1>9. CASE type # SKIP /\ type # MORE
  BY <1>3, <1>6, <1>9 DEF m
<1> QED BY <1>7, <1>8, <1>9

(* The text in error is not empty: either the simulator had got on, or     *)
(* there is a character to drop.                                           *)
LEMMA AfterErrorRests ==
  ASSUME IsText, NEW l, Acts(l), Stands(l), Tiled(l.out), Within(l), ~l.thrown,
         LA(l) # EOF \/ l.start.index < l.index
  PROVE  Rests(AfterError(l)) /\ AfterError(l).calling # "match"
<1> DEFINE r == Recover(l)
           e == Emit(r, ERROR_TEXT)
           m == AfterError(l)
<1>1. l.start \in Places /\ l.start.index \in Nat /\ l.index \in Nat /\ Len(input) \in Nat
  <2>1. Len(input) \in Nat
    BY DEF IsText
  <2>2. l.start \in Places /\ l.start.index \in Indexes
    BY DEF Within, Places
  <2>3. l.index \in Nat
    BY PlaceOf
  <2>4. l.start.index \in Nat
    BY <2>1, <2>2 DEF Indexes
  <2> QED BY <2>1, <2>2, <2>3, <2>4
<1>2. /\ Stands(r) /\ FieldNames \subseteq DOMAIN r /\ l.start.index < r.index
      /\ \A f \in FieldNames \ {"index", "line", "column"} : r[f] = l[f]
  <2>1. CASE LA(l) = EOF
    <3>1. r = l /\ l.start.index < l.index
      BY <2>1 DEF Recover
    <3> HIDE DEF r
    <3> QED BY <3>1 DEF Acts
  <2>2. CASE LA(l) # EOF
    <3>1. l.index < Len(input)
      BY <2>2 DEF LA
    <3>2. r = ConsumeChar(l) /\ FieldNames \subseteq DOMAIN l
      BY <2>2 DEF Recover, Acts
    <3>3. /\ Stands(r) /\ r.index = l.index + 1 /\ FieldNames \subseteq DOMAIN r
          /\ \A f \in FieldNames \ {"index", "line", "column"} : r[f] = l[f]
      BY <3>1, <3>2, ConsumeStands
    <3> HIDE DEF r
    <3> QED BY <1>1, <3>3 DEF Within
  <2> QED BY <2>1, <2>2
<1>3. m = [e EXCEPT !.hitEOF = @ \/ LA(r) = EOF, !.type = SKIP, !.calling = "again"]
  BY DEF AfterError
<1> HIDE DEF r, m
<1>4. /\ r.mode = l.mode /\ r.modeStack = l.modeStack /\ r.channel = l.channel
      /\ r.type = l.type /\ r.thrown = l.thrown /\ r.start = l.start /\ r.out = l.out
  BY <1>2 DEF FieldNames
<1>5. r.index \in Nat
  BY <1>2, PlaceOf
<1>6. Acts(r) /\ Tiled(r.out) /\ Within(r)
  BY <1>1, <1>2, <1>4, <1>5 DEF Acts, Within
<1>7. /\ Tiled(e.out) /\ EndOf(e.out) = r.index /\ FieldNames \subseteq DOMAIN e
      /\ \A f \in FieldNames \ {"out"} : e[f] = r[f]
  BY <1>2, <1>4, <1>6, EmitTiles
<1> HIDE DEF e
<1>8. /\ m.out = e.out /\ m.calling = "again" /\ m.type = SKIP /\ FieldNames \subseteq DOMAIN m
      /\ m.index = r.index /\ m.line = r.line /\ m.column = r.column
      /\ m.mode = l.mode /\ m.modeStack = l.modeStack /\ m.channel = l.channel
      /\ m.thrown = l.thrown
  BY <1>3, <1>4, <1>7 DEF FieldNames
<1>9. Acts(m) /\ Stands(m)
  BY <1>2, <1>8 DEF Acts, Stands, Types
<1> QED BY <1>7, <1>8, <1>9 DEF Rests, m

-----------------------------------------------------------------------------
(* The actions of a token. *)

LEMMA PerformActs ==
  ASSUME NEW l, Acts(l), NEW a, IsAction(g, a)
  PROVE  Acts(Perform(l, a)) /\ Same(l, Perform(l, a)) /\ Perform(l, a).index = l.index
<1> DEFINE m == Perform(l, a)
<1>1. \/ a.kind = "skip" /\ m = [l EXCEPT !.type = SKIP]
      \/ a.kind = "more" /\ m = [l EXCEPT !.type = MORE]
      \/ a.kind = "type" /\ m = [l EXCEPT !.type = a.type]
      \/ a.kind = "channel" /\ m = [l EXCEPT !.channel = a.channel]
      \/ a.kind = "mode" /\ m = [l EXCEPT !.mode = a.mode]
      \/ /\ a.kind = "pushMode"
         /\ m = [l EXCEPT !.modeStack = <<l.mode>> \o @, !.mode = a.mode]
      \/ a.kind = "popMode" /\ l.modeStack = <<>> /\ m = [l EXCEPT !.thrown = TRUE]
      \/ /\ a.kind = "popMode" /\ l.modeStack # <<>>
         /\ m = [l EXCEPT !.mode = Head(l.modeStack), !.modeStack = Tail(@)]
      \/ a.kind = "custom" /\ m = [l EXCEPT !.ran = Append(@, [id |-> a.id, at |-> l.index])]
  <2>1. a.kind \in {"skip", "more", "type", "channel", "mode", "pushMode", "popMode", "custom"}
    BY DEF IsAction
  <2> QED BY <2>1 DEF Perform
<1> HIDE DEF m
<1>2. /\ a.kind = "type" => a.type \in TokenTypes
      /\ a.kind = "channel" => a.channel \in Nat
      /\ a.kind \in {"mode", "pushMode"} => a.mode \in Modes
  BY DEF IsAction, Modes
<1>3. /\ FieldNames \subseteq DOMAIN l
      /\ l.mode \in Modes /\ l.modeStack \in Seq(Modes)
      /\ l.type \in Types /\ l.channel \in Nat /\ l.thrown \in BOOLEAN
  BY DEF Acts
<1>4. DOMAIN m = DOMAIN l /\ IsRecord(m)
  BY <1>1, <1>3 DEF IsRecord
<1>5. /\ m.line = l.line /\ m.column = l.column /\ m.start = l.start
      /\ m.calling = l.calling /\ m.out = l.out /\ m.index = l.index
  BY <1>1, <1>3 DEF FieldNames
<1>6. m.type \in Types
  BY <1>1, <1>2, <1>3 DEF FieldNames, Types
<1>7. m.channel \in Nat /\ m.thrown \in BOOLEAN
  BY <1>1, <1>2, <1>3 DEF FieldNames
<1>8. m.mode \in Modes /\ m.modeStack \in Seq(Modes)
  <2>1. CASE a.kind = "pushMode"
    <3>1. m.mode = a.mode /\ m.modeStack = <<l.mode>> \o l.modeStack
      BY <1>1, <1>3, <2>1 DEF FieldNames
    <3> QED BY <1>2, <1>3, <2>1, <3>1
  <2>2. CASE a.kind = "popMode" /\ l.modeStack # <<>>
    <3>1. m.mode = Head(l.modeStack) /\ m.modeStack = Tail(l.modeStack)
      BY <1>1, <1>3, <2>2 DEF FieldNames
    <3> QED BY <1>3, <2>2, <3>1
  <2>3. CASE a.kind # "pushMode" /\ ~(a.kind = "popMode" /\ l.modeStack # <<>>)
    <3>1. m.modeStack = l.modeStack
      BY <1>1, <1>3, <2>3 DEF FieldNames
    <3>2. CASE a.kind = "mode"
      <4>1. m = [l EXCEPT !.mode = a.mode]
        BY <1>1, <3>2
      <4>2. m.mode = a.mode
        BY <1>3, <4>1 DEF FieldNames
      <4> QED BY <1>2, <1>3, <3>1, <3>2, <4>2
    <3>3. CASE a.kind # "mode"
      <4>1. m.mode = l.mode
        BY <1>1, <1>3, <2>3, <3>3 DEF FieldNames
      <4> QED BY <1>3, <3>1, <4>1
    <3> QED BY <3>2, <3>3
  <2> QED BY <2>1, <2>2, <2>3
<1>9. Acts(m) /\ Same(l, m)
  BY <1>3, <1>4, <1>5, <1>6, <1>7, <1>8 DEF Acts, Same
<1> QED BY <1>5, <1>9 DEF m

(* Executing: unless the stream has to be put back, it is at its place.    *)
Executing(l, e) ==
  /\ Acts(e.lexer) /\ Same(l, e.lexer)
  /\ e.seek \in BOOLEAN /\ (~e.seek => e.lexer.index = l.index)

LEMMA ExecuteOneActs ==
  ASSUME NEW l, NEW e, Executing(l, e), NEW a, IsAction(g, a), NEW start
  PROVE  Executing(l, ExecuteOne(e, a, start, l.index))
<1> DEFINE Moved(i)    == [e.lexer EXCEPT !.index = i]
           Do(i, seek) == [lexer |-> Perform(Moved(i), a), seek |-> seek]
<1>1. ASSUME NEW i, NEW seek \in BOOLEAN, ~seek => i = l.index
      PROVE  Executing(l, Do(i, seek))
  <2>1. FieldNames \subseteq DOMAIN e.lexer /\ Acts(e.lexer) /\ Same(l, e.lexer)
    BY DEF Executing, Acts
  <2> DEFINE m == Moved(i)
  <2>0. IsRecord(m)
    BY DEF IsRecord
  <2>2. /\ m.index = i /\ DOMAIN m = DOMAIN e.lexer
        /\ m.line = e.lexer.line /\ m.column = e.lexer.column /\ m.start = e.lexer.start
        /\ m.calling = e.lexer.calling /\ m.out = e.lexer.out /\ m.mode = e.lexer.mode
        /\ m.modeStack = e.lexer.modeStack /\ m.type = e.lexer.type
        /\ m.channel = e.lexer.channel /\ m.thrown = e.lexer.thrown
    BY <2>1 DEF FieldNames
  <2> HIDE DEF m
  <2>3. Acts(m) /\ Same(l, m)
    BY <2>0, <2>1, <2>2 DEF Acts, Same
  <2>4. Acts(Perform(m, a)) /\ Same(m, Perform(m, a)) /\ Perform(m, a).index = i
    BY <2>2, <2>3, PerformActs
  <2>5. Do(i, seek).lexer = Perform(m, a) /\ Do(i, seek).seek = seek
    BY DEF m
  <2> HIDE DEF Do
  <2> QED BY <1>1, <2>3, <2>4, <2>5 DEF Executing, Same
<1>2. \/ ExecuteOne(e, a, start, l.index) = e
      \/ ExecuteOne(e, a, start, l.index) = Do(start + a.offset, start + a.offset # l.index)
      \/ ExecuteOne(e, a, start, l.index) = Do(l.index, FALSE)
      \/ ExecuteOne(e, a, start, l.index) = Do(e.lexer.index, e.seek)
  BY DEF ExecuteOne
<1> HIDE DEF Do
<1>3. Executing(l, Do(start + a.offset, start + a.offset # l.index))
  BY <1>1
<1>4. Executing(l, Do(l.index, FALSE)) /\ Executing(l, Do(e.lexer.index, e.seek))
  BY <1>1 DEF Executing
<1> QED BY <1>2, <1>3, <1>4

(* The loop over the actions: its turns are a function, one value each.    *)
AreTurns(f, n, l, actions, start, stop) ==
  f = [i \in 0 .. n |-> IF i = 0 THEN [lexer |-> l, seek |-> FALSE]
                        ELSE ExecuteOne(f[i - 1], actions[i], start, stop)]

LEMMA TurnsExist ==
  ASSUME NEW l, NEW actions, NEW start, NEW stop, NEW n \in Nat
  PROVE  \E f : AreTurns(f, n, l, actions, start, stop)
<1> DEFINE First == [lexer |-> l, seek |-> FALSE]
           Turns(f, k) == AreTurns(f, k, l, actions, start, stop)
           Missing == {k \in Nat : ~\E f : Turns(f, k)}
<1>1. \E f : Turns(f, 0)
  <2> DEFINE f == [i \in 0 .. 0 |-> First]
  <2>1. Turns(f, 0)
    BY DEF AreTurns
  <2> QED BY <2>1
<1>2. ASSUME NEW k \in Nat, NEW f, Turns(f, k)
      PROVE  \E h : Turns(h, k + 1)
  <2> DEFINE h == [i \in 0 .. k + 1 |->
                     IF i = k + 1 THEN ExecuteOne(f[k], actions[k + 1], start, stop) ELSE f[i]]
             t == [i \in 0 .. k + 1 |-> IF i = 0 THEN First
                                        ELSE ExecuteOne(h[i - 1], actions[i], start, stop)]
  <2>1. /\ \A i \in 0 .. k : h[i] = f[i]
        /\ h[k + 1] = ExecuteOne(f[k], actions[k + 1], start, stop)
    OBVIOUS
  <2>2. h = [i \in 0 .. k + 1 |-> h[i]]
    OBVIOUS
  <2>3. /\ f[0] = First
        /\ \A i \in 1 .. k : f[i] = ExecuteOne(f[i - 1], actions[i], start, stop)
    <3>1. 0 \in 0 .. k /\ \A i \in 1 .. k : i \in 0 .. k /\ i # 0
      OBVIOUS
    <3>2. f = [i \in 0 .. k |-> IF i = 0 THEN First
                                ELSE ExecuteOne(f[i - 1], actions[i], start, stop)]
      BY <1>2 DEF AreTurns
    <3> HIDE DEF First
    <3> QED BY <3>1, <3>2
  <2> HIDE DEF h, First
  <2>4. \A i \in 0 .. k + 1 :
          h[i] = IF i = 0 THEN First ELSE ExecuteOne(h[i - 1], actions[i], start, stop)
    <3> TAKE i \in 0 .. k + 1
    <3>1. CASE i = 0
      <4>1. 0 \in 0 .. k
        OBVIOUS
      <4> QED BY <2>1, <2>3, <3>1, <4>1
    <3>2. CASE i = k + 1
      <4>1. i - 1 = k /\ k \in 0 .. k /\ i # 0
        BY <3>2
      <4>2. h[i - 1] = f[k]
        BY <2>1, <4>1
      <4> QED BY <2>1, <3>2, <4>1, <4>2
    <3>3. CASE i # 0 /\ i # k + 1
      <4>1. i \in 1 .. k /\ i \in 0 .. k /\ i - 1 \in 0 .. k
        BY <3>3
      <4>2. h[i] = f[i] /\ h[i - 1] = f[i - 1]
        BY <2>1, <4>1
      <4> QED BY <2>3, <3>3, <4>1, <4>2
    <3> QED BY <3>1, <3>2, <3>3
  <2>5. Turns(h, k + 1)
    BY <2>2, <2>4 DEF AreTurns, First
  <2> QED BY <2>5
<1> HIDE DEF Turns
<1>3. Missing = {}
  <2> SUFFICES ASSUME Missing # {} PROVE FALSE
    OBVIOUS
  <2>1. PICK k \in Missing : \A j \in Missing : k <= j
    BY LeastElement
  <2>2. k \in Nat /\ k # 0 /\ ~\E f : Turns(f, k)
    BY <1>1, <2>1
  <2>3. k - 1 \in Nat /\ ~(k <= k - 1) /\ (k - 1) + 1 = k
    BY <2>2
  <2>4. PICK f : Turns(f, k - 1)
    BY <2>1, <2>3
  <2>5. \E h : Turns(h, (k - 1) + 1)
    BY <1>2, <2>3, <2>4
  <2> QED BY <2>2, <2>3, <2>5
<1>4. PICK f : Turns(f, n)
  BY <1>3
<1> QED BY <1>4 DEF Turns

(* What Execute is: the end of those turns. *)
LEMMA ExecuteTurns ==
  ASSUME NEW l, NEW actions, Len(actions) \in Nat, NEW start
  PROVE  \E after :
           /\ AreTurns(after, Len(actions), l, actions, start, l.index)
           /\ Execute(l, actions, start) =
                IF after[Len(actions)].seek
                THEN [after[Len(actions)].lexer EXCEPT !.index = l.index]
                ELSE after[Len(actions)].lexer
<1> DEFINE n     == Len(actions)
           stop  == l.index
           after == CHOOSE f : f = [i \in 0 .. n |->
                       IF i = 0 THEN [lexer |-> l, seek |-> FALSE]
                       ELSE ExecuteOne(f[i - 1], actions[i], start, stop)]
<1>1. AreTurns(after, n, l, actions, start, stop)
  <2> DEFINE Turns(f) == AreTurns(f, n, l, actions, start, stop)
  <2>1. \E f : Turns(f)
    BY TurnsExist
  <2>2. after = CHOOSE f : Turns(f)
    BY DEF AreTurns
  <2> HIDE DEF Turns, after
  <2>3. Turns(after)
    BY <2>1, <2>2
  <2> QED BY <2>3 DEF Turns
<1>2. Execute(l, actions, start) =
        IF after[n].seek THEN [after[n].lexer EXCEPT !.index = l.index] ELSE after[n].lexer
  BY DEF Execute
<1> HIDE DEF after
<1> QED BY <1>1, <1>2

LEMMA ExecuteActs ==
  ASSUME NEW l, Acts(l), NEW actions, Len(actions) \in Nat,
         \A k \in 1 .. Len(actions) : IsAction(g, actions[k]), NEW start
  PROVE  /\ Acts(Execute(l, actions, start)) /\ Same(l, Execute(l, actions, start))
         /\ Execute(l, actions, start).index = l.index
<1> DEFINE n    == Len(actions)
           stop == l.index
<1>1. PICK after : AreTurns(after, n, l, actions, start, stop)
                   /\ Execute(l, actions, start) =
                        IF after[n].seek THEN [after[n].lexer EXCEPT !.index = l.index]
                        ELSE after[n].lexer
  BY ExecuteTurns
<1> DEFINE Wrong == {k \in 0 .. n : ~Executing(l, after[k])}
<1>3. Executing(l, after[0])
  <2>1. after[0] = [lexer |-> l, seek |-> FALSE]
    BY <1>1 DEF AreTurns
  <2> QED BY <2>1 DEF Executing, Same
<1>4. ASSUME NEW k \in 1 .. n, Executing(l, after[k - 1])
      PROVE  Executing(l, after[k])
  <2>1. k \in 0 .. n /\ k # 0
    OBVIOUS
  <2>2. after[k] = ExecuteOne(after[k - 1], actions[k], start, stop)
    BY <1>1, <2>1 DEF AreTurns
  <2> QED BY <1>4, <2>2, ExecuteOneActs
<1>5. Wrong = {}
  <2> SUFFICES ASSUME Wrong # {} PROVE FALSE
    OBVIOUS
  <2>1. PICK k \in Wrong : \A j \in Wrong : k <= j
    <3>1. Wrong \in SUBSET Nat
      OBVIOUS
    <3> HIDE DEF Wrong
    <3> QED BY <3>1, LeastElement
  <2>2. k \in 0 .. n /\ k # 0 /\ ~Executing(l, after[k])
    BY <1>3, <2>1
  <2>3. k \in 1 .. n /\ k - 1 \in 0 .. n /\ ~(k <= k - 1)
    BY <2>2
  <2> HIDE DEF n
  <2>4. Executing(l, after[k - 1])
    BY <2>1, <2>3
  <2> QED BY <1>4, <2>2, <2>3, <2>4
<1> DEFINE e == after[n]
           m == Execute(l, actions, start)
<1>6. Executing(l, e)
  <2>1. n \in 0 .. n
    OBVIOUS
  <2> QED BY <1>5, <2>1
<1>7. m = IF e.seek THEN [e.lexer EXCEPT !.index = l.index] ELSE e.lexer
  BY <1>1
<1> HIDE DEF e, m
<1>8. CASE e.seek
  <2>1. m = [e.lexer EXCEPT !.index = l.index] /\ FieldNames \subseteq DOMAIN e.lexer
    BY <1>6, <1>7, <1>8 DEF Executing, Acts
  <2>2. /\ m.index = l.index /\ DOMAIN m = DOMAIN e.lexer
        /\ m.line = e.lexer.line /\ m.column = e.lexer.column /\ m.start = e.lexer.start
        /\ m.calling = e.lexer.calling /\ m.out = e.lexer.out /\ m.mode = e.lexer.mode
        /\ m.modeStack = e.lexer.modeStack /\ m.type = e.lexer.type
        /\ m.channel = e.lexer.channel /\ m.thrown = e.lexer.thrown
    BY <2>1 DEF FieldNames
  <2>3. IsRecord(m)
    BY <2>1 DEF IsRecord
  <2> QED BY <1>6, <2>2, <2>3 DEF Executing, Acts, Same, m
<1>9. CASE ~e.seek
  BY <1>6, <1>7, <1>9 DEF Executing, m
<1>10. e.seek \in BOOLEAN
  BY <1>6 DEF Executing
<1> QED BY <1>8, <1>9, <1>10

-----------------------------------------------------------------------------
(* The simulator. *)

(* The sets of configurations that the ATN's start states and the symbols  *)
(* lead to, wherever in the text.                                          *)
IsClosed(h, family) ==
  /\ NoSet \in family
  /\ \A mode \in DOMAIN h.modeToStartState : \A column \in Nat :
       StartState(h, mode, column).configs \in family
  /\ \A configs \in family : \A symbol \in Nat \cup {EOF} : \A column, offset \in Nat :
       ReachableSet(h, configs, symbol, column, offset).configs \in family
Arises(h, configs) == \A family : IsClosed(h, family) => configs \in family

(* What the proofs need of the sets that are computed from the ATN: that   *)
(* they are sets of its configurations.                                    *)
SetsAreOfTheATN == \A h \in Grammars : \A configs : Arises(h, configs) => IsSet(h, configs)

LEMMA NoSetArises == \A h : Arises(h, NoSet)
BY DEF Arises, IsClosed

LEMMA StartArises ==
  ASSUME NEW h, NEW mode \in DOMAIN h.modeToStartState, NEW column \in Nat
  PROVE  Arises(h, StartState(h, mode, column).configs)
BY DEF Arises, IsClosed

LEMMA ReachArises ==
  ASSUME NEW h, NEW configs, Arises(h, configs), NEW symbol \in Nat \cup {EOF},
         NEW column \in Nat, NEW offset \in Nat
  PROVE  Arises(h, ReachableSet(h, configs, symbol, column, offset).configs)
BY DEF Arises, IsClosed

(* A place to come back to, in a match that began at `from'. *)
ComesBack(a, from, l) ==
  /\ a.index \in Nat /\ from <= a.index /\ a.index <= l.index
  /\ Stands(a) /\ Arises(g, a.state) /\ Accepting(a.state)

(* In the middle of a match, or not in one. *)
Follows(l, s) ==
  /\ {"phase", "startIndex", "state", "prevAccept"} \subseteq DOMAIN s
  /\ s.phase \in {"idle", "exec", "ended"} /\ Arises(g, s.state)
  /\ s.phase = "idle" => s.prevAccept = NoAccept
  /\ s.phase # "idle" =>
       /\ l.calling = "match"
       /\ s.startIndex \in Nat /\ l.start.index <= s.startIndex /\ s.startIndex <= l.index
       /\ s.prevAccept # NoAccept => ComesBack(s.prevAccept, s.startIndex, l)

(* The cache is one of sets, with an edge at most for a symbol. *)
Remembers(d) ==
  /\ DOMAIN d = Modes
  /\ \A m \in Modes :
       /\ {"s0", "edges"} \subseteq DOMAIN d[m] /\ Arises(g, d[m].s0)
       /\ \A e \in d[m].edges : Arises(g, e.to)
       /\ \A e, f \in d[m].edges : e.from = f.from /\ e.on = f.on => e = f

IInv ==
  /\ g \in Grammars /\ input \in Inputs(g)
  /\ Rests(lexer) /\ Follows(lexer, sim) /\ Remembers(dfa)

LEMMA InputIsText == ASSUME g \in Grammars, input \in Inputs(g) PROVE IsText
BY LexersAreWellFormed DEF IsText

(* Between two matches there is nothing to come back to. *)
LEMMA IdleFollows == ASSUME NEW l PROVE Follows(l, Idle)
BY NoSetArises DEF Follows, Idle

LEMMA FirstEndIsEnd ==
  ASSUME g \in Grammars, NEW configs, IsSet(g, configs), Accepting(configs)
  PROVE  /\ IsConfiguration(g, FirstEnd(configs))
         /\ g.ruleToTokenType[g.rule[FirstEnd(configs).state]] \in TokenTypes
<1> DEFINE S == Ends(configs)
           i == MinimumOf(S)
<1>1. S \in SUBSET Nat /\ S # {} /\ S \subseteq DOMAIN configs
  <2>1. DOMAIN configs = 1 .. Len(configs) /\ Len(configs) \in Nat
    BY DEF IsSet
  <2> QED BY <2>1 DEF Accepting, Ends
<1> HIDE DEF S
<1>2. \E x \in S : \A y \in S : x <= y
  BY <1>1, LeastElement
<1>3. i \in S
  BY <1>2 DEF MinimumOf
<1> HIDE DEF i
<1>4. i \in DOMAIN configs /\ g.type[configs[i].state] = "RULE_STOP"
  BY <1>3 DEF S, Ends
<1>5. FirstEnd(configs) = configs[i]
  BY DEF FirstEnd, i, S
<1>6. IsConfiguration(g, configs[i])
  BY <1>4 DEF IsSet
<1>7. configs[i].state \in DOMAIN g.type
  BY <1>6 DEF IsConfiguration
<1> QED BY <1>4, <1>5, <1>6, <1>7, LexersAreWellFormed

LEMMA SymbolHere == ASSUME IsText, NEW l, l.index \in Nat PROVE LA(l) \in Nat \cup {EOF}
<1>1. CASE l.index < Len(input)
  <2>1. Len(input) \in Nat
    BY DEF IsText
  <2>2. l.index + 1 \in 1 .. Len(input)
    BY <1>1, <2>1
  <2>3. input[l.index + 1] \in Nat
    BY <2>2 DEF IsText
  <2> QED BY <1>1, <2>3 DEF LA
<1>2. CASE ~(l.index < Len(input))
  BY <1>2 DEF LA
<1> QED BY <1>1, <1>2

(* What StartHere and ReachHere come to. *)
LEMMA SetsHere ==
  ASSUME IInv
  PROVE  /\ Arises(g, StartHere.configs)
         /\ sim.phase # "idle" => Arises(g, ReachHere.configs)
<1>1. IsText /\ Stands(lexer) /\ g \in Grammars /\ FieldNames \subseteq DOMAIN lexer
  BY InputIsText DEF IInv, Rests, Acts
<1>2. lexer.index \in Nat /\ lexer.column \in Nat
  BY <1>1, PlaceOf, PlacesInText DEF Stands, Indexes
<1>3. Arises(g, StartHere.configs)
  <2>1. lexer.mode \in DOMAIN g.modeToStartState
    BY DEF IInv, Rests, Acts, Modes
  <2> QED BY <1>2, <2>1, StartArises DEF StartHere
<1>4. ASSUME sim.phase # "idle" PROVE Arises(g, ReachHere.configs)
  <2>1. ConsumeChar(lexer).column \in Nat
    <3>1. ConsumeChar(lexer).column = IF LA(lexer) = NEWLINE THEN 0 ELSE lexer.column + 1
      BY <1>1 DEF ConsumeChar, FieldNames
    <3> QED BY <1>2, <3>1
  <2>2. lexer.index - sim.startIndex \in Nat
    BY <1>2, <1>4 DEF IInv, Follows
  <2>3. LA(lexer) \in Nat \cup {EOF}
    BY <1>1, <1>2, SymbolHere
  <2>4. Arises(g, sim.state)
    BY DEF IInv, Follows
  <2> QED BY <2>1, <2>2, <2>3, <2>4, ReachArises DEF ReachHere
<1> QED BY <1>3, <1>4

-----------------------------------------------------------------------------
(* The steps.  The invariant of the next state is shown of its variables,  *)
(* under the grammar and the text of this one.                             *)

Kept == Rests(lexer') /\ Follows(lexer', sim') /\ Remembers(dfa')

(* nextToken. *)
LEMMA BeginRests ==
  ASSUME IsText, NEW l, Rests(l), l.calling # "match"
  PROVE  Rests(BeginToken(l))
<1> DEFINE m == BeginToken(l)
<1>1. Acts(l) /\ ~l.thrown /\ Stands(l) /\ Tiled(l.out) /\ l.index = EndOf(l.out)
  BY DEF Rests
<1>2. /\ m.calling = "match" /\ m.type = INVALID_TYPE /\ m.channel = DEFAULT_CHANNEL
      /\ m.start = [index |-> l.index, line |-> l.line, column |-> l.column]
      /\ FieldNames \subseteq DOMAIN m
      /\ \A f \in FieldNames \ {"calling", "type", "channel", "start"} : m[f] = l[f]
  BY <1>1 DEF BeginToken, Acts, FieldNames
<1> HIDE DEF m
<1>3. /\ m.index = l.index /\ m.line = l.line /\ m.column = l.column /\ m.mode = l.mode
      /\ m.modeStack = l.modeStack /\ m.thrown = l.thrown /\ m.out = l.out
  BY <1>2 DEF FieldNames
<1>4. m.start \in Places /\ Stands(m.start) /\ l.index \in Nat /\ m.start.index = l.index
  BY <1>1, <1>2, PlaceOf
<1>5. Within(m)
  BY <1>1, <1>3, <1>4 DEF Within
<1>6. INVALID_TYPE \in Types /\ DEFAULT_CHANNEL \in Nat
  BY DEF INVALID_TYPE, Types, TokenTypes, DEFAULT_CHANNEL
<1> QED BY <1>1, <1>2, <1>3, <1>5, <1>6 DEF Rests, Acts, Stands, m

LEMMA EOFRests ==
  ASSUME IsText, NEW l, Rests(l), l.calling # "match"
  PROVE  Rests(EmitEOF(l))
<1> DEFINE here == [index |-> l.index, line |-> l.line, column |-> l.column]
           p == [type |-> EOF, channel |-> DEFAULT_CHANNEL, at |-> here, stop |-> l.index - 1]
           m == EmitEOF(l)
<1>1. Acts(l) /\ ~l.thrown /\ Stands(l) /\ Tiled(l.out) /\ l.index = EndOf(l.out)
  BY DEF Rests
<1>2. /\ m.calling = "no" /\ m.out = Append(l.out, p) /\ FieldNames \subseteq DOMAIN m
      /\ \A f \in FieldNames \ {"calling", "out"} : m[f] = l[f]
  BY <1>1 DEF EmitEOF, Acts, FieldNames
<1> HIDE DEF m
<1>3. /\ m.index = l.index /\ m.line = l.line /\ m.column = l.column /\ m.mode = l.mode
      /\ m.modeStack = l.modeStack /\ m.thrown = l.thrown /\ m.type = l.type
      /\ m.channel = l.channel
  BY <1>2 DEF FieldNames
<1>4. here \in Places /\ Stands(here) /\ l.index \in Nat /\ here.index = l.index
  BY <1>1, PlaceOf
<1> HIDE DEF here
<1>5. p \in Pieces /\ p.at = here /\ p.stop + 1 = l.index /\ p.type # ERROR_TEXT
  BY <1>4 DEF Pieces, TokenTypes, EOF, DEFAULT_CHANNEL, ERROR_TEXT
<1> HIDE DEF p
<1>6. Tiled(m.out) /\ EndOf(m.out) = l.index
  BY <1>1, <1>2, <1>4, <1>5, OneMore DEF Stands
<1> QED BY <1>1, <1>2, <1>3, <1>6 DEF Rests, Acts, Stands, m

LEMMA CallNextTokenKeeps == ASSUME IInv, CallNextToken PROVE Kept
<1>1. /\ lexer.calling # "match" /\ UNCHANGED <<sim, dfa>>
      /\ lexer' = IF lexer.hitEOF THEN EmitEOF(lexer) ELSE BeginToken(lexer)
  BY DEF CallNextToken, NextToken
<1>2. Rests(lexer')
  BY <1>1, InputIsText, BeginRests, EOFRests DEF IInv
<1>3. Follows(lexer', sim')
  BY <1>1 DEF IInv, Follows
<1> QED BY <1>1, <1>2, <1>3 DEF Kept, IInv

(* match, execATN. *)
LEMMA CapturedComesBack ==
  ASSUME IsText, NEW l, Stands(l), NEW configs, Arises(g, configs), NEW before,
         NEW from \in Nat, from <= l.index, before # NoAccept => ComesBack(before, from, l)
  PROVE  Captured(l, configs, before) # NoAccept
           => ComesBack(Captured(l, configs, before), from, l)
<1>1. CASE Accepting(configs)
  <2>1. Captured(l, configs, before) =
          [index |-> l.index, line |-> l.line, column |-> l.column, state |-> configs]
    BY <1>1 DEF Captured
  <2>2. l.index \in Nat
    BY PlaceOf
  <2> QED BY <1>1, <2>1, <2>2 DEF ComesBack, Stands
<1>2. CASE ~Accepting(configs)
  BY <1>2 DEF Captured
<1> QED BY <1>1, <1>2

LEMMA BeginFollows ==
  ASSUME IInv, lexer.calling = "match", NEW configs, Arises(g, configs), Begin(configs)
  PROVE  Follows(lexer, sim')
<1>1. IsText /\ Stands(lexer) /\ Within(lexer)
  BY InputIsText DEF IInv, Rests
<1>2. lexer.index \in Nat /\ lexer.start.index <= lexer.index
  BY <1>1, PlaceOf DEF Within
<1>3. /\ {"phase", "startIndex", "state", "prevAccept"} \subseteq DOMAIN sim'
      /\ sim'.phase = "exec" /\ sim'.startIndex = lexer.index /\ sim'.state = configs
      /\ sim'.prevAccept = Captured(lexer, configs, NoAccept)
  BY DEF Begin
<1>4. sim'.prevAccept # NoAccept => ComesBack(sim'.prevAccept, lexer.index, lexer)
  BY <1>1, <1>2, <1>3, CapturedComesBack
<1> QED BY <1>2, <1>3, <1>4 DEF Follows

LEMMA MatchFromDFAKeeps == ASSUME IInv, MatchFromDFA PROVE Kept
<1>1. lexer.mode \in Modes /\ Arises(g, dfa[lexer.mode].s0)
  BY DEF IInv, Rests, Acts, Remembers
<1>2. Begin(dfa[lexer.mode].s0) /\ lexer.calling = "match" /\ UNCHANGED <<lexer, dfa>>
  BY DEF MatchFromDFA, lexerVars
<1>3. Follows(lexer, sim')
  BY <1>1, <1>2, BeginFollows
<1> QED BY <1>2, <1>3 DEF Kept, IInv

LEMMA MatchATNKeeps == ASSUME IInv, MatchATN PROVE Kept
<1> DEFINE start == StartHere
<1>1. /\ lexer.calling = "match" /\ UNCHANGED lexer /\ Begin(start.configs)
      /\ dfa' = IF start.predicated THEN dfa
                ELSE [dfa EXCEPT ![lexer.mode].s0 = start.configs]
  BY DEF MatchATN, lexerVars
<1>2. Arises(g, start.configs)
  BY SetsHere
<1> HIDE DEF start
<1>3. Follows(lexer, sim')
  BY <1>1, <1>2, BeginFollows
<1>4. lexer.mode \in Modes /\ Remembers(dfa)
  BY DEF IInv, Rests, Acts
<1>5. Remembers(dfa')
  <2>1. CASE dfa' = dfa
    BY <1>4, <2>1
  <2>2. CASE dfa' = [dfa EXCEPT ![lexer.mode].s0 = start.configs]
    <3>1. DOMAIN dfa' = Modes
      BY <1>4, <2>2 DEF Remembers
    <3>2. ASSUME NEW m \in Modes
          PROVE  /\ {"s0", "edges"} \subseteq DOMAIN dfa'[m] /\ Arises(g, dfa'[m].s0)
                 /\ dfa'[m].edges = dfa[m].edges
      <4>1. CASE m = lexer.mode
        <5>1. dfa'[m] = [dfa[m] EXCEPT !.s0 = start.configs]
          BY <1>4, <2>2, <4>1 DEF Remembers
        <5>2. {"s0", "edges"} \subseteq DOMAIN dfa[m]
          BY <1>4 DEF Remembers
        <5> QED BY <1>2, <5>1, <5>2
      <4>2. CASE m # lexer.mode
        <5>1. dfa'[m] = dfa[m]
          BY <1>4, <2>2, <4>2 DEF Remembers
        <5> QED BY <1>4, <5>1 DEF Remembers
      <4> QED BY <4>1, <4>2
    <3> QED BY <1>4, <3>1, <3>2 DEF Remembers
  <2> QED BY <1>1, <2>1, <2>2
<1> QED BY <1>1, <1>3, <1>5 DEF Kept, IInv

LEMMA TurnKeeps ==
  ASSUME IInv, sim.phase = "exec", NEW target, Arises(g, target), Turn(target)
  PROVE  Rests(lexer') /\ Follows(lexer', sim')
<1>1. /\ IsText /\ Rests(lexer) /\ Follows(lexer, sim) /\ lexer.calling = "match"
      /\ Within(lexer) /\ Stands(lexer) /\ Acts(lexer) /\ FieldNames \subseteq DOMAIN lexer
  BY InputIsText DEF IInv, Rests, Follows, Acts
<1>2. /\ lexer.index \in Nat /\ lexer.start.index <= lexer.index
      /\ sim.startIndex \in Nat /\ lexer.start.index <= sim.startIndex
      /\ sim.startIndex <= lexer.index
      /\ sim.prevAccept # NoAccept => ComesBack(sim.prevAccept, sim.startIndex, lexer)
  BY <1>1, PlaceOf DEF Within, Follows
<1>3. /\ Rests(lexer') /\ Stands(lexer') /\ lexer'.calling = "match"
      /\ lexer'.index \in Nat /\ lexer.index <= lexer'.index /\ lexer'.start = lexer.start
  <2>1. CASE lexer' = lexer
    BY <1>1, <1>2, <2>1
  <2>2. CASE lexer' # lexer
    <3>1. lexer' = ConsumeChar(lexer) /\ LA(lexer) # EOF
      BY <2>2 DEF Turn
    <3>2. lexer.index < Len(input)
      BY <3>1 DEF LA
    <3>3. /\ Stands(lexer') /\ lexer'.index = lexer.index + 1 /\ FieldNames \subseteq DOMAIN lexer'
          /\ \A f \in FieldNames \ {"index", "line", "column"} : lexer'[f] = lexer[f]
      BY <1>1, <3>1, <3>2, ConsumeStands
    <3>4. /\ lexer'.mode = lexer.mode /\ lexer'.modeStack = lexer.modeStack
          /\ lexer'.type = lexer.type /\ lexer'.channel = lexer.channel
          /\ lexer'.thrown = lexer.thrown /\ lexer'.start = lexer.start
          /\ lexer'.out = lexer.out /\ lexer'.calling = lexer.calling
      BY <3>3 DEF FieldNames
    <3>5. Acts(lexer')
      BY <1>1, <3>3, <3>4 DEF Acts
    <3>6. lexer'.index \in Nat /\ lexer.index <= lexer'.index
      BY <1>2, <3>3
    <3>7. Within(lexer')
      BY <1>1, <1>2, <3>4, <3>6 DEF Within, Places, Indexes
    <3> QED BY <1>1, <3>3, <3>4, <3>5, <3>6, <3>7 DEF Rests
  <2> QED BY <2>1, <2>2
<1>4. sim.prevAccept # NoAccept => ComesBack(sim.prevAccept, sim.startIndex, lexer')
  <2> SUFFICES ASSUME sim.prevAccept # NoAccept
               PROVE  ComesBack(sim.prevAccept, sim.startIndex, lexer')
    OBVIOUS
  <2>1. ComesBack(sim.prevAccept, sim.startIndex, lexer)
    BY <1>2
  <2> QED BY <1>2, <1>3, <2>1 DEF ComesBack
<1>5. sim.startIndex <= lexer'.index
  BY <1>2, <1>3
<1>6. CASE target = NoSet
  <2>1. sim' = [sim EXCEPT !.phase = "ended"]
    BY <1>6 DEF Turn
  <2>2. /\ {"phase", "startIndex", "state", "prevAccept"} \subseteq DOMAIN sim'
        /\ sim'.phase = "ended" /\ sim'.startIndex = sim.startIndex
        /\ sim'.state = sim.state /\ sim'.prevAccept = sim.prevAccept
        /\ Arises(g, sim.state)
    BY <1>1, <2>1 DEF Follows
  <2> QED BY <1>2, <1>3, <1>4, <1>5, <2>2 DEF Follows
<1>7. CASE target # NoSet
  <2> DEFINE phase == IF Accepting(target) /\ LA(lexer) = EOF THEN "ended" ELSE "exec"
             captured == Captured(lexer', target, sim.prevAccept)
  <2>1. sim' = [sim EXCEPT !.phase = phase, !.state = target, !.prevAccept = captured]
    BY <1>7 DEF Turn
  <2>2. phase \in {"exec", "ended"}
    OBVIOUS
  <2>3. captured # NoAccept => ComesBack(captured, sim.startIndex, lexer')
    BY <1>1, <1>2, <1>3, <1>4, <1>5, CapturedComesBack
  <2> HIDE DEF phase, captured
  <2>4. /\ {"phase", "startIndex", "state", "prevAccept"} \subseteq DOMAIN sim'
        /\ sim'.phase = phase /\ sim'.startIndex = sim.startIndex
        /\ sim'.state = target /\ sim'.prevAccept = captured
    BY <1>1, <2>1 DEF Follows
  <2> QED BY <1>2, <1>3, <1>5, <2>2, <2>3, <2>4 DEF Follows
<1> QED BY <1>3, <1>6, <1>7

LEMMA FollowEdgeKeeps == ASSUME IInv, FollowEdge PROVE Kept
<1>1. PICK e \in Known : Turn(e.to)
  BY DEF FollowEdge
<1>2. Arises(g, e.to)
  BY DEF IInv, Rests, Acts, Remembers, Known
<1>3. sim.phase = "exec" /\ UNCHANGED dfa
  BY DEF FollowEdge
<1> QED BY <1>1, <1>2, <1>3, TurnKeeps DEF Kept, IInv

LEMMA ComputeTargetKeeps == ASSUME IInv, ComputeTarget PROVE Kept
<1> DEFINE reach == ReachHere
           edge  == [from |-> sim.state, on |-> LA(lexer), to |-> reach.configs]
<1>1. /\ sim.phase = "exec" /\ Known = {} /\ Turn(reach.configs)
      /\ dfa' = IF reach.predicated THEN dfa
                ELSE [dfa EXCEPT ![lexer.mode].edges = @ \cup {edge}]
  BY DEF ComputeTarget, Remember
<1>2. Arises(g, reach.configs)
  BY <1>1, SetsHere
<1> HIDE DEF reach
<1>3. Rests(lexer') /\ Follows(lexer', sim')
  BY <1>1, <1>2, TurnKeeps
<1>4. lexer.mode \in Modes /\ Remembers(dfa)
  BY DEF IInv, Rests, Acts
<1>5. edge.from = sim.state /\ edge.on = LA(lexer) /\ Arises(g, edge.to)
  BY <1>2
<1>6. \A e \in dfa[lexer.mode].edges : ~(e.from = sim.state /\ e.on = LA(lexer))
  BY <1>1 DEF Known
<1> HIDE DEF edge
<1>7. Remembers(dfa')
  <2>1. CASE dfa' = dfa
    BY <1>4, <2>1
  <2>2. CASE dfa' = [dfa EXCEPT ![lexer.mode].edges = @ \cup {edge}]
    <3>1. DOMAIN dfa' = Modes
      BY <1>4, <2>2 DEF Remembers
    <3>2. ASSUME NEW m \in Modes
          PROVE  /\ {"s0", "edges"} \subseteq DOMAIN dfa'[m] /\ dfa'[m].s0 = dfa[m].s0
                 /\ \A e \in dfa'[m].edges : Arises(g, e.to)
                 /\ \A e, f \in dfa'[m].edges : e.from = f.from /\ e.on = f.on => e = f
      <4>1. CASE m = lexer.mode
        <5>1. dfa'[m] = [dfa[m] EXCEPT !.edges = @ \cup {edge}]
          BY <1>4, <2>2, <4>1 DEF Remembers
        <5>2. {"s0", "edges"} \subseteq DOMAIN dfa[m]
          BY <1>4 DEF Remembers
        <5>3. /\ {"s0", "edges"} \subseteq DOMAIN dfa'[m] /\ dfa'[m].s0 = dfa[m].s0
              /\ dfa'[m].edges = dfa[m].edges \cup {edge}
          BY <5>1, <5>2
        <5>4. /\ \A e \in dfa[m].edges : Arises(g, e.to)
              /\ \A e, f \in dfa[m].edges : e.from = f.from /\ e.on = f.on => e = f
          BY <1>4 DEF Remembers
        <5> QED BY <1>5, <1>6, <4>1, <5>3, <5>4
      <4>2. CASE m # lexer.mode
        <5>1. dfa'[m] = dfa[m]
          BY <1>4, <2>2, <4>2 DEF Remembers
        <5> QED BY <1>4, <5>1 DEF Remembers
      <4> QED BY <4>1, <4>2
    <3>3. \A m \in Modes : Arises(g, dfa[m].s0)
      BY <1>4 DEF Remembers
    <3> QED BY <3>1, <3>2, <3>3 DEF Remembers
  <2> QED BY <1>1, <2>1, <2>2
<1> QED BY <1>3, <1>7 DEF Kept

(* failOrAccept. *)
LEMMA AcceptTokenKeeps == ASSUME SetsAreOfTheATN, IInv, AcceptToken PROVE Kept
<1> DEFINE a   == sim.prevAccept
           end == FirstEnd(a.state)
           b   == BackTo(lexer, a)
           l   == Execute(b, end.actions, sim.startIndex)
           ttype == g.ruleToTokenType[g.rule[end.state]]
<1>1. /\ sim.phase = "ended" /\ a # NoAccept /\ sim' = Idle /\ UNCHANGED dfa
      /\ lexer' = IF l.thrown THEN AfterThrow(l) ELSE AfterMatch(l, ttype)
  BY DEF AcceptToken
<1>2. /\ IsText /\ Acts(lexer) /\ ~lexer.thrown /\ Stands(lexer) /\ Tiled(lexer.out)
      /\ lexer.calling = "match" /\ Within(lexer) /\ Remembers(dfa) /\ g \in Grammars
  BY <1>1, InputIsText DEF IInv, Rests, Follows
<1>3. /\ ComesBack(a, sim.startIndex, lexer) /\ lexer.start.index <= sim.startIndex
      /\ sim.startIndex \in Nat
  BY <1>1 DEF IInv, Follows
<1>4. lexer.start.index \in Nat
  <2>1. lexer.start.index \in Indexes /\ Len(input) \in Nat
    BY <1>2 DEF Within, Places, IsText
  <2> QED BY <2>1 DEF Indexes
<1>5. IsConfiguration(g, end) /\ ttype \in TokenTypes
  BY <1>2, <1>3, FirstEndIsEnd DEF ComesBack, SetsAreOfTheATN
<1> HIDE DEF end, ttype, a
<1>6. /\ b.index = a.index /\ b.line = a.line /\ b.column = a.column
      /\ FieldNames \subseteq DOMAIN b
      /\ \A f \in FieldNames \ {"index", "line", "column"} : b[f] = lexer[f]
  BY <1>2 DEF BackTo, Acts, FieldNames
<1> HIDE DEF b
<1>7. /\ b.mode = lexer.mode /\ b.modeStack = lexer.modeStack /\ b.type = lexer.type
      /\ b.channel = lexer.channel /\ b.thrown = lexer.thrown /\ b.start = lexer.start
      /\ b.out = lexer.out /\ b.calling = lexer.calling
  BY <1>6 DEF FieldNames
<1>8. Acts(b) /\ Stands(b)
  BY <1>2, <1>3, <1>6, <1>7 DEF Acts, ComesBack, Stands
<1>9. lexer.start.index <= b.index
  BY <1>3, <1>4, <1>6 DEF ComesBack
<1>10. Len(end.actions) \in Nat /\ \A k \in 1 .. Len(end.actions) : IsAction(g, end.actions[k])
  BY <1>5 DEF IsConfiguration
<1>11. Acts(l) /\ Same(b, l) /\ l.index = b.index
  BY <1>8, <1>10, ExecuteActs
<1> HIDE DEF l
<1>12. Stands(l) /\ Tiled(l.out) /\ Within(l) /\ l.calling = "match"
  BY <1>2, <1>7, <1>8, <1>9, <1>11 DEF Same, Stands, Within
<1>13. Rests(lexer')
  <2>1. CASE l.thrown
    BY <1>1, <1>2, <1>11, <1>12, <2>1, AfterThrowRests
  <2>2. CASE ~l.thrown
    BY <1>1, <1>2, <1>5, <1>11, <1>12, <2>2, AfterMatchRests
  <2> QED BY <2>1, <2>2
<1> QED BY <1>1, <1>2, <1>13, IdleFollows DEF Kept

LEMMA AcceptEOFKeeps == ASSUME IInv, AcceptEOF PROVE Kept
<1>1. /\ sim.phase = "ended" /\ sim' = Idle /\ UNCHANGED dfa
      /\ lexer' = AfterMatch(lexer, EOF)
  BY DEF AcceptEOF
<1>2. /\ IsText /\ Acts(lexer) /\ ~lexer.thrown /\ Stands(lexer) /\ Tiled(lexer.out)
      /\ lexer.calling = "match" /\ Within(lexer) /\ Remembers(dfa)
  BY <1>1, InputIsText DEF IInv, Rests, Follows
<1>3. EOF \in TokenTypes
  BY DEF TokenTypes
<1> QED BY <1>1, <1>2, <1>3, AfterMatchRests, IdleFollows DEF Kept

LEMMA NoViableAltKeeps == ASSUME IInv, NoViableAlt PROVE Kept
<1>1. /\ sim.phase = "ended" /\ sim' = Idle /\ UNCHANGED dfa
      /\ lexer' = AfterError(lexer) /\ (LA(lexer) # EOF \/ lexer.index # sim.startIndex)
  BY DEF NoViableAlt
<1>2. /\ IsText /\ Acts(lexer) /\ ~lexer.thrown /\ Stands(lexer) /\ Tiled(lexer.out)
      /\ lexer.calling = "match" /\ Within(lexer) /\ Remembers(dfa)
      /\ sim.startIndex \in Nat /\ lexer.start.index <= sim.startIndex
      /\ sim.startIndex <= lexer.index
  BY <1>1, InputIsText DEF IInv, Rests, Follows
<1>3. lexer.index \in Nat /\ lexer.start.index \in Nat
  <2>1. lexer.start.index \in Indexes /\ Len(input) \in Nat
    BY <1>2 DEF Within, Places, IsText
  <2>2. lexer.start.index \in Nat
    BY <2>1 DEF Indexes
  <2>3. lexer.index \in Nat
    BY <1>2, PlaceOf
  <2> QED BY <2>2, <2>3
<1>4. LA(lexer) # EOF \/ lexer.start.index < lexer.index
  BY <1>1, <1>2, <1>3
<1> QED BY <1>1, <1>2, <1>4, AfterErrorRests, IdleFollows DEF Kept

(* reset, setInputStream. *)
LEMMA StartAgainKeeps ==
  ASSUME IInv, NEW text \in Inputs(g), StartAgain(text), sim' = Idle, UNCHANGED dfa
  PROVE  IInv'
<1>1. /\ lexer.calling = "no" /\ lexer' = Clear(lexer) /\ input' = text /\ g' = g
      /\ Acts(lexer) /\ ~lexer.thrown /\ g \in Grammars
  BY DEF StartAgain, IInv, Rests
<1>2. /\ lexer'.index = 0 /\ lexer'.line = 1 /\ lexer'.column = 0
      /\ lexer'.mode = DEFAULT_MODE /\ lexer'.modeStack = <<>> /\ lexer'.type = INVALID_TYPE
      /\ lexer'.channel = DEFAULT_CHANNEL /\ lexer'.out = <<>> /\ lexer'.calling = "no"
      /\ lexer'.thrown = lexer.thrown /\ FieldNames \subseteq DOMAIN lexer'
  BY <1>1 DEF Clear, Acts, FieldNames
<1>3. Modes' = Modes /\ DEFAULT_MODE \in Modes
  BY <1>1, LexersAreWellFormed DEF Modes
<1>4. Acts(lexer)'
  <2>1. INVALID_TYPE \in Types /\ DEFAULT_CHANNEL \in Nat
    BY DEF INVALID_TYPE, Types, TokenTypes, DEFAULT_CHANNEL
  <2>2. <<>> \in Seq(Modes)
    OBVIOUS
  <2>3. lexer.thrown \in BOOLEAN
    BY <1>1 DEF Acts
  <2> QED BY <1>2, <1>3, <2>1, <2>2, <2>3 DEF Acts
<1>5. Stands(lexer)'
  <2>1. LineAt(0)' = 1 /\ ColumnAt(0)' = 0
    <3>1. NewlinesBefore(0)' = {}
      BY DEF NewlinesBefore
    <3> QED BY <3>1, FS_EmptySet DEF LineAt, ColumnAt
  <2>2. 0 \in Indexes'
    <3>1. Len(text) \in Nat
      BY <1>1, LexersAreWellFormed
    <3> QED BY <1>1, <3>1 DEF Indexes
  <2> QED BY <1>2, <2>1, <2>2 DEF Stands
<1>6. Tiled(lexer.out)' /\ lexer'.index = EndOf(lexer.out)'
  BY <1>2 DEF Tiled, EndOf
<1>7. Rests(lexer)'
  BY <1>1, <1>2, <1>4, <1>5, <1>6 DEF Rests
<1>8. Follows(lexer, sim)'
  BY <1>1, NoSetArises DEF Follows, Idle, NoAccept
<1>9. Remembers(dfa)'
  <2>1. \A s : Arises(g, s)' <=> Arises(g, s)
    BY <1>1
  <2>2. Remembers(dfa) /\ dfa' = dfa
    BY DEF IInv
  <2> QED BY <1>3, <2>1, <2>2 DEF Remembers
<1> QED BY <1>1, <1>7, <1>8, <1>9 DEF IInv

(* The next state is seen under its own grammar and text. *)
LEMMA KeptThere ==
  ASSUME IInv, Kept, g' = g, input' = input
  PROVE  IInv'
<1>1. Modes' = Modes /\ Indexes' = Indexes /\ Places' = Places /\ Pieces' = Pieces
  BY DEF Modes, Indexes, Places, Pieces
<1>2. \A i : LineAt(i)' = LineAt(i) /\ ColumnAt(i)' = ColumnAt(i)
  BY DEF LineAt, ColumnAt, NewlinesBefore
<1>3. Rests(lexer)'
  BY <1>1, <1>2 DEF Kept, Rests, Acts, Stands, Tiled, Within, EndOf
<1>4. Follows(lexer, sim)'
  BY <1>1, <1>2
     DEF Kept, Follows, ComesBack, Stands, Accepting, Ends
<1>5. Remembers(dfa)'
  <2>1. \A s : Arises(g, s)' <=> Arises(g, s)
    OBVIOUS
  <2>2. Remembers(dfa')
    BY DEF Kept
  <2> QED BY <1>1, <2>1, <2>2 DEF Remembers
<1> QED BY <1>3, <1>4, <1>5 DEF IInv

LEMMA InitIInv == SimulatorInit => IInv
<1> SUFFICES ASSUME SimulatorInit PROVE IInv
  OBVIOUS
<1>1. g \in Grammars /\ input \in Inputs(g) /\ lexer = Fresh /\ sim = Idle
      /\ dfa = [m \in Modes |-> EmptyDFA]
  BY DEF SimulatorInit, Init, Modes
<1>2. /\ lexer.index = 0 /\ lexer.line = 1 /\ lexer.column = 0
      /\ lexer.mode = DEFAULT_MODE /\ lexer.modeStack = <<>> /\ lexer.type = INVALID_TYPE
      /\ lexer.channel = DEFAULT_CHANNEL /\ lexer.out = <<>> /\ lexer.calling = "no"
      /\ lexer.thrown = FALSE /\ FieldNames \subseteq DOMAIN lexer
  BY <1>1 DEF Fresh, FieldNames
<1>3. Acts(lexer)
  <2>1. DEFAULT_MODE \in Modes /\ <<>> \in Seq(Modes)
    BY <1>1, LexersAreWellFormed DEF Modes
  <2>2. INVALID_TYPE \in Types /\ DEFAULT_CHANNEL \in Nat
    BY DEF INVALID_TYPE, Types, TokenTypes, DEFAULT_CHANNEL
  <2> QED BY <1>2, <2>1, <2>2 DEF Acts
<1>4. Stands(lexer)
  <2>1. 0 \in Indexes
    BY <1>1, InputIsText DEF IsText, Indexes
  <2> QED BY <1>2, <2>1, FirstPlace DEF Stands
<1>5. Rests(lexer)
  BY <1>2, <1>3, <1>4 DEF Rests, Tiled, EndOf
<1>6. Remembers(dfa)
  BY <1>1, NoSetArises DEF Remembers, EmptyDFA
<1> QED BY <1>1, <1>5, <1>6, IdleFollows DEF IInv

LEMMA NextIInv == ASSUME SetsAreOfTheATN PROVE IInv /\ [SimulatorNext]_vars => IInv'
<1> SUFFICES ASSUME IInv, [SimulatorNext]_vars PROVE IInv'
  OBVIOUS
<1>1. ASSUME CallNextToken PROVE IInv'
  BY <1>1, CallNextTokenKeeps, KeptThere DEF CallNextToken, NextToken
<1>2. ASSUME MatchFromDFA PROVE IInv'
  BY <1>2, MatchFromDFAKeeps, KeptThere DEF MatchFromDFA, lexerVars
<1>3. ASSUME MatchATN PROVE IInv'
  BY <1>3, MatchATNKeeps, KeptThere DEF MatchATN, lexerVars
<1>4. ASSUME FollowEdge PROVE IInv'
  BY <1>4, FollowEdgeKeeps, KeptThere DEF FollowEdge, Turn
<1>5. ASSUME ComputeTarget PROVE IInv'
  BY <1>5, ComputeTargetKeeps, KeptThere DEF ComputeTarget, Turn
<1>6. ASSUME AcceptToken PROVE IInv'
  BY <1>6, AcceptTokenKeeps, KeptThere DEF AcceptToken
<1>7. ASSUME AcceptEOF PROVE IInv'
  BY <1>7, AcceptEOFKeeps, KeptThere DEF AcceptEOF
<1>8. ASSUME NoViableAlt PROVE IInv'
  BY <1>8, NoViableAltKeeps, KeptThere DEF NoViableAlt
<1>9. ASSUME ResetLexer PROVE IInv'
  <2>1. input \in Inputs(g) /\ StartAgain(input) /\ sim' = Idle /\ UNCHANGED dfa
    BY <1>9 DEF ResetLexer, Reset, IInv
  <2> QED BY <2>1, StartAgainKeeps
<1>10. ASSUME ReadAnotherInput PROVE IInv'
  <2>1. PICK text \in Inputs(g) : StartAgain(text) /\ sim' = Idle /\ UNCHANGED dfa
    BY <1>10 DEF ReadAnotherInput, SetInputStream
  <2> QED BY <2>1, StartAgainKeeps
<1>11. ASSUME UNCHANGED vars PROVE IInv'
  <2>1. UNCHANGED <<g, input, lexer, sim, dfa>>
    BY <1>11 DEF vars
  <2>2. Kept
    BY <2>1 DEF Kept, IInv
  <2> QED BY <2>1, <2>2, KeptThere
<1> QED BY <1>1, <1>2, <1>3, <1>4, <1>5, <1>6, <1>7, <1>8, <1>9, <1>10, <1>11
        DEF SimulatorNext

LEMMA Invariance == ASSUME SetsAreOfTheATN PROVE SimulatorSpec => []IInv
<1>1. SimulatorInit => IInv
  BY InitIInv
<1>2. IInv /\ [SimulatorNext]_vars => IInv'
  BY NextIInv
<1> QED BY <1>1, <1>2, PTL DEF SimulatorSpec

-----------------------------------------------------------------------------
LEMMA IInvTypes == ASSUME SetsAreOfTheATN PROVE IInv => TypeOK
<1> SUFFICES ASSUME IInv PROVE TypeOK
  OBVIOUS
<1>1. /\ IsText /\ Rests(lexer) /\ Follows(lexer, sim) /\ Remembers(dfa)
      /\ Len(input) \in Nat /\ lexer.index \in Nat /\ lexer.index \in Indexes
  <2>1. IsText /\ Rests(lexer) /\ Follows(lexer, sim) /\ Remembers(dfa)
    BY InputIsText DEF IInv
  <2>2. Stands(lexer)
    BY <2>1 DEF Rests
  <2>3. Len(input) \in Nat
    BY <2>1 DEF IsText
  <2>4. lexer.index \in Nat
    BY <2>1, <2>2, PlaceOf
  <2> QED BY <2>1, <2>2, <2>3, <2>4 DEF Stands
<1>2. ASSUME NEW x \in Places, Stands(x) PROVE x \in Position
  <2>1. x.line \in 1 .. Len(input) + 1 /\ x.column \in Indexes /\ x.index \in Indexes
    BY <1>1, <1>2, PlacesInText DEF Stands
  <2>2. x.line \in Indexes \cup {Len(input) + 1}
    BY <1>1, <2>1 DEF Indexes
  <2>3. x = [index |-> x.index, line |-> x.line, column |-> x.column]
    BY <1>2 DEF Places
  <2> QED BY <2>1, <2>2, <2>3 DEF Position
<1>3. LexerTypeOK
  <2>1. lexer.mode \in Modes /\ \A i \in DOMAIN lexer.modeStack : lexer.modeStack[i] \in Modes
    BY <1>1 DEF Rests, Acts
  <2>2. /\ lexer.calling \in {"no", "match", "again"} /\ ~lexer.thrown
        /\ lexer.calling = "match" => lexer.start \in Position
    BY <1>1, <1>2 DEF Rests, Within
  <2>3. ASSUME NEW i \in DOMAIN lexer.out
        PROVE  /\ lexer.out[i].at \in Position
               /\ lexer.out[i].stop \in {-1} \cup (Indexes \ {Len(input)})
    <3>1. lexer.out \in Seq(Pieces) /\ i \in 1 .. Len(lexer.out)
      BY <1>1 DEF Rests, Tiled
    <3>2. lexer.out[i] \in Pieces /\ Stands(lexer.out[i].at) /\ lexer.out[i].stop + 1 \in Indexes
      BY <1>1, <3>1 DEF Rests, Tiled
    <3>3. lexer.out[i].at \in Places /\ lexer.out[i].stop \in Int
      BY <3>2 DEF Pieces
    <3>4. lexer.out[i].stop \in {-1} \cup (Indexes \ {Len(input)})
      BY <1>1, <3>2, <3>3 DEF Indexes
    <3> QED BY <1>2, <3>2, <3>3, <3>4
  <2> QED BY <1>1, <2>1, <2>2, <2>3 DEF LexerTypeOK, Modes
<1>4. /\ sim.phase \in {"idle", "exec", "ended"}
      /\ sim.phase # "idle" => lexer.calling = "match" /\ sim.startIndex \in Indexes
  BY <1>1 DEF Follows, Indexes
<1>5. sim.prevAccept # NoAccept => /\ sim.prevAccept.index \in sim.startIndex .. lexer.index
                                   /\ Arises(g, sim.prevAccept.state)
  <2> SUFFICES ASSUME sim.prevAccept # NoAccept
               PROVE  /\ sim.prevAccept.index \in sim.startIndex .. lexer.index
                      /\ Arises(g, sim.prevAccept.state)
    OBVIOUS
  <2>1. ComesBack(sim.prevAccept, sim.startIndex, lexer) /\ sim.startIndex \in Nat
    BY <1>1 DEF Follows
  <2> QED BY <1>1, <2>1 DEF ComesBack
<1>6. IsSet(g, sim.state) /\ IsSet(g, sim.prevAccept.state)
  <2>1. Arises(g, sim.state) /\ Arises(g, sim.prevAccept.state) /\ g \in Grammars
    BY <1>1, <1>5, NoSetArises DEF Follows, NoAccept, IInv
  <2> QED BY <2>1 DEF SetsAreOfTheATN
<1>7. /\ DOMAIN dfa = DOMAIN g.modeToStartState
      /\ \A m \in DOMAIN dfa : \A e, f \in dfa[m].edges :
           e.from = f.from /\ e.on = f.on => e = f
  BY <1>1 DEF Remembers, Modes
<1> QED BY <1>3, <1>4, <1>5, <1>6, <1>7 DEF TypeOK

LEMMA IInvTiles == IInv => SpansTile /\ PositionsAreTrue
<1> SUFFICES ASSUME IInv PROVE SpansTile /\ PositionsAreTrue
  OBVIOUS
<1>1. Rests(lexer) /\ Tiled(lexer.out) /\ DOMAIN lexer.out = 1 .. Len(lexer.out)
  BY DEF IInv, Rests, Tiled
<1>2. SpansTile
  BY <1>1 DEF SpansTile, Rests, Tiled, EndOf
<1>3. PositionsAreTrue
  BY <1>1 DEF PositionsAreTrue, Rests, Tiled, Stands
<1> QED BY <1>2, <1>3

(* The lexer's fields keep their types: every token lies within the text,  *)
(* the modes are modes of the grammar whatever actions push and pop them,  *)
(* and the place a match comes back to lies within the match (execATN,     *)
(* captureSimState, LexerActionExecutor.execute).                          *)
THEOREM LexerTypes ==
  ASSUME SetsAreOfTheATN
  PROVE  SimulatorSpec => []TypeOK
BY Invariance, IInvTypes, PTL

(* Nothing of the text is lost or taken twice, whatever the grammar, the   *)
(* text, the actions and the cache: tokens, skipped text, text in error    *)
(* and text lost to an exception follow one another, and text in error is  *)
(* never empty (nextToken, accept, recover).                               *)
THEOREM SpansAlwaysTile ==
  ASSUME SetsAreOfTheATN
  PROVE  SimulatorSpec => []SpansTile
BY Invariance, IInvTiles, PTL

(* Lines and columns are those of the text, although the simulator reads   *)
(* ahead and comes back (consume, captureSimState, accept).                *)
THEOREM PositionsAreAlwaysTrue ==
  ASSUME SetsAreOfTheATN
  PROVE  SimulatorSpec => []PositionsAreTrue
BY Invariance, IInvTiles, PTL

-----------------------------------------------------------------------------
(* The cache. *)

(* The sets again, each with the offsets in a token at which they arise.   *)
Further(symbol, offset) == IF symbol = EOF THEN offset ELSE offset + 1
IsClosedAt(h, family) ==
  /\ \A mode \in DOMAIN h.modeToStartState : \A column \in Nat :
       <<StartState(h, mode, column).configs, 0>> \in family
  /\ \A configs : \A offset \in Nat : <<configs, offset>> \in family =>
       \A symbol \in Nat \cup {EOF} : \A column \in Nat :
         <<ReachableSet(h, configs, symbol, column, offset).configs, Further(symbol, offset)>>
           \in family
ArisesAt(h, configs, offset) == \A family : IsClosedAt(h, family) => <<configs, offset>> \in family

(* What the code takes for granted when it keeps a set: without the mark   *)
(* that it depends on a predicate it is the same at every column, and at   *)
(* every offset its origin arises at.  That is so unless a custom action   *)
(* is met in the middle of its rule, behind strings of several lengths.    *)
UnmarkedSetsStay ==
  \A h \in Grammars :
    /\ \A mode \in DOMAIN h.modeToStartState : \A c, d \in Nat :
         ~StartState(h, mode, c).predicated
           => StartState(h, mode, d).configs = StartState(h, mode, c).configs
    /\ \A configs : \A i, j \in Nat : ArisesAt(h, configs, i) /\ ArisesAt(h, configs, j) =>
         \A symbol \in Nat \cup {EOF} : \A c, d \in Nat :
           ~ReachableSet(h, configs, symbol, c, i).predicated
             => ReachableSet(h, configs, symbol, d, j).configs
                  = ReachableSet(h, configs, symbol, c, i).configs

LEMMA StartArisesAt ==
  ASSUME NEW h, NEW mode \in DOMAIN h.modeToStartState, NEW column \in Nat
  PROVE  ArisesAt(h, StartState(h, mode, column).configs, 0)
BY DEF ArisesAt, IsClosedAt

LEMMA ReachArisesAt ==
  ASSUME NEW h, NEW configs, NEW offset \in Nat, ArisesAt(h, configs, offset),
         NEW symbol \in Nat \cup {EOF}, NEW column \in Nat
  PROVE  ArisesAt(h, ReachableSet(h, configs, symbol, column, offset).configs,
                  Further(symbol, offset))
BY DEF ArisesAt, IsClosedAt

(* What is kept is what would be computed at any place it may be met at,   *)
(* and the set a match is at arises where the match is.                    *)
Anywhere(d) ==
  \A m \in Modes :
    /\ d[m].s0 # NoSet => \A c \in Nat : StartState(g, m, c).configs = d[m].s0
    /\ \A e \in d[m].edges : \A c, i \in Nat :
         ArisesAt(g, e.from, i) => ReachableSet(g, e.from, e.on, c, i).configs = e.to
InPlace(l, s) == s.phase = "exec" => ArisesAt(g, s.state, l.index - s.startIndex)
CInv == IInv /\ Anywhere(dfa) /\ InPlace(lexer, sim)

(* The place the sets are computed at. *)
LEMMA ColumnsHere ==
  ASSUME IInv
  PROVE  /\ lexer.column \in Nat /\ ConsumeChar(lexer).column \in Nat
         /\ LA(lexer) \in Nat \cup {EOF}
         /\ sim.phase # "idle" => lexer.index - sim.startIndex \in Nat
<1>1. IsText /\ Stands(lexer) /\ FieldNames \subseteq DOMAIN lexer
  BY InputIsText DEF IInv, Rests, Acts
<1>2. lexer.index \in Nat /\ lexer.column \in Nat
  BY <1>1, PlaceOf, PlacesInText DEF Stands, Indexes
<1>3. ConsumeChar(lexer).column \in Nat
  <2>1. ConsumeChar(lexer).column = IF LA(lexer) = NEWLINE THEN 0 ELSE lexer.column + 1
    BY <1>1 DEF ConsumeChar, FieldNames
  <2> QED BY <1>2, <2>1
<1>4. LA(lexer) \in Nat \cup {EOF}
  BY <1>1, <1>2, SymbolHere
<1>5. sim.phase # "idle" => lexer.index - sim.startIndex \in Nat
  BY <1>2 DEF IInv, Follows
<1> QED BY <1>2, <1>3, <1>4, <1>5

LEMMA MatchATNAnywhere ==
  ASSUME UnmarkedSetsStay, IInv, Anywhere(dfa), MatchATN
  PROVE  Anywhere(dfa')
<1> DEFINE start == StartHere
<1>1. dfa' = IF start.predicated THEN dfa
             ELSE [dfa EXCEPT ![lexer.mode].s0 = start.configs]
  BY DEF MatchATN
<1>2. lexer.mode \in Modes /\ Remembers(dfa) /\ g \in Grammars
  BY DEF IInv, Rests, Acts
<1>3. ~start.predicated => \A c \in Nat : StartState(g, lexer.mode, c).configs = start.configs
  BY <1>2, ColumnsHere DEF UnmarkedSetsStay, StartHere, Modes
<1> HIDE DEF start
<1>4. CASE start.predicated
  BY <1>1, <1>4
<1>5. CASE ~start.predicated
  <2> SUFFICES ASSUME NEW m \in Modes
               PROVE  /\ dfa'[m].edges = dfa[m].edges
                      /\ dfa'[m].s0 # NoSet
                           => \A c \in Nat : StartState(g, m, c).configs = dfa'[m].s0
    BY DEF Anywhere
  <2>1. dfa' = [dfa EXCEPT ![lexer.mode].s0 = start.configs]
    BY <1>1, <1>5
  <2>2. CASE m = lexer.mode
    <3>1. dfa'[m] = [dfa[m] EXCEPT !.s0 = start.configs] /\ {"s0", "edges"} \subseteq DOMAIN dfa[m]
      BY <1>2, <2>1, <2>2 DEF Remembers
    <3>2. dfa'[m].s0 = start.configs /\ dfa'[m].edges = dfa[m].edges
      BY <3>1
    <3> QED BY <1>3, <1>5, <2>2, <3>2
  <2>3. CASE m # lexer.mode
    <3>1. dfa'[m] = dfa[m]
      BY <1>2, <2>1, <2>3 DEF Remembers
    <3> QED BY <3>1 DEF Anywhere
  <2> QED BY <2>2, <2>3
<1> QED BY <1>4, <1>5

LEMMA ComputeTargetAnywhere ==
  ASSUME UnmarkedSetsStay, CInv, ComputeTarget
  PROVE  Anywhere(dfa')
<1> DEFINE reach == ReachHere
           edge  == [from |-> sim.state, on |-> LA(lexer), to |-> reach.configs]
<1>0. IInv /\ Anywhere(dfa) /\ InPlace(lexer, sim)
  BY DEF CInv
<1>1. /\ sim.phase = "exec" /\ sim.phase # "idle"
      /\ dfa' = IF reach.predicated THEN dfa
                ELSE [dfa EXCEPT ![lexer.mode].edges = @ \cup {edge}]
  BY DEF ComputeTarget, Remember
<1>2. lexer.mode \in Modes /\ Remembers(dfa) /\ g \in Grammars
  BY <1>0 DEF IInv, Rests, Acts
<1>3. ~reach.predicated => \A c, i \in Nat : ArisesAt(g, sim.state, i) =>
        ReachableSet(g, sim.state, LA(lexer), c, i).configs = reach.configs
  <2> DEFINE column  == ConsumeChar(lexer).column
             offset  == lexer.index - sim.startIndex
             symbol  == LA(lexer)
             configs == sim.state
  <2>1. column \in Nat /\ offset \in Nat /\ symbol \in Nat \cup {EOF}
    BY <1>0, <1>1, ColumnsHere
  <2>2. reach = ReachableSet(g, configs, symbol, column, offset)
    BY DEF ReachHere
  <2>3. ArisesAt(g, configs, offset)
    BY <1>0, <1>1 DEF InPlace
  <2> HIDE DEF column, offset, reach, symbol, configs
  <2>4. ASSUME NEW c \in Nat, NEW i \in Nat, ArisesAt(g, configs, i), ~reach.predicated
        PROVE  ReachableSet(g, configs, symbol, c, i).configs = reach.configs
    <3>1. ~ReachableSet(g, configs, symbol, column, offset).predicated
      BY <2>2, <2>4
    <3> QED BY <1>2, <2>1, <2>2, <2>3, <2>4, <3>1 DEF UnmarkedSetsStay
  <2> QED BY <2>4 DEF symbol, configs
<1>4. edge.from = sim.state /\ edge.on = LA(lexer) /\ edge.to = reach.configs
  OBVIOUS
<1> HIDE DEF reach, edge
<1>5. CASE reach.predicated
  BY <1>0, <1>1, <1>5
<1>6. CASE ~reach.predicated
  <2> SUFFICES ASSUME NEW m \in Modes
               PROVE  /\ dfa'[m].s0 = dfa[m].s0
                      /\ \A e \in dfa'[m].edges : \A c, i \in Nat :
                           ArisesAt(g, e.from, i)
                             => ReachableSet(g, e.from, e.on, c, i).configs = e.to
    BY <1>0 DEF Anywhere
  <2>1. dfa' = [dfa EXCEPT ![lexer.mode].edges = @ \cup {edge}]
    BY <1>1, <1>6
  <2>2. \A e \in dfa[m].edges : \A c, i \in Nat :
          ArisesAt(g, e.from, i) => ReachableSet(g, e.from, e.on, c, i).configs = e.to
    BY <1>0 DEF Anywhere
  <2>3. CASE m = lexer.mode
    <3>1. /\ dfa'[m] = [dfa[m] EXCEPT !.edges = @ \cup {edge}]
          /\ {"s0", "edges"} \subseteq DOMAIN dfa[m]
      BY <1>2, <2>1, <2>3 DEF Remembers
    <3>2. dfa'[m].s0 = dfa[m].s0 /\ dfa'[m].edges = dfa[m].edges \cup {edge}
      BY <3>1
    <3>3. \A c, i \in Nat : ArisesAt(g, edge.from, i)
            => ReachableSet(g, edge.from, edge.on, c, i).configs = edge.to
      BY <1>3, <1>4, <1>6
    <3> QED BY <2>2, <3>2, <3>3
  <2>4. CASE m # lexer.mode
    <3>1. dfa'[m] = dfa[m]
      BY <1>2, <2>1, <2>4 DEF Remembers
    <3> QED BY <2>2, <3>1
  <2> QED BY <2>3, <2>4
<1> QED BY <1>5, <1>6

(* Where a match is, its set arises: at first, ...                          *)
LEMMA BeginInPlace ==
  ASSUME IInv, NEW configs, NEW column \in Nat, Begin(configs), lexer' = lexer,
         configs = StartState(g, lexer.mode, column).configs
  PROVE  InPlace(lexer', sim')
<1>1. sim'.state = configs /\ sim'.startIndex = lexer.index
  BY DEF Begin
<1>2. lexer.mode \in DOMAIN g.modeToStartState /\ lexer.index \in Nat
  <2>1. Rests(lexer) /\ IsText
    BY InputIsText DEF IInv
  <2>2. Stands(lexer) /\ lexer.mode \in Modes
    BY <2>1 DEF Rests, Acts
  <2> QED BY <2>1, <2>2, PlaceOf DEF Modes
<1>3. lexer'.index - sim'.startIndex = 0
  BY <1>1, <1>2
<1>4. ArisesAt(g, configs, 0)
  BY <1>2, StartArisesAt
<1> QED BY <1>1, <1>3, <1>4 DEF InPlace

(* ... and a symbol further. *)
LEMMA TurnInPlace ==
  ASSUME CInv, sim.phase = "exec", Turn(ReachHere.configs)
  PROVE  InPlace(lexer', sim')
<1> DEFINE target == ReachHere.configs
           offset == lexer.index - sim.startIndex
<1>1. IInv /\ InPlace(lexer, sim) /\ Follows(lexer, sim) /\ Stands(lexer) /\ IsText
      /\ FieldNames \subseteq DOMAIN lexer
  BY InputIsText DEF CInv, IInv, Rests, Acts
<1>2. ArisesAt(g, sim.state, offset) /\ sim.phase # "idle"
  BY <1>1 DEF InPlace
<1>3. offset \in Nat /\ ConsumeChar(lexer).column \in Nat /\ LA(lexer) \in Nat \cup {EOF}
      /\ lexer.index \in Nat /\ sim.startIndex \in Nat
  BY <1>1, <1>2, ColumnsHere, PlaceOf DEF Follows
<1>4. ArisesAt(g, target, Further(LA(lexer), offset))
  BY <1>2, <1>3, ReachArisesAt DEF ReachHere
<1> HIDE DEF target
<1>5. CASE target = NoSet
  <2>1. sim' = [sim EXCEPT !.phase = "ended"] /\ "phase" \in DOMAIN sim
    BY <1>1, <1>5 DEF Turn, Follows, target
  <2> QED BY <2>1 DEF InPlace
<1>6. CASE target # NoSet
  <2>1. sim'.state = target /\ sim'.startIndex = sim.startIndex
    BY <1>1, <1>6 DEF Turn, Follows, target
  <2>2. lexer' = IF LA(lexer) = EOF THEN lexer ELSE ConsumeChar(lexer)
    BY <1>6 DEF Turn, target
  <2>3. LA(lexer) # EOF => ConsumeChar(lexer).index = lexer.index + 1
    BY <1>1, ConsumeStands DEF LA
  <2>4. lexer'.index - sim'.startIndex = Further(LA(lexer), offset)
    BY <1>3, <2>1, <2>2, <2>3 DEF Further
  <2> QED BY <1>4, <2>1, <2>4 DEF InPlace
<1> QED BY <1>5, <1>6

LEMMA NextInPlace == ASSUME CInv, [SimulatorNext]_vars PROVE InPlace(lexer', sim')
<1>1. /\ IInv /\ Anywhere(dfa) /\ lexer.mode \in Modes /\ lexer.column \in Nat
      /\ (lexer.calling # "match" => sim.phase = "idle")
  BY ColumnsHere DEF CInv, IInv, Rests, Acts, Follows
<1>2. CASE MatchFromDFA
  <2>1. Begin(dfa[lexer.mode].s0) /\ lexer' = lexer /\ dfa[lexer.mode].s0 # NoSet
    BY <1>2 DEF MatchFromDFA, lexerVars
  <2>2. dfa[lexer.mode].s0 = StartState(g, lexer.mode, 0).configs
    BY <1>1, <2>1 DEF Anywhere
  <2> QED BY <1>1, <2>1, <2>2, BeginInPlace
<1>3. CASE MatchATN
  <2>1. Begin(StartHere.configs) /\ lexer' = lexer
    BY <1>3 DEF MatchATN, lexerVars
  <2> QED BY <1>1, <2>1, BeginInPlace DEF StartHere
<1>4. CASE FollowEdge
  <2>1. PICK e \in Known : Turn(e.to)
    BY <1>4 DEF FollowEdge
  <2>2. sim.phase = "exec" /\ sim.phase # "idle"
    BY <1>4 DEF FollowEdge
  <2>3. ReachHere.configs = e.to
    BY <1>1, <2>1, <2>2, ColumnsHere DEF CInv, InPlace, Anywhere, Known, ReachHere
  <2> QED BY <2>1, <2>2, <2>3, TurnInPlace
<1>5. CASE ComputeTarget
  BY <1>5, TurnInPlace DEF ComputeTarget
<1>6. CASE AcceptToken \/ AcceptEOF \/ NoViableAlt \/ ResetLexer \/ ReadAnotherInput
  <2>1. sim' = Idle
    BY <1>6 DEF AcceptToken, AcceptEOF, NoViableAlt, ResetLexer, ReadAnotherInput
  <2> QED BY <2>1 DEF Idle, InPlace
<1>7. CASE CallNextToken
  <2>1. sim' = sim /\ sim.phase = "idle"
    BY <1>1, <1>7 DEF CallNextToken, NextToken
  <2> QED BY <2>1 DEF InPlace
<1>8. CASE UNCHANGED vars
  <2>1. sim' = sim /\ lexer' = lexer
    BY <1>8 DEF vars
  <2> QED BY <2>1 DEF CInv, InPlace
<1> QED BY <1>2, <1>3, <1>4, <1>5, <1>6, <1>7, <1>8 DEF SimulatorNext

LEMMA CInvStays ==
  ASSUME SetsAreOfTheATN, UnmarkedSetsStay
  PROVE  CInv /\ [SimulatorNext]_vars => CInv'
<1> SUFFICES ASSUME CInv, [SimulatorNext]_vars PROVE CInv'
  OBVIOUS
<1>0. IInv /\ Anywhere(dfa)
  BY DEF CInv
<1>1. g' = g
  <2>1. CallNextToken => g' = g
    BY DEF CallNextToken, NextToken
  <2>2. MatchFromDFA \/ MatchATN => g' = g
    BY DEF MatchFromDFA, MatchATN, lexerVars
  <2>3. FollowEdge \/ ComputeTarget => g' = g
    BY DEF FollowEdge, ComputeTarget, Turn
  <2>4. AcceptToken \/ AcceptEOF \/ NoViableAlt => g' = g
    BY DEF AcceptToken, AcceptEOF, NoViableAlt
  <2>5. ResetLexer \/ ReadAnotherInput => g' = g
    BY DEF ResetLexer, Reset, ReadAnotherInput, SetInputStream, StartAgain
  <2>6. UNCHANGED vars => g' = g
    BY DEF vars
  <2> QED BY <2>1, <2>2, <2>3, <2>4, <2>5, <2>6 DEF SimulatorNext
<1>2. MatchATN \/ ComputeTarget \/ dfa' = dfa
  BY DEF vars, SimulatorNext, CallNextToken, MatchFromDFA, FollowEdge, AcceptToken, AcceptEOF,
         NoViableAlt, ResetLexer, ReadAnotherInput
<1>3. Anywhere(dfa')
  BY <1>0, <1>2, MatchATNAnywhere, ComputeTargetAnywhere
<1>4. Anywhere(dfa)'
  <2>1. \A s, i : ArisesAt(g, s, i)' <=> ArisesAt(g, s, i)
    BY <1>1
  <2> QED BY <1>1, <1>3, <2>1 DEF Anywhere, Modes
<1>5. InPlace(lexer, sim)'
  BY <1>1, NextInPlace DEF InPlace
<1> QED BY <1>0, <1>4, <1>5, NextIInv DEF CInv

LEMMA CInvIsTransparent == CInv => CacheIsTransparent
<1> SUFFICES ASSUME CInv PROVE CacheIsTransparent
  OBVIOUS
<1>1. lexer.mode \in Modes /\ IInv /\ Anywhere(dfa)
  BY DEF CInv, IInv, Rests, Acts
<1>2. dfa[lexer.mode].s0 # NoSet => StartHere.configs = dfa[lexer.mode].s0
  BY <1>1, ColumnsHere DEF Anywhere, StartHere
<1>3. ASSUME sim.phase = "exec", NEW e \in Known
      PROVE  ReachHere.configs = e.to
  BY <1>1, <1>3, ColumnsHere DEF CInv, InPlace, Anywhere, Known, ReachHere
<1> QED BY <1>2, <1>3 DEF CacheIsTransparent

(* Whatever was read before, in whichever modes and with whatever outcome  *)
(* of the predicates, the cache answers what would be computed here and    *)
(* now, if unmarked sets do not depend on the place (matchATN, execATN,    *)
(* addDFAEdge).  The finding on the places of actions is a lexer in which  *)
(* they do.                                                                *)
THEOREM CacheIsAlwaysTransparent ==
  ASSUME SetsAreOfTheATN, UnmarkedSetsStay
  PROVE  SimulatorSpec => []CacheIsTransparent
<1>1. SimulatorInit => CInv
  <2>1. SimulatorInit => Anywhere(dfa) /\ InPlace(lexer, sim)
    BY DEF SimulatorInit, Anywhere, EmptyDFA, Modes, InPlace, Idle
  <2> QED BY <2>1, InitIInv DEF CInv
<1>2. CInv /\ [SimulatorNext]_vars => CInv'
  BY CInvStays
<1>3. CInv => CacheIsTransparent
  BY CInvIsTransparent
<1> QED BY <1>1, <1>2, <1>3, PTL DEF SimulatorSpec

-----------------------------------------------------------------------------
(* Reading a text without a cache, and reading it again. *)

(* The lexer's steps with the text they read as a parameter. *)
Symbol(w, l) == IF l.index < Len(w) THEN w[l.index + 1] ELSE EOF
Consumed(w, l) ==
  [l EXCEPT !.index = @ + 1,
            !.line = IF Symbol(w, l) = NEWLINE THEN @ + 1 ELSE @,
            !.column = IF Symbol(w, l) = NEWLINE THEN 0 ELSE @ + 1]
MatchedAs(w, l, ttype) ==
  LET type  == IF l.type = INVALID_TYPE THEN ttype ELSE l.type
      after == [l EXCEPT !.hitEOF = @ \/ Symbol(w, l) = EOF, !.type = type]
  IN CASE type = SKIP -> [Emit(after, SKIP) EXCEPT !.calling = "again"]
       [] type = MORE -> [after EXCEPT !.type = INVALID_TYPE]
       [] OTHER -> [Emit(after, type) EXCEPT !.calling = "no"]
Failed(w, l) ==
  LET r == IF Symbol(w, l) = EOF THEN l ELSE Consumed(w, l)
  IN [Emit(r, ERROR_TEXT) EXCEPT !.hitEOF = @ \/ Symbol(w, r) = EOF, !.type = SKIP,
                                 !.calling = "again"]

Begun(l, configs) ==
  [phase |-> "exec", startIndex |-> l.index, state |-> configs,
   prevAccept |-> Captured(l, configs, NoAccept)]

(* The loop of execATN goes on to `target'. *)
GoneOn(w, l, s, target) ==
  LET atEOF == Symbol(w, l) = EOF
      m     == IF target = NoSet \/ atEOF THEN l ELSE Consumed(w, l)
  IN [lexer |-> m,
      sim   |-> IF target = NoSet THEN [s EXCEPT !.phase = "ended"]
                ELSE [s EXCEPT !.phase = IF Accepting(target) /\ atEOF THEN "ended" ELSE "exec",
                               !.state = target, !.prevAccept = Captured(m, target, @)]]
Target(w, l, s) ==
  ReachableSet(g, s.state, Symbol(w, l), Consumed(w, l).column,
               l.index - s.startIndex).configs

(* failOrAccept. *)
Matched(w, l, s) ==
  LET end  == FirstEnd(s.prevAccept.state)
      done == Execute(BackTo(l, s.prevAccept), end.actions, s.startIndex)
  IN IF s.prevAccept # NoAccept
     THEN IF done.thrown THEN AfterThrow(done)
          ELSE MatchedAs(w, done, g.ruleToTokenType[g.rule[end.state]])
     ELSE IF Symbol(w, l) = EOF /\ l.index = s.startIndex THEN MatchedAs(w, l, EOF)
     ELSE Failed(w, l)

(* The next step of a lexer and its simulator that read the text w. *)
Uncached(w, x) ==
  LET l == x.lexer
      s == x.sim
  IN IF l.calling # "match"
     THEN [lexer |-> IF l.hitEOF THEN EmitEOF(l) ELSE BeginToken(l), sim |-> s]
     ELSE IF s.phase = "idle"
     THEN [lexer |-> l, sim |-> Begun(l, StartState(g, l.mode, l.column).configs)]
     ELSE IF s.phase = "exec" THEN GoneOn(w, l, s, Target(w, l, s))
     ELSE [lexer |-> Matched(w, l, s), sim |-> Idle]

Now == [lexer |-> lexer, sim |-> sim]

(* Whatever is cached, every step but a reset is that one. *)
LEMMA StepsAreUncached ==
  ASSUME CInv, SimulatorNext, ~ResetLexer, ~ReadAnotherInput
  PROVE  Now' = Uncached(input, Now)
<1>0. IInv /\ Anywhere(dfa) /\ lexer.mode \in Modes /\ lexer.column \in Nat
      /\ (lexer.calling # "match" => sim.phase = "idle")
      /\ sim.phase \in {"idle", "exec", "ended"}
  BY ColumnsHere DEF CInv, IInv, Rests, Acts, Follows
<1>1. CASE CallNextToken
  <2>1. /\ lexer.calling # "match" /\ sim' = sim
        /\ lexer' = IF lexer.hitEOF THEN EmitEOF(lexer) ELSE BeginToken(lexer)
    BY <1>1 DEF CallNextToken, NextToken
  <2> QED BY <2>1 DEF Now, Uncached
<1>2. CASE MatchFromDFA
  <2>1. /\ lexer.calling = "match" /\ sim.phase = "idle" /\ lexer' = lexer
        /\ sim' = Begun(lexer, dfa[lexer.mode].s0) /\ dfa[lexer.mode].s0 # NoSet
    BY <1>2 DEF MatchFromDFA, lexerVars, Begin, Begun
  <2>2. StartState(g, lexer.mode, lexer.column).configs = dfa[lexer.mode].s0
    BY <1>0, <2>1 DEF Anywhere
  <2> QED BY <2>1, <2>2 DEF Now, Uncached
<1>3. CASE MatchATN
  <2>1. /\ lexer.calling = "match" /\ sim.phase = "idle" /\ lexer' = lexer
        /\ sim' = Begun(lexer, StartState(g, lexer.mode, lexer.column).configs)
    BY <1>3 DEF MatchATN, lexerVars, Begin, Begun, StartHere
  <2> QED BY <2>1 DEF Now, Uncached
<1>4. ASSUME NEW target, Turn(target), sim.phase = "exec", ReachHere.configs = target
      PROVE  Now' = Uncached(input, Now)
  <2>1. Target(input, lexer, sim) = target
    BY <1>4 DEF Target, ReachHere, Symbol, Consumed, LA, ConsumeChar
  <2>2. Now' = GoneOn(input, lexer, sim, target)
    BY <1>4 DEF Now, Turn, GoneOn, Symbol, Consumed, LA, ConsumeChar
  <2> QED BY <1>0, <1>4, <2>1, <2>2 DEF Now, Uncached
<1>5. CASE FollowEdge
  <2>1. PICK e \in Known : Turn(e.to)
    BY <1>5 DEF FollowEdge
  <2>2. sim.phase = "exec" /\ sim.phase # "idle"
    BY <1>5 DEF FollowEdge
  <2>3. ReachHere.configs = e.to
    BY <1>0, <2>1, <2>2, ColumnsHere DEF CInv, InPlace, Anywhere, Known, ReachHere
  <2> QED BY <1>4, <2>1, <2>2, <2>3
<1>6. CASE ComputeTarget
  BY <1>4, <1>6 DEF ComputeTarget
<1>7. CASE AcceptToken \/ AcceptEOF \/ NoViableAlt
  <2>1. sim.phase = "ended" /\ lexer.calling = "match" /\ sim' = Idle
    BY <1>0, <1>7 DEF AcceptToken, AcceptEOF, NoViableAlt
  <2>2. lexer' = Matched(input, lexer, sim)
    BY <1>7 DEF AcceptToken, AcceptEOF, NoViableAlt, Matched, Symbol, MatchedAs, Failed,
                Consumed, LA, AfterMatch, AfterError, Recover, ConsumeChar
  <2> QED BY <2>1, <2>2 DEF Now, Uncached
<1> QED BY <1>1, <1>2, <1>3, <1>5, <1>6, <1>7 DEF SimulatorNext

-----------------------------------------------------------------------------
(* What a text comes to. *)

(* The pieces `out' are the first of `more'. *)
Outcomes == [type : Int, channel : Nat, at : [index : Nat, line : Nat, column : Nat],
             stop : Int]
Begins(out, more) ==
  /\ out \in Seq(Outcomes) /\ more \in Seq(Outcomes)
  /\ Len(out) <= Len(more) /\ \A i \in 1 .. Len(out) : out[i] = more[i]

(* A course of n steps in reading a text, from the first call of nextToken *)
(* on, and what it comes to.                                               *)
Opened == [lexer |-> BeginToken(Fresh), sim |-> Idle]
IsCourse(w, course, n) ==
  /\ course[0] = Opened
  /\ \A i \in 1 .. n : /\ course[i] = Uncached(w, course[i - 1])
                       /\ Begins(course[i - 1].lexer.out, course[i].lexer.out)
Comes(w, x) == \E n \in Nat : \E course : IsCourse(w, course, n) /\ course[n] = x

LEMMA CourseIsDetermined ==
  ASSUME NEW w, NEW m \in Nat, NEW n \in Nat, m <= n, NEW short, NEW long,
         IsCourse(w, short, m), IsCourse(w, long, n)
  PROVE  long[m] = short[m]
<1> DEFINE Differs == {i \in 0 .. m : long[i] # short[i]}
<1>1. Differs = {}
  <2> SUFFICES ASSUME Differs # {} PROVE FALSE
    OBVIOUS
  <2>1. PICK i \in Differs : \A j \in Differs : i <= j
    <3>1. Differs \in SUBSET Nat
      OBVIOUS
    <3> HIDE DEF Differs
    <3> QED BY <3>1, LeastElement
  <2>2. i \in 1 .. m /\ i \in 1 .. n
    BY <2>1 DEF IsCourse
  <2>3. long[i - 1] = short[i - 1]
    BY <2>1, <2>2
  <2>4. long[i] = Uncached(w, long[i - 1]) /\ short[i] = Uncached(w, short[i - 1])
    BY <2>2 DEF IsCourse
  <2> QED BY <2>1, <2>3, <2>4
<1> QED BY <1>1

LEMMA CourseGoesOn ==
  ASSUME NEW w, NEW m \in Nat, NEW n \in Nat, m < n, NEW course, IsCourse(w, course, n)
  PROVE  Begins(course[m].lexer.out, course[n].lexer.out)
<1> DEFINE Out(i) == course[i].lexer.out
           Breaks == {i \in Nat : m < i /\ i <= n /\ ~Begins(Out(m), Out(i))}
<1>0. \A i \in 1 .. n : Begins(Out(i - 1), Out(i))
  BY DEF IsCourse
<1> HIDE DEF Out
<1>1. Breaks = {}
  <2> SUFFICES ASSUME Breaks # {} PROVE FALSE
    OBVIOUS
  <2>1. PICK i \in Breaks : \A j \in Breaks : i <= j
    BY LeastElement
  <2>2. i \in 1 .. n /\ Begins(Out(i - 1), Out(i)) /\ i - 1 \in Nat /\ m <= i - 1
    BY <1>0, <2>1
  <2>3. CASE i - 1 = m
    BY <2>1, <2>2, <2>3
  <2>4. CASE i - 1 # m
    <3>1. Begins(Out(m), Out(i - 1))
      BY <2>1, <2>2, <2>4
    <3> DEFINE a == Out(m)
               b == Out(i - 1)
               c == Out(i)
    <3>2. Begins(a, b) /\ Begins(b, c) /\ ~Begins(a, c)
      BY <2>1, <2>2, <3>1
    <3> HIDE DEF a, b, c
    <3> QED BY <3>2 DEF Begins
  <2> QED BY <2>3, <2>4
<1> QED BY <1>1 DEF Out

(* Of two things that reading a text comes to, one begins the other. *)
LEMMA OneBegins ==
  ASSUME NEW w, NEW x, NEW y, Comes(w, x), Comes(w, y),
         x.lexer.out \in Seq(Outcomes)
  PROVE  Begins(x.lexer.out, y.lexer.out) \/ Begins(y.lexer.out, x.lexer.out)
<1>1. PICK m \in Nat : \E course : IsCourse(w, course, m) /\ course[m] = x
  BY DEF Comes
<1>2. PICK c : IsCourse(w, c, m) /\ c[m] = x
  BY <1>1
<1>3. PICK n \in Nat : \E course : IsCourse(w, course, n) /\ course[n] = y
  BY DEF Comes
<1>4. PICK d : IsCourse(w, d, n) /\ d[n] = y
  BY <1>3
<1>5. CASE m = n
  <2>1. x = y
    BY <1>2, <1>4, <1>5, CourseIsDetermined
  <2> QED BY <2>1 DEF Begins
<1>6. CASE m < n
  <2>1. d[m] = x
    BY <1>2, <1>4, <1>6, CourseIsDetermined
  <2> QED BY <1>4, <1>6, <2>1, CourseGoesOn
<1>7. CASE n < m
  <2>1. c[n] = y
    BY <1>2, <1>4, <1>7, CourseIsDetermined
  <2> QED BY <1>2, <1>7, <2>1, CourseGoesOn
<1> QED BY <1>5, <1>6, <1>7

LEMMA ComesFirst == ASSUME NEW w PROVE Comes(w, Opened)
<1> DEFINE c == [i \in 0 .. 0 |-> Opened]
<1>1. IsCourse(w, c, 0) /\ c[0] = Opened
  BY DEF IsCourse
<1> HIDE DEF c
<1> QED BY <1>1 DEF Comes

LEMMA ComesNext ==
  ASSUME NEW w, NEW x, Comes(w, x), NEW y, y = Uncached(w, x),
         Begins(x.lexer.out, y.lexer.out)
  PROVE  Comes(w, y)
<1>1. PICK n \in Nat : \E course : IsCourse(w, course, n) /\ course[n] = x
  BY DEF Comes
<1>2. PICK c : IsCourse(w, c, n) /\ c[n] = x
  BY <1>1
<1> DEFINE d == [i \in 0 .. n + 1 |-> IF i = n + 1 THEN y ELSE c[i]]
<1>3. /\ \A i \in 0 .. n : d[i] = c[i]
      /\ d[n + 1] = y /\ n + 1 \in Nat
  OBVIOUS
<1> HIDE DEF d
<1>4. d[0] = Opened
  BY <1>2, <1>3 DEF IsCourse
<1>5. ASSUME NEW i \in 1 .. n + 1
      PROVE  /\ d[i] = Uncached(w, d[i - 1])
             /\ Begins(d[i - 1].lexer.out, d[i].lexer.out)
  <2>1. CASE i = n + 1
    <3>1. i - 1 = n /\ n \in 0 .. n
      BY <2>1
    <3>2. d[i - 1] = x /\ d[i] = y
      BY <1>2, <1>3, <2>1, <3>1
    <3> QED BY <3>2
  <2>2. CASE i # n + 1
    <3>1. i \in 1 .. n /\ i \in 0 .. n /\ i - 1 \in 0 .. n
      BY <2>2
    <3>2. d[i - 1] = c[i - 1] /\ d[i] = c[i]
      BY <1>3, <3>1
    <3> QED BY <1>2, <3>1, <3>2 DEF IsCourse
  <2> QED BY <2>1, <2>2
<1>6. IsCourse(w, d, n + 1)
  BY <1>4, <1>5 DEF IsCourse
<1> QED BY <1>3, <1>6 DEF Comes

-----------------------------------------------------------------------------
(* What comes out only grows. *)
Grows(l, m) ==
  /\ DOMAIN m = DOMAIN l
  /\ m.out = l.out \/ \E p : m.out = Append(l.out, p)

LEMMA TiledOutcomes ==
  ASSUME IsText, NEW out, Tiled(out)
  PROVE  out \in Seq(Outcomes)
<1>1. Pieces \subseteq Outcomes
  BY DEF IsText, Pieces, Outcomes, Places, Indexes, TokenTypes, EOF, SKIP, ERROR_TEXT, LOST_TEXT
<1> HIDE DEF Pieces, Outcomes
<1>2. out \in Seq(Pieces)
  BY DEF Tiled
<1> QED BY <1>1, <1>2

LEMMA GrowsBegins ==
  ASSUME NEW out \in Seq(Outcomes), NEW more \in Seq(Outcomes),
         more = out \/ \E p : more = Append(out, p)
  PROVE  Begins(out, more)
<1> HIDE DEF Outcomes
<1>1. CASE more = out
  BY <1>1 DEF Begins
<1>2. CASE \E p : more = Append(out, p)
  BY <1>2 DEF Begins
<1> QED BY <1>1, <1>2

LEMMA ConsumeGrows == ASSUME NEW l, FieldNames \subseteq DOMAIN l PROVE Grows(l, ConsumeChar(l))
BY DEF Grows, ConsumeChar, FieldNames

LEMMA AfterMatchGrows ==
  ASSUME NEW l, FieldNames \subseteq DOMAIN l, NEW t
  PROVE  Grows(l, AfterMatch(l, t))
BY DEF Grows, Emit, FieldNames, AfterMatch

LEMMA AfterThrowGrows ==
  ASSUME NEW l, FieldNames \subseteq DOMAIN l
  PROVE  Grows(l, AfterThrow(l))
BY DEF Grows, Emit, FieldNames, AfterThrow

LEMMA AfterErrorGrows ==
  ASSUME NEW l, FieldNames \subseteq DOMAIN l
  PROVE  Grows(l, AfterError(l))
BY DEF Grows, Emit, FieldNames, AfterError, Recover, ConsumeChar

LEMMA BeginGrows ==
  ASSUME NEW l, FieldNames \subseteq DOMAIN l
  PROVE  Grows(l, BeginToken(l)) /\ Grows(l, EmitEOF(l))
BY DEF Grows, FieldNames, BeginToken, EmitEOF

LEMMA ClearedBegins ==
  ASSUME NEW l, DOMAIN l = FieldNames, l.thrown \in BOOLEAN, ~l.thrown
  PROVE  BeginToken(Clear(l)) = BeginToken(Fresh)
<1> DEFINE m == BeginToken(Clear(l))
           k == BeginToken(Fresh)
<1>1. m = [f \in FieldNames |-> m[f]]
  BY DEF BeginToken, Clear
<1>2. k = [f \in FieldNames |-> k[f]]
  <2>1. DOMAIN k = FieldNames
    BY DEF BeginToken, Fresh, FieldNames
  <2>2. k = [f \in DOMAIN k |-> k[f]]
    BY DEF BeginToken
  <2> QED BY <2>1, <2>2
<1>3. \A f \in FieldNames : m[f] = k[f]
  <2> DEFINE Of(r) ==
        /\ r.index = 0 /\ r.line = 1 /\ r.column = 0
        /\ r.mode = DEFAULT_MODE /\ r.modeStack = <<>> /\ r.hitEOF = FALSE
        /\ r.start = [index |-> 0, line |-> 1, column |-> 0]
        /\ r.type = INVALID_TYPE /\ r.channel = DEFAULT_CHANNEL /\ r.calling = "match"
        /\ r.thrown = FALSE /\ r.out = <<>> /\ r.ran = <<>>
  <2>1. Of(k)
    BY DEF BeginToken, Fresh
  <2>2. Of(m)
    <3> DEFINE c == Clear(l)
    <3>1. /\ c.index = 0 /\ c.line = 1 /\ c.column = 0 /\ c.mode = DEFAULT_MODE
          /\ c.modeStack = <<>> /\ c.hitEOF = FALSE /\ c.thrown = l.thrown
          /\ c.out = <<>> /\ c.ran = <<>> /\ DOMAIN c = FieldNames
      BY DEF Clear, FieldNames
    <3>2. c.thrown = FALSE
      BY <3>1
    <3> HIDE DEF c
    <3>3. m = BeginToken(c)
      BY DEF c
    <3> HIDE DEF m
    <3>4. m = [c EXCEPT !.calling = "match", !.type = INVALID_TYPE, !.channel = DEFAULT_CHANNEL,
                 !.start = [index |-> 0, line |-> 1, column |-> 0]]
      BY <3>1, <3>3 DEF BeginToken
    <3> QED BY <3>1, <3>2, <3>4 DEF FieldNames
  <2> HIDE DEF m, k
  <2> QED BY <2>1, <2>2 DEF FieldNames
<1> HIDE DEF m, k
<1>4. m = k
  BY <1>1, <1>2, <1>3
<1> QED BY <1>4 DEF m, k

LEMMA StepGrows ==
  ASSUME SetsAreOfTheATN, IInv, SimulatorNext, ~ResetLexer, ~ReadAnotherInput
  PROVE  Grows(lexer, lexer') /\ g' = g /\ UNCHANGED <<input, earlier>>
<1>0. /\ FieldNames \subseteq DOMAIN lexer /\ Acts(lexer) /\ g \in Grammars
      /\ Follows(lexer, sim)
  BY DEF IInv, Rests, Acts
<1>1. CASE CallNextToken
  BY <1>0, <1>1, BeginGrows DEF CallNextToken, NextToken
<1>2. CASE MatchFromDFA \/ MatchATN
  BY <1>2 DEF MatchFromDFA, MatchATN, lexerVars, Grows
<1>3. CASE FollowEdge \/ ComputeTarget
  <2>1. PICK t : Turn(t)
    BY <1>3 DEF FollowEdge, ComputeTarget
  <2>2. lexer' = lexer \/ lexer' = ConsumeChar(lexer)
    BY <2>1 DEF Turn
  <2>3. Grows(lexer, lexer)
    BY DEF Grows
  <2> QED BY <1>0, <2>1, <2>2, <2>3, ConsumeGrows DEF Turn
<1>4. CASE AcceptToken
  <2> DEFINE a     == sim.prevAccept
             end   == FirstEnd(a.state)
             b     == BackTo(lexer, a)
             l     == Execute(b, end.actions, sim.startIndex)
             ttype == g.ruleToTokenType[g.rule[end.state]]
  <2>1. /\ lexer' = AfterThrow(l) \/ lexer' = AfterMatch(l, ttype)
        /\ sim.phase = "ended" /\ a # NoAccept /\ UNCHANGED <<g, input, earlier>>
    BY <1>4 DEF AcceptToken
  <2>2. IsConfiguration(g, end)
    <3>1. Arises(g, a.state) /\ Accepting(a.state)
      BY <1>0, <2>1 DEF Follows, ComesBack
    <3> QED BY <1>0, <3>1, FirstEndIsEnd DEF SetsAreOfTheATN
  <2> HIDE DEF end
  <2>3. Len(end.actions) \in Nat /\ \A k \in 1 .. Len(end.actions) : IsAction(g, end.actions[k])
    BY <2>2 DEF IsConfiguration
  <2>4. /\ Acts(b) /\ DOMAIN b = DOMAIN lexer /\ b.out = lexer.out
    BY <1>0 DEF Acts, BackTo, FieldNames
  <2> HIDE DEF b
  <2>5. Acts(l) /\ DOMAIN l = DOMAIN lexer /\ l.out = lexer.out
    BY <2>3, <2>4, ExecuteActs DEF Same
  <2> HIDE DEF l, ttype
  <2>6. Grows(l, lexer')
    BY <2>1, <2>5, AfterThrowGrows, AfterMatchGrows DEF Acts
  <2> QED BY <2>1, <2>5, <2>6 DEF Grows
<1>5. CASE AcceptEOF \/ NoViableAlt
  BY <1>0, <1>5, AfterMatchGrows, AfterErrorGrows DEF AcceptEOF, NoViableAlt
<1> QED BY <1>1, <1>2, <1>3, <1>4, <1>5 DEF SimulatorNext

(* The grammar being the same, what a text comes to is. *)
LEMMA ComesStays == ASSUME g' = g PROVE \A w, x : Comes(w, x)' <=> Comes(w, x)
<1>1. \A w, x : Uncached(w, x)' = Uncached(w, x)
  BY DEF Uncached, Begun, GoneOn, Target, Matched, MatchedAs, Failed, Symbol, Consumed,
         Captured, Accepting, Ends, FirstEnd
<1> QED BY <1>1 DEF Comes, IsCourse

(* The lexer before the first call of nextToken on a text. *)
Starting ==
  /\ lexer.calling = "no" /\ ~lexer.hitEOF /\ lexer.out = <<>>
  /\ BeginToken(lexer) = Opened.lexer /\ sim = Idle

(* What came out of a text before is something that reading it comes to. *)
Passes == [input : Seq(Nat), out : Seq(Outcomes)]
WasRead(pass) ==
  pass.out = <<>> \/ \E x : Comes(pass.input, x) /\ x.lexer.out = pass.out

AInv ==
  /\ CInv /\ DOMAIN lexer = FieldNames
  /\ Starting \/ Comes(input, Now)
  /\ earlier \in Seq(Passes) /\ \A i \in 1 .. Len(earlier) : WasRead(earlier[i])

LEMMA AInvAgain == AInv => SameTokensAgain
<1> SUFFICES ASSUME AInv, NEW i \in DOMAIN earlier, earlier[i].input = input
             PROVE  \A k \in DOMAIN lexer.out \cap DOMAIN earlier[i].out :
                      lexer.out[k] = earlier[i].out[k]
  BY DEF SameTokensAgain
<1> DEFINE then == earlier[i].out
           now  == lexer.out
<1>1. i \in 1 .. Len(earlier) /\ WasRead(earlier[i]) /\ earlier[i] \in Passes
  BY DEF AInv
<1>2. then \in Seq(Outcomes)
  BY <1>1 DEF Passes
<1>3. now \in Seq(Outcomes)
  BY InputIsText, TiledOutcomes DEF AInv, CInv, IInv, Rests
<1>4. CASE then = <<>> \/ now = <<>>
  BY <1>4
<1>5. CASE then # <<>> /\ now # <<>>
  <2>1. Comes(input, Now)
    BY <1>5 DEF AInv, Starting
  <2>2. PICK x : Comes(input, x) /\ x.lexer.out = then
    BY <1>1, <1>5 DEF WasRead
  <2>3. Now.lexer.out = now
    BY DEF Now
  <2>4. Begins(then, now) \/ Begins(now, then)
    BY <1>2, <2>1, <2>2, <2>3, OneBegins
  <2> QED BY <2>4 DEF Begins
<1> QED BY <1>4, <1>5

LEMMA InitAInv == SimulatorInit => AInv
<1> SUFFICES ASSUME SimulatorInit PROVE AInv
  OBVIOUS
<1>1. lexer = Fresh /\ sim = Idle /\ earlier = <<>>
  BY DEF SimulatorInit, Init
<1>2. CInv
  BY InitIInv DEF CInv, SimulatorInit, Anywhere, EmptyDFA, Modes, InPlace, Idle
<1>3. DOMAIN lexer = FieldNames /\ Starting
  BY <1>1 DEF Fresh, FieldNames, Starting, Opened
<1>4. earlier \in Seq(Passes) /\ Len(earlier) = 0
  BY <1>1
<1> QED BY <1>2, <1>3, <1>4 DEF AInv

LEMMA WasReadStays == ASSUME g' = g PROVE \A pass : WasRead(pass)' <=> WasRead(pass)
BY ComesStays DEF WasRead

(* Another call, or another step of one. *)
LEMMA GoOnAgain ==
  ASSUME SetsAreOfTheATN, AInv, CInv', SimulatorNext, ~ResetLexer, ~ReadAnotherInput
  PROVE  AInv'
<1>1. Grows(lexer, lexer') /\ g' = g /\ input' = input /\ earlier' = earlier
  BY StepGrows DEF AInv, CInv
<1>2. DOMAIN lexer' = FieldNames
  BY <1>1 DEF Grows, AInv
<1>3. \A i \in 1 .. Len(earlier') : WasRead(earlier[i])'
  BY <1>1, WasReadStays DEF AInv
<1>4. earlier' \in Seq(Passes)
  BY <1>1 DEF AInv
<1>5. Comes(input, Now')
  <2>1. CASE Starting
    <3>1. CallNextToken
      BY <2>1 DEF SimulatorNext, Starting, Idle, MatchFromDFA, MatchATN, FollowEdge,
                  ComputeTarget, AcceptToken, AcceptEOF, NoViableAlt
    <3>2. Now' = Opened
      BY <2>1, <3>1 DEF CallNextToken, NextToken, Starting, Now, Opened
    <3> QED BY <3>2, ComesFirst
  <2>2. CASE Comes(input, Now)
    <3>1. Now' = Uncached(input, Now)
      BY StepsAreUncached DEF AInv
    <3>2. lexer.out \in Seq(Outcomes)
      BY InputIsText, TiledOutcomes DEF AInv, CInv, IInv, Rests
    <3>3. lexer'.out \in Seq(Outcomes)
      <4>1. Tiled(lexer'.out)
        <5>1. Indexes' = Indexes /\ Pieces' = Pieces
          BY <1>1 DEF Indexes, Pieces, Places
        <5>2. \A i : LineAt(i)' = LineAt(i) /\ ColumnAt(i)' = ColumnAt(i)
          BY <1>1 DEF LineAt, ColumnAt, NewlinesBefore
        <5>3. Tiled(lexer.out)'
          BY DEF CInv, IInv, Rests
        <5> QED BY <5>1, <5>2, <5>3 DEF Tiled, Stands
      <4> QED BY <4>1, InputIsText, TiledOutcomes DEF AInv, CInv, IInv
    <3>4. Begins(Now.lexer.out, Now'.lexer.out)
      BY <1>1, <3>2, <3>3, GrowsBegins DEF Now, Grows
    <3> HIDE DEF Now
    <3> QED BY <2>2, <3>1, <3>4, ComesNext
  <2> QED BY <2>1, <2>2 DEF AInv
<1>6. Comes(input, Now)'
  BY <1>1, <1>5, ComesStays
<1> QED BY <1>2, <1>3, <1>4, <1>6 DEF AInv

(* Reset, or another text. *)
LEMMA StartAgainAgain ==
  ASSUME AInv, CInv', NEW text, StartAgain(text), sim' = Idle
  PROVE  AInv'
<1> DEFINE pass == [input |-> input, out |-> lexer.out]
<1>1. /\ lexer.calling = "no" /\ earlier' = Append(earlier, pass) /\ g' = g
      /\ lexer' = Clear(lexer)
  BY DEF StartAgain
<1>2. IsText /\ DOMAIN lexer = FieldNames /\ Rests(lexer)
  BY InputIsText DEF AInv, CInv, IInv
<1>3. ~lexer.thrown /\ lexer.thrown \in BOOLEAN
  BY <1>2 DEF Rests, Acts
<1>4. DOMAIN lexer' = FieldNames
  BY <1>1, <1>2 DEF Clear
<1>5. Starting'
  <2>1. lexer'.calling = "no" /\ ~lexer'.hitEOF /\ lexer'.out = <<>>
    BY <1>1, <1>2 DEF Clear, FieldNames
  <2>2. BeginToken(lexer') = Opened.lexer
    BY <1>1, <1>2, <1>3, ClearedBegins DEF Opened
  <2> QED BY <2>1, <2>2 DEF Starting, Opened
<1>6. pass \in Passes
  BY <1>2, TiledOutcomes DEF Passes, Rests, IsText
<1>7. WasRead(pass)
  <2>1. CASE Starting
    BY <2>1 DEF WasRead, Starting
  <2>2. CASE Comes(input, Now)
    <3>1. Now.lexer.out = pass.out /\ pass.input = input
      BY DEF Now
    <3> QED BY <2>2, <3>1 DEF WasRead
  <2> QED BY <2>1, <2>2 DEF AInv
<1> HIDE DEF pass
<1>8. earlier' \in Seq(Passes) /\ \A i \in 1 .. Len(earlier') : WasRead(earlier'[i])
  BY <1>1, <1>6, <1>7 DEF AInv
<1>9. \A i \in 1 .. Len(earlier') : WasRead(earlier[i])'
  BY <1>1, <1>8, WasReadStays
<1> QED BY <1>4, <1>5, <1>8, <1>9 DEF AInv

LEMMA AInvStays ==
  ASSUME SetsAreOfTheATN, UnmarkedSetsStay
  PROVE  AInv /\ [SimulatorNext]_vars => AInv'
<1> SUFFICES ASSUME AInv, [SimulatorNext]_vars PROVE AInv'
  OBVIOUS
<1>1. CInv'
  BY CInvStays DEF AInv
<1>2. CASE ResetLexer
  BY <1>1, <1>2, StartAgainAgain DEF ResetLexer, Reset
<1>3. CASE ReadAnotherInput
  BY <1>1, <1>3, StartAgainAgain DEF ReadAnotherInput, SetInputStream
<1>4. CASE SimulatorNext /\ ~ResetLexer /\ ~ReadAnotherInput
  BY <1>1, <1>4, GoOnAgain
<1>5. CASE UNCHANGED vars
  <2>1. g' = g /\ input' = input /\ lexer' = lexer /\ sim' = sim /\ earlier' = earlier
    BY <1>5 DEF vars
  <2>2. Starting' <=> Starting
    BY <2>1 DEF Starting, Opened
  <2>3. Comes(input, Now)' <=> Comes(input, Now)
    BY <2>1, ComesStays DEF Now
  <2> QED BY <1>1, <2>1, <2>2, <2>3, WasReadStays DEF AInv
<1> QED BY <1>2, <1>3, <1>4, <1>5

(* A text that is read again gives the tokens it gave, whatever was read   *)
(* in between, in whichever mode the lexer was left, and if an action      *)
(* threw: nothing but the text decides what comes out (reset, and the      *)
(* cache that outlives it), if unmarked sets do not depend on the place.   *)
THEOREM SameTokensAlwaysAgain ==
  ASSUME SetsAreOfTheATN, UnmarkedSetsStay
  PROVE  SimulatorSpec => []SameTokensAgain
<1>1. SimulatorInit => AInv
  BY InitAInv
<1>2. AInv /\ [SimulatorNext]_vars => AInv'
  BY AInvStays
<1>3. AInv => SameTokensAgain
  BY AInvAgain
<1> QED BY <1>1, <1>2, <1>3, PTL DEF SimulatorSpec

-----------------------------------------------------------------------------
(* LexerATNSimulator implements Lexer: for every lexer and text, whatever  *)
(* the sets of configurations and the matches are, if the sets find the    *)
(* matches (SetsFindMatches).                                              *)
(*                                                                         *)
(* The sets met in reading a token at a place are a walk, from the start   *)
(* state on; a family of sets that has the first and with each the next is *)
(* one, and a set is met when it is in every such family (Met, Ahead).     *)
(* The invariant is that the simulator is on it, and that every set on it  *)
(* that ends a rule is ahead or not behind the place to come back to       *)
(* (Walks).  So where the walk ends, that place is the best match's; and   *)
(* the executor does in one pass, seeking and coming back, what running    *)
(* each action in its place does (ExecuteInPlace).                         *)

(* Two lexers that differ in the place of the stream at most. *)
SameBut(l, m) ==
  /\ IsRecord(l) /\ IsRecord(m) /\ DOMAIN l = DOMAIN m /\ FieldNames \subseteq DOMAIN l
  /\ \A f \in DOMAIN l \ {"index"} : l[f] = m[f]

LEMMA SameAll == ASSUME NEW l, NEW m, SameBut(l, m), l.index = m.index PROVE l = m
BY DEF SameBut, IsRecord

LEMMA MovedSame ==
  ASSUME NEW l, NEW m, SameBut(l, m), NEW i, NEW j
  PROVE  SameBut([l EXCEPT !.index = i], [m EXCEPT !.index = j])
BY DEF SameBut, IsRecord

LEMMA SameTransitive ==
  ASSUME NEW l, NEW m, NEW n, SameBut(l, m), SameBut(m, n)
  PROVE  SameBut(l, n)
BY DEF SameBut

(* An action that is not a custom one does not look at the stream. *)
LEMMA PerformSame ==
  ASSUME NEW l, NEW m, SameBut(l, m), NEW a, IsAction(g, a), a.kind # "custom"
  PROVE  SameBut(Perform(l, a), Perform(m, a))
<1> DEFINE Form(r, s) ==
      \/ a.kind = "skip" /\ s = [r EXCEPT !.type = SKIP]
      \/ a.kind = "more" /\ s = [r EXCEPT !.type = MORE]
      \/ a.kind = "type" /\ s = [r EXCEPT !.type = a.type]
      \/ a.kind = "channel" /\ s = [r EXCEPT !.channel = a.channel]
      \/ a.kind = "mode" /\ s = [r EXCEPT !.mode = a.mode]
      \/ a.kind = "pushMode" /\ s = [r EXCEPT !.modeStack = <<r.mode>> \o @, !.mode = a.mode]
      \/ a.kind = "popMode" /\ r.modeStack = <<>> /\ s = [r EXCEPT !.thrown = TRUE]
      \/ /\ a.kind = "popMode" /\ r.modeStack # <<>>
         /\ s = [r EXCEPT !.mode = Head(r.modeStack), !.modeStack = Tail(@)]
<1>1. ASSUME NEW r PROVE Form(r, Perform(r, a))
  BY DEF IsAction, Perform
<1> DEFINE p == Perform(l, a)
           q == Perform(m, a)
<1>2. Form(l, p) /\ Form(m, q)
  BY <1>1
<1> HIDE DEF p, q
<1>3. /\ l.mode = m.mode /\ l.modeStack = m.modeStack /\ IsRecord(l) /\ IsRecord(m)
      /\ DOMAIN l = DOMAIN m /\ FieldNames \subseteq DOMAIN l
      /\ \A f \in DOMAIN l \ {"index"} : l[f] = m[f]
  BY DEF SameBut, FieldNames
<1>4. IsRecord(p) /\ IsRecord(q) /\ DOMAIN p = DOMAIN l /\ DOMAIN q = DOMAIN m
  BY <1>2 DEF IsRecord
<1>5. \A f \in DOMAIN p \ {"index"} : p[f] = q[f]
  <2>1. CASE a.kind = "skip"
    BY <1>2, <1>3, <1>4, <2>1
  <2>2. CASE a.kind = "more"
    BY <1>2, <1>3, <1>4, <2>2
  <2>3. CASE a.kind = "type"
    BY <1>2, <1>3, <1>4, <2>3
  <2>4. CASE a.kind = "channel"
    BY <1>2, <1>3, <1>4, <2>4
  <2>5. CASE a.kind = "mode"
    BY <1>2, <1>3, <1>4, <2>5
  <2>0. ASSUME NEW x, NEW y, NEW r, NEW s, IsRecord(r), FieldNames \subseteq DOMAIN r,
               s = [r EXCEPT !.modeStack = x, !.mode = y]
        PROVE  /\ s.modeStack = x /\ s.mode = y
               /\ \A f \in DOMAIN r \ {"mode", "modeStack"} : s[f] = r[f]
    BY <2>0 DEF FieldNames
  <2>6. CASE a.kind = "pushMode"
    <3> DEFINE x == <<l.mode>> \o l.modeStack
    <3>1. /\ p = [l EXCEPT !.modeStack = x, !.mode = a.mode]
          /\ q = [m EXCEPT !.modeStack = x, !.mode = a.mode]
      BY <1>2, <1>3, <2>6
    <3> HIDE DEF x
    <3> QED BY <1>3, <1>4, <2>0, <3>1
  <2>7. CASE a.kind = "popMode"
    <3>1. CASE l.modeStack = <<>>
      BY <1>2, <1>3, <1>4, <2>7, <3>1
    <3>2. CASE l.modeStack # <<>>
      <4> DEFINE x == Tail(l.modeStack)
                 y == Head(l.modeStack)
      <4>1. /\ p = [l EXCEPT !.mode = y, !.modeStack = x]
            /\ q = [m EXCEPT !.mode = y, !.modeStack = x]
        BY <1>2, <1>3, <2>7, <3>2
      <4> HIDE DEF x, y
      <4> QED BY <1>3, <1>4, <4>1 DEF FieldNames
    <3> QED BY <3>1, <3>2
  <2> QED BY <1>2, <2>1, <2>2, <2>3, <2>4, <2>5, <2>6, <2>7
<1> QED BY <1>3, <1>4, <1>5 DEF SameBut, p, q

(* The place of an action is all that changes. *)
LEMMA PerformPlaced ==
  ASSUME NEW l, NEW a, IsAction(g, a), NEW start, NEW stop
  PROVE  Perform(l, PlacedAction(a, start, stop)) = Perform(l, a)
<1> DEFINE b == PlacedAction(a, start, stop)
<1>1. b.kind = a.kind /\ b.type = a.type /\ b.channel = a.channel /\ b.mode = a.mode
      /\ b.id = a.id
  BY DEF PlacedAction
<1> HIDE DEF b
<1> QED BY <1>1 DEF Perform, b

(* One action, by the executor and by the specification. *)
PlaceOne(l, m, b) ==
  IF m.thrown THEN m
  ELSE [Perform([m EXCEPT !.index = IF b.offset = NoOffset THEN m.index ELSE b.offset], b)
          EXCEPT !.index = l.index]

(* Where the two are. *)
InStep(l, e, m) == Executing(l, e) /\ SameBut(e.lexer, m) /\ m.index = l.index

LEMMA OneInStep ==
  ASSUME NEW l, l.index \in Nat, NEW e, NEW m, InStep(l, e, m), NEW a, IsAction(g, a),
         NEW start \in Nat
  PROVE  InStep(l, ExecuteOne(e, a, start, l.index),
                PlaceOne(l, m, PlacedAction(a, start, l.index)))
<1> DEFINE b == PlacedAction(a, start, l.index)
           f == ExecuteOne(e, a, start, l.index)
           n == PlaceOne(l, m, b)
           r == e.lexer
           Put(s, i) == [s EXCEPT !.index = i]
           place == IF b.offset = NoOffset THEN m.index ELSE b.offset
           onward == Perform(Put(m, place), b)
<1> SUFFICES InStep(l, f, n)
  OBVIOUS
<1>1. Executing(l, f)
  BY ExecuteOneActs DEF InStep
<1>2. SameBut(r, m) /\ m.index = l.index /\ r.thrown = m.thrown /\ Acts(r)
      /\ "index" \in DOMAIN m /\ "index" \in DOMAIN r
  BY DEF InStep, Executing, SameBut, FieldNames
<1>3. b.offset = IF a.offset # NoOffset THEN start + a.offset
                 ELSE IF a.kind = "custom" THEN l.index ELSE NoOffset
  BY DEF PlacedAction, IsAction
<1>4. a.offset # NoOffset => start + a.offset # NoOffset
  BY DEF IsAction, NoOffset
<1>5. l.index # NoOffset
  BY DEF NoOffset
<1>6. onward = Perform(Put(m, place), a)
  BY PerformPlaced
<1>7. n = IF m.thrown THEN m ELSE Put(onward, l.index)
  BY DEF PlaceOne
<1>8. /\ r.thrown => f = e
      /\ ~r.thrown /\ a.offset # NoOffset => f.lexer = Perform(Put(r, start + a.offset), a)
      /\ ~r.thrown /\ a.offset = NoOffset /\ a.kind = "custom"
           => f.lexer = Perform(Put(r, l.index), a)
      /\ ~r.thrown /\ a.offset = NoOffset /\ a.kind # "custom"
           => f.lexer = Perform(Put(r, r.index), a)
  <2> DEFINE Do(i, seek) == [lexer |-> Perform(Put(r, i), a), seek |-> seek]
  <2>1. f = IF r.thrown THEN e
            ELSE IF a.offset # NoOffset THEN Do(start + a.offset, start + a.offset # l.index)
            ELSE IF a.kind = "custom" THEN Do(l.index, FALSE)
            ELSE Do(r.index, e.seek)
    BY DEF ExecuteOne
  <2>2. \A i, seek : Do(i, seek).lexer = Perform(Put(r, i), a)
    OBVIOUS
  <2> HIDE DEF Do, f, Put
  <2> QED BY <2>1, <2>2
<1> HIDE DEF b, f, n, onward, Put
<1>9. CASE m.thrown
  BY <1>1, <1>2, <1>7, <1>8, <1>9 DEF InStep
<1>10. CASE ~m.thrown
  <2>1. ASSUME NEW s, NEW t, SameBut(s, t), NEW i, NEW j PROVE SameBut(Put(s, i), Put(t, j))
    BY <2>1, MovedSame DEF Put
  <2>2. ASSUME NEW s, FieldNames \subseteq DOMAIN s, IsRecord(s), NEW i
        PROVE  SameBut(s, Put(s, i)) /\ Put(s, i).index = i
    BY <2>2 DEF Put, SameBut, IsRecord, FieldNames
  <2>3. SameBut(f.lexer, onward)
    <3>1. CASE a.kind = "custom" \/ a.offset # NoOffset
      <4> DEFINE i == IF a.offset # NoOffset THEN start + a.offset ELSE l.index
      <4>1. f.lexer = Perform(Put(r, i), a) /\ onward = Perform(Put(m, i), a)
        BY <1>2, <1>3, <1>4, <1>5, <1>6, <1>8, <1>10, <3>1
      <4> HIDE DEF i
      <4>2. Put(r, i) = Put(m, i)
        <5>1. SameBut(Put(r, i), Put(m, i))
          BY <1>2, <2>1
        <5>2. Put(r, i).index = i /\ Put(m, i).index = i
          BY <1>2 DEF Put
        <5> QED BY <5>1, <5>2, SameAll
      <4>3. SameBut(f.lexer, f.lexer)
        <5> DEFINE t == Put(r, i)
        <5>5. FieldNames \subseteq DOMAIN r
          BY <1>2 DEF Acts
        <5>0. /\ DOMAIN t = DOMAIN r /\ t.mode = r.mode /\ t.modeStack = r.modeStack
              /\ t.type = r.type /\ t.channel = r.channel /\ t.thrown = r.thrown
          BY <5>5 DEF Put, FieldNames
        <5>3. IsRecord(t)
          BY DEF Put, IsRecord
        <5> HIDE DEF t
        <5>4. Acts(t)
          BY <1>2, <5>0 DEF Acts
        <5>1. Acts(Put(r, i)) /\ IsRecord(Put(r, i))
          BY <5>3, <5>4 DEF t
        <5>2. Acts(f.lexer) /\ Same(Put(r, i), f.lexer)
          BY <4>1, <5>1, PerformActs
        <5> QED BY <5>1, <5>2 DEF SameBut, Same, Acts
      <4> QED BY <4>1, <4>2, <4>3
    <3>2. CASE a.kind # "custom" /\ a.offset = NoOffset
      <4>1. f.lexer = Perform(Put(r, r.index), a) /\ onward = Perform(Put(m, m.index), a)
        BY <1>2, <1>3, <1>6, <1>8, <1>10, <3>2
      <4> QED BY <1>2, <2>1, <3>2, <4>1, PerformSame
    <3> QED BY <3>1, <3>2
  <2>4. SameBut(onward, n) /\ n.index = l.index
    BY <1>7, <1>10, <2>2, <2>3 DEF SameBut
  <2> QED BY <1>1, <2>3, <2>4, SameTransitive DEF InStep
<1> QED BY <1>9, <1>10

(* The same loop, each action put where it stands. *)
ArePlaced(f, n, l, actions) ==
  f = [k \in 0 .. n |-> IF k = 0 THEN l ELSE PlaceOne(l, f[k - 1], actions[k])]

LEMMA PlacedGoesOn ==
  ASSUME NEW l, Acts(l), IsRecord(l), l.index \in Nat, NEW actions, Len(actions) \in Nat,
         \A k \in 1 .. Len(actions) : IsAction(g, actions[k]), NEW start \in Nat,
         DOMAIN actions = 1 .. Len(actions),
         NEW after, AreTurns(after, Len(actions), l, actions, start, l.index),
         NEW placed, placed[0] = l,
         NEW m \in 0 .. Len(actions),
         \A k \in 1 .. m :
           placed[k] = PlaceOne(l, placed[k - 1], Placed(actions, start, l.index)[k])
  PROVE  InStep(l, after[m], placed[m])
<1> DEFINE n == Len(actions)
           Off == {k \in 0 .. m : ~InStep(l, after[k], placed[k])}
<1>1. InStep(l, after[0], placed[0])
  <2>1. after[0] = [lexer |-> l, seek |-> FALSE]
    BY DEF AreTurns
  <2> QED BY <2>1 DEF InStep, Executing, Same, SameBut, Acts
<1>2. ASSUME NEW k \in 1 .. m, InStep(l, after[k - 1], placed[k - 1])
      PROVE  InStep(l, after[k], placed[k])
  <2>1. k \in 0 .. n /\ k # 0 /\ k \in 1 .. n
    OBVIOUS
  <2>2. after[k] = ExecuteOne(after[k - 1], actions[k], start, l.index)
    BY <2>1 DEF AreTurns
  <2>3. placed[k] = PlaceOne(l, placed[k - 1], PlacedAction(actions[k], start, l.index))
    BY <2>1 DEF Placed
  <2> QED BY <1>2, <2>1, <2>2, <2>3, OneInStep
<1>3. Off = {}
  <2> SUFFICES ASSUME Off # {} PROVE FALSE
    OBVIOUS
  <2>1. PICK k \in Off : \A j \in Off : k <= j
    <3>1. Off \in SUBSET Nat
      OBVIOUS
    <3> HIDE DEF Off
    <3> QED BY <3>1, LeastElement
  <2>2. k \in 0 .. m /\ k # 0 /\ ~InStep(l, after[k], placed[k])
    BY <1>1, <2>1
  <2>3. k \in 1 .. m /\ k - 1 \in 0 .. m /\ ~(k <= k - 1)
    BY <2>2
  <2>4. InStep(l, after[k - 1], placed[k - 1])
    BY <2>1, <2>3
  <2> QED BY <1>2, <2>2, <2>3, <2>4
<1> QED BY <1>3

(* The executor leaves what running each action in its place leaves. *)
LEMMA ExecuteInPlace ==
  ASSUME NEW l, Acts(l), IsRecord(l), l.index \in Nat, NEW actions, Len(actions) \in Nat,
         \A k \in 1 .. Len(actions) : IsAction(g, actions[k]), NEW start \in Nat,
         DOMAIN actions = 1 .. Len(actions)
  PROVE  Execute(l, actions, start) = PerformInPlace(l, Placed(actions, start, l.index))
<1> DEFINE n    == Len(actions)
           acts == Placed(actions, start, l.index)
           Goes(f) == ArePlaced(f, n, l, acts)
           placed == CHOOSE f : Goes(f)
<1>1. PICK after :
        /\ AreTurns(after, n, l, actions, start, l.index)
        /\ Execute(l, actions, start) =
             IF after[n].seek THEN [after[n].lexer EXCEPT !.index = l.index] ELSE after[n].lexer
  BY ExecuteTurns
<1>2. PerformInPlace(l, acts) = placed[n]
  <2>1. Len(acts) = n
    BY DEF Placed
  <2> HIDE DEF acts, n
  <2> QED BY <2>1 DEF PerformInPlace, ArePlaced, PlaceOne
<1>3. Goes(placed)
  <2> DEFINE f == [k \in 0 .. n |-> [after[k].lexer EXCEPT !.index = l.index]]
  <2>1. f[0] = l
    <3>1. after[0] = [lexer |-> l, seek |-> FALSE]
      BY <1>1 DEF AreTurns
    <3> QED BY <3>1 DEF IsRecord
  <2> DEFINE Right(k) == f[k] = PlaceOne(l, f[k - 1], acts[k])
             Wrong == {k \in 1 .. n : ~Right(k)}
  <2>2. \A k \in 1 .. n : Right(k)
    <3> HIDE DEF Right
    <3> SUFFICES ASSUME Wrong # {} PROVE FALSE
      OBVIOUS
    <3>1. PICK k \in Wrong : \A j \in Wrong : k <= j
      <4>1. Wrong \in SUBSET Nat
        OBVIOUS
      <4> HIDE DEF Wrong
      <4> QED BY <4>1, LeastElement
    <3>2. k \in 1 .. n /\ k - 1 \in 0 .. n /\ k \in 0 .. n /\ k # 0
      BY <3>1
    <3>3. \A j \in 1 .. k - 1 : Right(j)
      <4>1. n \in Nat
        OBVIOUS
      <4> HIDE DEF n
      <4> QED BY <3>1, <3>2, <4>1
    <3> USE DEF Right
    <3> HIDE DEF f
    <3>4. InStep(l, after[k - 1], f[k - 1])
      BY <1>1, <2>1, <3>2, <3>3, PlacedGoesOn
    <3>5. after[k] = ExecuteOne(after[k - 1], actions[k], start, l.index)
      BY <1>1, <3>2 DEF AreTurns
    <3>6. acts[k] = PlacedAction(actions[k], start, l.index)
      BY <3>2 DEF Placed
    <3> DEFINE p == PlaceOne(l, f[k - 1], acts[k])
    <3>7. InStep(l, after[k], p)
      BY <3>2, <3>4, <3>5, <3>6, OneInStep
    <3>8. f[k] = [after[k].lexer EXCEPT !.index = l.index]
      BY <3>2 DEF f
    <3> HIDE DEF p
    <3>9. f[k] = p
      <4>1. SameBut(after[k].lexer, p) /\ p.index = l.index
        BY <3>7 DEF InStep
      <4>2. SameBut(f[k], p) /\ f[k].index = l.index
        BY <3>8, <4>1 DEF SameBut, IsRecord, FieldNames
      <4> QED BY <4>1, <4>2, SameAll
    <3> QED BY <3>1, <3>9 DEF p
  <2> USE DEF Right
  <2>3. f = [k \in 0 .. n |-> f[k]]
    OBVIOUS
  <2> HIDE DEF f
  <2>4. \A k \in 0 .. n : f[k] = IF k = 0 THEN l ELSE PlaceOne(l, f[k - 1], acts[k])
    BY <2>1, <2>2
  <2>5. Goes(f)
    BY <2>3, <2>4 DEF ArePlaced
  <2> HIDE DEF Goes
  <2> QED BY <2>5
<1> HIDE DEF placed, Goes
<1>4. InStep(l, after[n], placed[n])
  <2>1. placed[0] = l /\ \A k \in 1 .. n : placed[k] = PlaceOne(l, placed[k - 1], acts[k])
    <3>1. 0 \in 0 .. n /\ \A k \in 1 .. n : k \in 0 .. n /\ k # 0
      OBVIOUS
    <3>2. placed = [k \in 0 .. n |-> IF k = 0 THEN l ELSE PlaceOne(l, placed[k - 1], acts[k])]
      BY <1>3 DEF Goes, ArePlaced
    <3> HIDE DEF acts
    <3> QED BY <3>1, <3>2
  <2>2. n \in 0 .. n
    OBVIOUS
  <2> QED BY <1>1, <2>1, <2>2, PlacedGoesOn
<1> DEFINE e == after[n]
           m == placed[n]
           x == Execute(l, actions, start)
<1>5. x = IF e.seek THEN [e.lexer EXCEPT !.index = l.index] ELSE e.lexer
  BY <1>1
<1>6. SameBut(e.lexer, m) /\ m.index = l.index /\ e.seek \in BOOLEAN
      /\ (~e.seek => e.lexer.index = l.index)
  BY <1>4 DEF InStep, Executing
<1> HIDE DEF e, m, x
<1>7. SameBut(x, m) /\ x.index = l.index
  BY <1>5, <1>6 DEF SameBut, IsRecord, FieldNames
<1>8. x = m
  BY <1>6, <1>7, SameAll
<1> QED BY <1>2, <1>8 DEF x, m

-----------------------------------------------------------------------------
(* Walks. *)

LEMMA AheadItself == \A h, w, i, x : Ahead(h, w, i, x, x)
BY DEF Ahead

LEMMA AheadNext ==
  ASSUME NEW h, NEW w, NEW i, NEW x, NEW y, Ahead(h, w, i, x, y), GoesOn(h, w, i, y)
  PROVE  Ahead(h, w, i, x, After(h, w, i, y))
BY DEF Ahead, IsWalk

(* What is ahead is here, or ahead of the next. *)
LEMMA AheadSplits ==
  ASSUME NEW h, NEW w, NEW i, NEW x, NEW y, Ahead(h, w, i, x, y), y # x
  PROVE  GoesOn(h, w, i, x) /\ Ahead(h, w, i, After(h, w, i, x), y)
<1>1. ASSUME ~GoesOn(h, w, i, x) PROVE FALSE
  <2>1. IsWalk(h, w, i, {x})
    BY <1>1 DEF IsWalk
  <2> QED BY <2>1 DEF Ahead
<1>2. ASSUME NEW family, After(h, w, i, x) \in family, IsWalk(h, w, i, family)
      PROVE  y \in family
  <2> DEFINE more == family \cup {x}
  <2>1. IsWalk(h, w, i, more)
    BY <1>2 DEF IsWalk
  <2>2. y \in more
    BY <2>1 DEF Ahead
  <2> QED BY <2>2
<1> QED BY <1>1, <1>2 DEF Ahead

(* Where the simulator is.  All sets that ended a rule are ahead, or not   *)
(* behind the place to come back to; and that is of a set that found its   *)
(* match.                                                                  *)
Here(l, s, over) == [configs |-> s.state, at |-> l.index, over |-> over]
MetHere(l, s, y) == Met(g, l.mode, input, s.startIndex, y)
AfterHere(s, y) == After(g, input, s.startIndex, y)
Walks(l, s, over) ==
  LET x == Here(l, s, over)
      a == s.prevAccept
  IN /\ MetHere(l, s, x)
     /\ s.phase = "exec" => ~over
     /\ s.phase = "ended" => over \/ AfterHere(s, x).configs = NoSet
     /\ over => Accepting(x.configs)
     /\ Accepting(x.configs) => a # NoAccept /\ a.index = x.at /\ a.state = x.configs
     /\ \A y : MetHere(l, s, y) /\ Accepting(y.configs) =>
          \/ Ahead(g, input, s.startIndex, x, y)
          \/ a # NoAccept /\ y.at \in Nat /\ y.at <= a.index
     /\ a # NoAccept => \E p :
          /\ MetHere(l, s, p) /\ p.configs = a.state /\ p.at = a.index
          /\ p = x \/ ~AfterHere(s, p).over

RInv ==
  /\ CInv /\ IsRecord(lexer)
  /\ sim.phase # "idle" => \E over \in BOOLEAN : Walks(lexer, sim, over)

(* The end of a match: the best there is, or none. *)
LEMMA EndedBest ==
  ASSUME SetsFindMatches, RInv, sim.phase = "ended"
  PROVE  LET i == sim.startIndex
             a == sim.prevAccept
             C == Candidates(g, lexer.mode, input, i)
         IN /\ a # NoAccept => \E c \in Best(C) :
                 /\ c.stop = a.index /\ c.rule = g.rule[FirstEnd(a.state).state]
                 /\ c.actions = Placed(FirstEnd(a.state).actions, i, c.stop)
            /\ a = NoAccept => C = {} /\ Reaches(g, lexer.mode, input, i) = lexer.index
<1> DEFINE i == sim.startIndex
           a == sim.prevAccept
           C == Candidates(g, lexer.mode, input, i)
<1>1. PICK over \in BOOLEAN : Walks(lexer, sim, over)
  BY DEF RInv
<1> DEFINE x == Here(lexer, sim, over)
<1>2. /\ g \in Grammars /\ input \in Inputs(g) /\ lexer.mode \in DOMAIN g.modeToStartState
      /\ Follows(lexer, sim) /\ IsText /\ Stands(lexer)
  BY InputIsText DEF RInv, CInv, IInv, Rests, Acts, Modes
<1>3. i \in 0 .. Len(input) /\ lexer.index \in Nat /\ Len(input) \in Nat
  <2>1. i \in Nat /\ i <= lexer.index
    BY <1>2 DEF Follows
  <2>2. lexer.index \in Nat /\ lexer.index <= Len(input)
    BY <1>2, PlaceOf
  <2>3. Len(input) \in Nat
    BY <1>2 DEF IsText
  <2> QED BY <2>1, <2>2, <2>3
<1>4. \A configs : Accepting(configs) <=> EndsOf(g, configs) # {}
  BY DEF Accepting, Ends, EndsOf
<1>5. \A configs : FirstEnd(configs) = configs[MinimumOf(EndsOf(g, configs))]
  BY DEF FirstEnd, Ends, EndsOf
<1>6. /\ \A c \in C : c.stop \in i .. Len(input)
      /\ \A d \in Eligible(C) :
           \E y : MetHere(lexer, sim, y) /\ y.at = d.stop /\ Accepting(y.configs)
      /\ \A y : MetHere(lexer, sim, y) /\ Accepting(y.configs) => Finds(g, lexer.mode, input, i, y)
      /\ C = {} => \A y : MetHere(lexer, sim, y) /\ ~y.over /\ AfterHere(sim, y).configs = NoSet
                     => Reaches(g, lexer.mode, input, i) = y.at
  <2> DEFINE m == lexer.mode
  <2>1. /\ \A c \in Candidates(g, m, input, i) : c.stop \in i .. Len(input)
        /\ \A d \in Eligible(Candidates(g, m, input, i)) :
             \E y : Met(g, m, input, i, y) /\ y.at = d.stop /\ EndsOf(g, y.configs) # {}
        /\ \A y : Met(g, m, input, i, y) /\ EndsOf(g, y.configs) # {}
             => Finds(g, m, input, i, y)
        /\ Candidates(g, m, input, i) = {} =>
             \A y : Met(g, m, input, i, y) /\ ~y.over /\ After(g, input, i, y).configs = NoSet
               => Reaches(g, m, input, i) = y.at
    <3> HIDE DEF i, m
    <3>1. m \in DOMAIN g.modeToStartState
      BY <1>2 DEF m
    <3> QED BY <1>2, <1>3, <3>1 DEF SetsFindMatches
  <2> QED BY <1>4, <2>1 DEF MetHere, AfterHere
<1>7. /\ MetHere(lexer, sim, x) /\ (over \/ AfterHere(sim, x).configs = NoSet)
      /\ (over => Accepting(x.configs))
      /\ Accepting(x.configs) => a # NoAccept /\ a.index = x.at /\ a.state = x.configs
      /\ \A y : MetHere(lexer, sim, y) /\ Accepting(y.configs) =>
           Ahead(g, input, i, x, y) \/ (a # NoAccept /\ y.at \in Nat /\ y.at <= a.index)
      /\ a # NoAccept => \E p : /\ MetHere(lexer, sim, p) /\ p.configs = a.state /\ p.at = a.index
                                /\ p = x \/ ~AfterHere(sim, p).over
  BY <1>1 DEF Walks
<1>8. x.over = over /\ x.at = lexer.index
  BY DEF Here
<1>9. ~GoesOn(g, input, i, x)
  BY <1>7, <1>8 DEF GoesOn, AfterHere
<1> HIDE DEF x
<1>10. ASSUME NEW y, MetHere(lexer, sim, y), Accepting(y.configs)
       PROVE  a # NoAccept /\ y.at \in Nat /\ y.at <= a.index
  <2>1. CASE Ahead(g, input, i, x, y)
    <3>1. y = x
      BY <1>9, <2>1, AheadSplits
    <3> QED BY <1>3, <1>7, <1>8, <1>10, <3>1
  <2> QED BY <1>7, <1>10, <2>1
<1>11. ASSUME a # NoAccept
       PROVE  \E c \in Best(C) :
                /\ c.stop = a.index /\ c.rule = g.rule[FirstEnd(a.state).state]
                /\ c.actions = Placed(FirstEnd(a.state).actions, i, c.stop)
  <2>1. PICK p : /\ MetHere(lexer, sim, p) /\ p.configs = a.state /\ p.at = a.index
                 /\ p = x \/ ~AfterHere(sim, p).over
    BY <1>7, <1>11
  <2>2. Accepting(p.configs)
    BY <1>2, <1>11, <2>1 DEF Follows, ComesBack
  <2>3. p.over \/ ~AfterHere(sim, p).over
    <3>1. CASE p = x
      <4>1. CASE over
        BY <1>8, <3>1, <4>1
      <4>2. CASE ~over
        <5>1. AfterHere(sim, x).configs = NoSet
          BY <1>7, <4>2
        <5>2. EndsOf(g, NoSet) = {}
          BY DEF EndsOf, NoSet
        <5>3. AfterHere(sim, x).over => EndsOf(g, AfterHere(sim, x).configs) # {}
          BY DEF AfterHere, After
        <5> QED BY <3>1, <5>1, <5>2, <5>3
      <4> QED BY <4>1, <4>2
    <3> QED BY <2>1, <3>1
  <2>4. Finds(g, lexer.mode, input, i, p)
    BY <1>6, <2>1, <2>2
  <2>5. PICK c \in Eligible(C) :
          /\ c.stop = p.at /\ c.rule = g.rule[FirstEnd(p.configs).state]
          /\ c.actions = Placed(FirstEnd(p.configs).actions, i, p.at)
          /\ \A d \in Eligible(C) : d.stop = p.at => c.rule <= d.rule
    BY <1>5, <2>3, <2>4 DEF Finds, AfterHere
  <2>6. ASSUME NEW d \in Eligible(C)
        PROVE  d.stop < c.stop \/ (d.stop = c.stop /\ c.rule <= d.rule)
    <3>1. PICK y : MetHere(lexer, sim, y) /\ y.at = d.stop /\ Accepting(y.configs)
      BY <1>6
    <3>2. d.stop \in Nat /\ d.stop <= a.index
      BY <1>10, <3>1
    <3>3. c.stop \in Nat
      <4>1. c \in C
        BY DEF Eligible
      <4> QED BY <1>3, <1>6, <4>1
    <3> QED BY <2>1, <2>5, <3>2, <3>3
  <2>7. c \in Best(C)
    BY <2>5, <2>6 DEF Best
  <2> QED BY <2>1, <2>5, <2>7
<1>12. ASSUME a = NoAccept
       PROVE  C = {} /\ Reaches(g, lexer.mode, input, i) = lexer.index
  <2>1. Eligible(C) = {}
    BY <1>6, <1>10, <1>12
  <2>2. C = {}
    <3> SUFFICES ASSUME C # {} PROVE FALSE
      OBVIOUS
    <3> DEFINE S == {c.stop : c \in C}
    <3>1. S \in SUBSET Nat /\ S # {}
      BY <1>3, <1>6
    <3>2. PICK s \in S : \A t \in S : s <= t
      BY <3>1, LeastElement
    <3>3. PICK c \in C : c.stop = s
      BY <3>2
    <3>4. c \in Eligible(C)
      BY <3>2, <3>3 DEF Eligible
    <3> QED BY <2>1, <3>4
  <2>3. ~over /\ AfterHere(sim, x).configs = NoSet
    BY <1>7, <1>12
  <2> QED BY <1>6, <1>7, <1>8, <2>2, <2>3
<1> QED BY <1>11, <1>12

(* The next set is the one the simulator computes. *)
LEMMA ReachIsAfter ==
  ASSUME IInv, sim.phase # "idle"
  PROVE  LET x == Here(lexer, sim, FALSE) IN
         AfterHere(sim, x) =
           [configs |-> ReachHere.configs,
            at      |-> IF LA(lexer) = EOF THEN lexer.index ELSE lexer.index + 1,
            over    |-> LA(lexer) = EOF /\ Accepting(ReachHere.configs)]
<1> DEFINE x == Here(lexer, sim, FALSE)
<1>1. x.configs = sim.state /\ x.at = lexer.index
  BY DEF Here
<1>2. SymbolAt(input, lexer.index) = LA(lexer)
  BY DEF SymbolAt, LA
<1>3. FieldNames \subseteq DOMAIN lexer /\ lexer.column = ColumnAt(lexer.index)
  BY DEF IInv, Rests, Acts, Stands
<1>4. ColumnAt(lexer.index) = ColumnOf(input, lexer.index)
  BY DEF ColumnAt, ColumnOf, NewlinesBefore, NewlinesIn
<1>5. ConsumeChar(lexer).column
        = IF LA(lexer) = NEWLINE THEN 0 ELSE ColumnOf(input, lexer.index) + 1
  BY <1>3, <1>4 DEF ConsumeChar, FieldNames
<1>6. \A configs : Accepting(configs) <=> EndsOf(g, configs) # {}
  BY DEF Accepting, Ends, EndsOf
<1> HIDE DEF x
<1> QED BY <1>1, <1>2, <1>5, <1>6 DEF x, AfterHere, After, ReachHere

LEMMA BeginWalks ==
  ASSUME IInv, lexer.calling = "match",
         Begin(StartState(g, lexer.mode, lexer.column).configs), lexer' = lexer
  PROVE  Walks(lexer', sim', FALSE)
<1> DEFINE x == Here(lexer', sim', FALSE)
           configs == StartState(g, lexer.mode, lexer.column).configs
<1>1. lexer.column = ColumnOf(input, lexer.index) /\ lexer.index \in Nat
  <2>1. IsText /\ Stands(lexer)
    BY InputIsText DEF IInv, Rests
  <2> QED BY <2>1, PlaceOf DEF Stands, ColumnAt, ColumnOf, NewlinesBefore, NewlinesIn
<1>2. /\ sim'.phase = "exec" /\ sim'.startIndex = lexer.index /\ sim'.state = configs
      /\ sim'.prevAccept = Captured(lexer, configs, NoAccept)
  BY DEF Begin
<1>3. x = Beginning(g, lexer.mode, input, lexer.index)
  BY <1>1, <1>2 DEF Here, Beginning
<1>4. \A y : MetHere(lexer', sim', y) => Ahead(g, input, sim'.startIndex, x, y)
  BY <1>2, <1>3 DEF MetHere, Met
<1>5. MetHere(lexer', sim', x)
  BY <1>2, <1>3, AheadItself DEF MetHere, Met
<1>6. x.configs = configs /\ x.at = lexer.index
  BY <1>2 DEF Here
<1> HIDE DEF configs, x
<1>7. CASE Accepting(configs)
  <2>1. /\ sim'.prevAccept # NoAccept /\ sim'.prevAccept.index = x.at
        /\ sim'.prevAccept.state = x.configs
    BY <1>1, <1>2, <1>6, <1>7 DEF Captured, NoAccept
  <2> QED BY <1>2, <1>4, <1>5, <1>6, <2>1 DEF Walks, x
<1>8. CASE ~Accepting(configs)
  <2>1. sim'.prevAccept = NoAccept
    BY <1>2, <1>8 DEF Captured
  <2> QED BY <1>2, <1>4, <1>5, <1>6, <1>8, <2>1 DEF Walks, x
<1> QED BY <1>7, <1>8

LEMMA TurnWalks ==
  ASSUME IInv, sim.phase = "exec", Walks(lexer, sim, FALSE), Turn(ReachHere.configs)
  PROVE  \E over \in BOOLEAN : Walks(lexer', sim', over)
<1> DEFINE target == ReachHere.configs
           i == sim.startIndex
           x == Here(lexer, sim, FALSE)
           next == AfterHere(sim, x)
           a == sim.prevAccept
           b == sim'.prevAccept
<1>1. /\ IsText /\ Stands(lexer) /\ FieldNames \subseteq DOMAIN lexer
      /\ {"phase", "startIndex", "state", "prevAccept"} \subseteq DOMAIN sim
      /\ a # NoAccept => ComesBack(a, i, lexer)
  BY InputIsText DEF IInv, Rests, Acts, Follows
<1>2. /\ next.configs = target
      /\ next.at = IF LA(lexer) = EOF THEN lexer.index ELSE lexer.index + 1
      /\ next.over = (LA(lexer) = EOF /\ Accepting(target))
      /\ next = [configs |-> target, at |-> next.at, over |-> next.over]
  <2> DEFINE at   == IF LA(lexer) = EOF THEN lexer.index ELSE lexer.index + 1
             over == LA(lexer) = EOF /\ Accepting(target)
  <2>1. next = [configs |-> target, at |-> at, over |-> over]
    BY ReachIsAfter
  <2> HIDE DEF next, target, at, over
  <2>2. next.configs = target /\ next.at = at /\ next.over = over
    BY <2>1
  <2>3. next = [configs |-> target, at |-> next.at, over |-> next.over]
    BY <2>1, <2>2
  <2> QED BY <2>2, <2>3 DEF at, over
<1>3. x.configs = sim.state /\ x.at = lexer.index /\ x.over = FALSE
  BY DEF Here
<1>4. lexer.index \in Nat
  BY <1>1, PlaceOf
<1>5. /\ MetHere(lexer, sim, x)
      /\ Accepting(x.configs) => a # NoAccept /\ a.index = x.at /\ a.state = x.configs
      /\ \A y : MetHere(lexer, sim, y) /\ Accepting(y.configs) =>
           Ahead(g, input, i, x, y) \/ (a # NoAccept /\ y.at \in Nat /\ y.at <= a.index)
      /\ a # NoAccept => \E p : /\ MetHere(lexer, sim, p) /\ p.configs = a.state /\ p.at = a.index
                                /\ p = x \/ ~AfterHere(sim, p).over
  BY DEF Walks
<1> HIDE DEF x, next, target
<1>6. CASE target = NoSet
  <2>1. lexer' = lexer /\ sim' = [sim EXCEPT !.phase = "ended"]
    BY <1>6 DEF Turn, target
  <2>2. /\ sim'.phase = "ended" /\ sim'.startIndex = i /\ sim'.state = sim.state
        /\ b = a
    BY <1>1, <2>1
  <2>3. Here(lexer', sim', FALSE) = x
    BY <2>1, <2>2 DEF Here, x
  <2>4. AfterHere(sim, x).configs = NoSet
    BY <1>2, <1>6 DEF next
  <2>5. \A y : /\ MetHere(lexer', sim', y) <=> MetHere(lexer, sim, y)
               /\ AfterHere(sim', y) = AfterHere(sim, y)
    BY <2>1, <2>2 DEF MetHere, AfterHere
  <2>6. Walks(lexer', sim', FALSE)
    BY <1>5, <2>2, <2>3, <2>4, <2>5 DEF Walks
  <2> QED BY <2>6
<1>7. CASE target # NoSet
  <2> DEFINE over == LA(lexer) = EOF /\ Accepting(target)
  <2>1. /\ lexer' = IF LA(lexer) = EOF THEN lexer ELSE ConsumeChar(lexer)
        /\ sim' = [sim EXCEPT !.phase = IF over THEN "ended" ELSE "exec", !.state = target,
                              !.prevAccept = Captured(lexer', target, @)]
    BY <1>7 DEF Turn, target
  <2>2. /\ sim'.phase = IF over THEN "ended" ELSE "exec"
        /\ sim'.startIndex = i /\ sim'.state = target /\ b = Captured(lexer', target, a)
    BY <1>1, <2>1
  <2>3. lexer'.mode = lexer.mode /\ lexer'.index = next.at
    <3>1. LA(lexer) # EOF => lexer.index < Len(input)
      BY DEF LA
    <3> QED BY <1>1, <1>2, <2>1, <3>1, ConsumeStands DEF FieldNames
  <2>4. Here(lexer', sim', over) = next
    BY <1>2, <2>2, <2>3 DEF Here
  <2>5. \A y : /\ MetHere(lexer', sim', y) <=> MetHere(lexer, sim, y)
               /\ AfterHere(sim', y) = AfterHere(sim, y)
    BY <2>2, <2>3 DEF MetHere, AfterHere
  <2>6. next.at \in Nat /\ lexer.index <= next.at
    BY <1>2, <1>4
  <2>7. a # NoAccept => a.index \in Nat /\ a.index <= lexer.index
    BY <1>1 DEF ComesBack
  <2>8. MetHere(lexer, sim, next)
    <3>1. GoesOn(g, input, i, x)
      BY <1>2, <1>3, <1>7 DEF GoesOn, AfterHere, next
    <3> QED BY <1>5, <3>1, AheadNext DEF MetHere, Met, AfterHere, next
  <2> DEFINE Past(y, c) == c # NoAccept /\ y.at \in Nat /\ y.at <= c.index
  <2>9. ASSUME NEW y, MetHere(lexer, sim, y), Accepting(y.configs)
        PROVE  Ahead(g, input, i, next, y) \/ Past(y, a)
    <3>1. CASE Ahead(g, input, i, x, y)
      <4>1. CASE y = x
        BY <1>3, <1>4, <1>5, <2>9, <4>1
      <4>2. CASE y # x
        BY <3>1, <4>2, AheadSplits DEF AfterHere, next
      <4> QED BY <4>1, <4>2
    <3> QED BY <1>5, <2>9, <3>1
  <2>10. CASE Accepting(target)
    <3>1. b # NoAccept /\ b.index = next.at /\ b.state = target
      <4>1. b = [index |-> lexer'.index, line |-> lexer'.line, column |-> lexer'.column,
                 state |-> target]
        BY <2>2, <2>10 DEF Captured
      <4>2. b.index = next.at /\ b.state = target
        BY <2>3, <4>1
      <4>3. b.index # -1
        BY <2>6, <4>2
      <4> QED BY <4>2, <4>3 DEF NoAccept
    <3>2. \A y : Past(y, a) => Past(y, b)
      BY <2>6, <2>7, <3>1, <1>4
    <3> HIDE DEF Past
    <3>3. \A y : MetHere(lexer, sim, y) /\ Accepting(y.configs) =>
            Ahead(g, input, i, next, y) \/ Past(y, b)
      BY <2>9, <3>2
    <3>4. Walks(lexer', sim', over)
      BY <1>2, <2>2, <2>4, <2>5, <2>8, <2>10, <3>1, <3>3 DEF Walks, Past
    <3> QED BY <3>4
  <2>11. CASE ~Accepting(target)
    <3>1. b = a
      BY <2>2, <2>11 DEF Captured
    <3>2. a # NoAccept => \E p :
            /\ MetHere(lexer, sim, p) /\ p.configs = a.state /\ p.at = a.index
            /\ ~AfterHere(sim, p).over
      BY <1>2, <1>5, <2>11 DEF next
    <3>3. Walks(lexer', sim', over)
      BY <1>2, <2>2, <2>4, <2>5, <2>8, <2>9, <2>11, <3>1, <3>2 DEF Walks
    <3> QED BY <3>3
  <2> QED BY <2>10, <2>11
<1> QED BY <1>6, <1>7

(* Every step leaves a record. *)
LEMMA StepLeavesRecord ==
  ASSUME IsRecord(lexer), [SimulatorNext]_vars
  PROVE  IsRecord(lexer')
<1>1. ASSUME NEW l, NEW t PROVE IsRecord(AfterMatch(l, t))
  <2> DEFINE type  == IF l.type = INVALID_TYPE THEN t ELSE l.type
             after == [l EXCEPT !.hitEOF = @ \/ LA(l) = EOF, !.type = type]
             skipped == Emit(after, SKIP)
             emitted == Emit(after, type)
  <2>1. AfterMatch(l, t) = CASE type = SKIP -> [skipped EXCEPT !.calling = "again"]
                             [] type = MORE -> [after EXCEPT !.type = INVALID_TYPE]
                             [] OTHER -> [emitted EXCEPT !.calling = "no"]
    BY DEF AfterMatch
  <2> HIDE DEF type, after, skipped, emitted
  <2>2. \/ AfterMatch(l, t) = [skipped EXCEPT !.calling = "again"]
        \/ AfterMatch(l, t) = [after EXCEPT !.type = INVALID_TYPE]
        \/ AfterMatch(l, t) = [emitted EXCEPT !.calling = "no"]
    BY <2>1
  <2> DEFINE m == AfterMatch(l, t)
  <2> HIDE DEF m
  <2>3. m = [f \in DOMAIN m |-> m[f]]
    BY <2>2 DEF m
  <2> QED BY <2>3 DEF m, IsRecord
<1>2. \A l : IsRecord(AfterThrow(l)) /\ IsRecord(AfterError(l)) /\ IsRecord(Clear(l))
  BY DEF AfterThrow, AfterError, Clear, IsRecord
<1>3. \A l : IsRecord(EmitEOF(l)) /\ IsRecord(BeginToken(l)) /\ IsRecord(ConsumeChar(l))
  BY DEF EmitEOF, BeginToken, ConsumeChar, IsRecord
<1>4. CASE CallNextToken
  BY <1>3, <1>4 DEF CallNextToken, NextToken
<1>5. CASE MatchFromDFA \/ MatchATN \/ UNCHANGED vars
  <2>1. lexer' = lexer
    BY <1>5 DEF MatchFromDFA, MatchATN, lexerVars, vars
  <2> QED BY <2>1
<1>6. CASE FollowEdge \/ ComputeTarget
  <2>1. lexer' = lexer \/ lexer' = ConsumeChar(lexer)
    BY <1>6 DEF FollowEdge, ComputeTarget, Turn
  <2> QED BY <1>3, <2>1
<1>7. CASE AcceptToken
  <2>1. \E l, t : lexer' = AfterThrow(l) \/ lexer' = AfterMatch(l, t)
    BY <1>7 DEF AcceptToken
  <2> QED BY <1>1, <1>2, <2>1
<1>8. CASE AcceptEOF \/ NoViableAlt
  BY <1>1, <1>2, <1>8 DEF AcceptEOF, NoViableAlt
<1>9. CASE ResetLexer \/ ReadAnotherInput
  BY <1>2, <1>9 DEF ResetLexer, Reset, ReadAnotherInput, SetInputStream, StartAgain
<1> QED BY <1>4, <1>5, <1>6, <1>7, <1>8, <1>9 DEF SimulatorNext

LEMMA WalksStays ==
  ASSUME g' = g, input' = input
  PROVE  \A over : Walks(lexer, sim, over)' <=> Walks(lexer', sim', over)
<1>1. \A l, s, y : MetHere(l, s, y)' <=> MetHere(l', s', y')
  BY DEF MetHere
<1> QED BY DEF Walks, Here, MetHere, AfterHere, Accepting, Ends

LEMMA InitRInv == SimulatorInit => RInv
<1> SUFFICES ASSUME SimulatorInit PROVE RInv
  OBVIOUS
<1>1. lexer = Fresh /\ sim = Idle
  BY DEF SimulatorInit, Init
<1>2. CInv
  BY InitIInv DEF CInv, SimulatorInit, Anywhere, EmptyDFA, Modes, InPlace, Idle
<1>3. IsRecord(lexer)
  BY <1>1 DEF Fresh, IsRecord
<1> QED BY <1>1, <1>2, <1>3 DEF RInv, Idle

LEMMA RInvStays ==
  ASSUME SetsAreOfTheATN, UnmarkedSetsStay
  PROVE  RInv /\ [SimulatorNext]_vars => RInv'
<1> SUFFICES ASSUME RInv, [SimulatorNext]_vars PROVE RInv'
  OBVIOUS
<1> DEFINE Goal == sim'.phase # "idle" => \E over \in BOOLEAN : Walks(lexer', sim', over)
<1>1. CInv' /\ IsRecord(lexer)'
  BY CInvStays, StepLeavesRecord DEF RInv
<1>2. /\ CInv /\ IInv /\ Anywhere(dfa) /\ lexer.mode \in Modes /\ lexer.column \in Nat
      /\ sim.phase # "idle" => \E over \in BOOLEAN : Walks(lexer, sim, over)
      /\ (lexer.calling # "match" => sim.phase = "idle")
  BY ColumnsHere DEF RInv, CInv, IInv, Rests, Acts, Follows
<1>3. ASSUME g' = g, input' = input, Goal PROVE RInv'
  BY <1>1, <1>3, WalksStays DEF RInv
<1>4. ASSUME lexer.calling = "match", Begin(StartState(g, lexer.mode, lexer.column).configs),
             lexer' = lexer
      PROVE  Goal
  BY <1>2, <1>4, BeginWalks
<1>5. ASSUME sim.phase = "exec", Turn(ReachHere.configs) PROVE Goal
  <2>1. Walks(lexer, sim, FALSE)
    BY <1>2, <1>5 DEF Walks
  <2> QED BY <1>2, <1>5, <2>1, TurnWalks
<1> HIDE DEF Goal
<1>6. CASE MatchFromDFA
  <2>1. /\ Begin(dfa[lexer.mode].s0) /\ lexer' = lexer /\ dfa[lexer.mode].s0 # NoSet
        /\ lexer.calling = "match" /\ g' = g /\ input' = input
    BY <1>6 DEF MatchFromDFA, lexerVars
  <2>2. dfa[lexer.mode].s0 = StartState(g, lexer.mode, lexer.column).configs
    BY <1>2, <2>1 DEF Anywhere
  <2> QED BY <1>3, <1>4, <2>1, <2>2
<1>7. CASE MatchATN
  <2>1. /\ Begin(StartState(g, lexer.mode, lexer.column).configs) /\ lexer' = lexer
        /\ lexer.calling = "match" /\ g' = g /\ input' = input
    BY <1>7 DEF MatchATN, lexerVars, StartHere
  <2> QED BY <1>3, <1>4, <2>1
<1>8. CASE FollowEdge
  <2>1. PICK e \in Known : Turn(e.to)
    BY <1>8 DEF FollowEdge
  <2>2. sim.phase = "exec" /\ sim.phase # "idle"
    BY <1>8 DEF FollowEdge
  <2>3. ReachHere.configs = e.to
    BY <1>2, <2>1, <2>2, ColumnsHere DEF CInv, InPlace, Anywhere, Known, ReachHere
  <2>4. g' = g /\ input' = input
    BY <2>1 DEF Turn
  <2> QED BY <1>3, <1>5, <2>1, <2>2, <2>3, <2>4
<1>9. CASE ComputeTarget
  BY <1>3, <1>5, <1>9 DEF ComputeTarget, Turn
<1>10. CASE AcceptToken \/ AcceptEOF \/ NoViableAlt
  <2>1. sim' = Idle /\ g' = g /\ input' = input
    BY <1>10 DEF AcceptToken, AcceptEOF, NoViableAlt
  <2> QED BY <1>3, <2>1 DEF Idle, Goal
<1>11. CASE ResetLexer \/ ReadAnotherInput
  <2>1. sim' = Idle
    BY <1>11 DEF ResetLexer, ReadAnotherInput
  <2> QED BY <1>1, <2>1 DEF RInv, Idle
<1>12. CASE CallNextToken
  <2>1. sim' = sim /\ sim.phase = "idle" /\ g' = g /\ input' = input
    BY <1>2, <1>12 DEF CallNextToken, NextToken
  <2> QED BY <1>3, <2>1 DEF Goal
<1>13. CASE UNCHANGED vars
  <2>1. sim' = sim /\ lexer' = lexer /\ g' = g /\ input' = input
    BY <1>13 DEF vars
  <2> QED BY <1>2, <1>3, <2>1 DEF Goal
<1> QED BY <1>6, <1>7, <1>8, <1>9, <1>10, <1>11, <1>12, <1>13 DEF SimulatorNext

-----------------------------------------------------------------------------
(* The steps of the specification. *)

LEMMA AtItself ==
  ASSUME NEW l, IsRecord(l), FieldNames \subseteq DOMAIN l, Stands(l)
  PROVE  At(l, l.index) = l
BY DEF At, IsRecord, FieldNames, Stands

LEMMA AtAgain ==
  ASSUME NEW l, FieldNames \subseteq DOMAIN l, NEW i, NEW j
  PROVE  At(At(l, i), j) = At(l, j)
BY DEF At, FieldNames

LEMMA AtFields ==
  ASSUME NEW l, FieldNames \subseteq DOMAIN l, NEW i
  PROVE  /\ At(l, i).index = i /\ At(l, i).mode = l.mode /\ At(l, i).calling = l.calling
         /\ FieldNames \subseteq DOMAIN At(l, i)
BY DEF At, FieldNames

LEMMA AtConsumed ==
  ASSUME NEW l, FieldNames \subseteq DOMAIN l, NEW i
  PROVE  At(ConsumeChar(l), i) = At(l, i)
<1> DEFINE m == ConsumeChar(l)
<1>1. DOMAIN m = DOMAIN l /\ \A f \in DOMAIN l \ {"index", "line", "column"} : m[f] = l[f]
  BY DEF ConsumeChar, FieldNames
<1> HIDE DEF m
<1>2. At(m, i) = At(l, i)
  BY <1>1 DEF At, FieldNames
<1> QED BY <1>2 DEF m

LEMMA BackIsAt ==
  ASSUME NEW l, FieldNames \subseteq DOMAIN l, NEW a, Stands(a), NEW i
  PROVE  BackTo(l, a) = At(At(l, i), a.index)
<1>1. BackTo(l, a) = At(l, a.index)
  BY DEF BackTo, At, Stands
<1> QED BY <1>1, AtAgain

(* What the refinement makes of the next state. *)
LEMMA SettledNext ==
  ASSUME g' = g, input' = input
  PROVE  Settled' = IF sim'.phase = "idle" THEN lexer' ELSE At(lexer', sim'.startIndex)
BY DEF Settled, At, LineAt, ColumnAt, NewlinesBefore

(* The same operators. *)
LEMMA PromisedOperators ==
  /\ \A l : Promised!LA(l) = LA(l)
  /\ \A l, i : Promised!At(l, i) = At(l, i)
  /\ \A l, t : Promised!AfterMatch(l, t) = AfterMatch(l, t)
  /\ \A l : Promised!AfterError(l) = AfterError(l) /\ Promised!AfterThrow(l) = AfterThrow(l)
  /\ \A l : Promised!BeginToken(l) = BeginToken(l) /\ Promised!EmitEOF(l) = EmitEOF(l)
  /\ \A l : Promised!Clear(l) = Clear(l)
  /\ \A C : Promised!Best(C) = Best(C)
  /\ \A l, actions : Promised!PerformInPlace(l, actions) = PerformInPlace(l, actions)
<1>1. \A l : Promised!LA(l) = LA(l)
  BY DEF Promised!LA, LA, Promised!EOF, EOF
<1>2. \A l, i : Promised!At(l, i) = At(l, i)
  BY DEF Promised!At, At, Promised!LineAt, LineAt, Promised!ColumnAt, ColumnAt,
         Promised!NewlinesBefore, NewlinesBefore, Promised!NEWLINE, NEWLINE,
         Promised!Cardinality, Cardinality
<1>3. \A l, t : Promised!AfterMatch(l, t) = AfterMatch(l, t)
  BY DEF Promised!AfterMatch, AfterMatch, Promised!Emit, Emit, Promised!LA, LA, Promised!EOF, EOF,
         Promised!SKIP, SKIP, Promised!MORE, MORE, Promised!INVALID_TYPE, INVALID_TYPE
<1>4. \A l : Promised!AfterError(l) = AfterError(l)
  BY DEF Promised!AfterError, AfterError, Promised!Recover, Recover, Promised!ConsumeChar,
         ConsumeChar, Promised!LA, LA, Promised!EOF, EOF, Promised!NEWLINE, NEWLINE,
         Promised!Emit, Emit, Promised!ERROR_TEXT, ERROR_TEXT, Promised!SKIP, SKIP
<1>5. \A l : Promised!AfterThrow(l) = AfterThrow(l)
  BY DEF Promised!AfterThrow, AfterThrow, Promised!Emit, Emit, Promised!LOST_TEXT, LOST_TEXT
<1>6. \A l : Promised!BeginToken(l) = BeginToken(l) /\ Promised!EmitEOF(l) = EmitEOF(l)
  BY DEF Promised!BeginToken, BeginToken, Promised!EmitEOF, EmitEOF, Promised!INVALID_TYPE,
         INVALID_TYPE, Promised!DEFAULT_CHANNEL, DEFAULT_CHANNEL, Promised!EOF, EOF
<1>7. \A l : Promised!Clear(l) = Clear(l)
  BY DEF Promised!Clear, Clear, Promised!INVALID_TYPE, INVALID_TYPE, Promised!DEFAULT_CHANNEL,
         DEFAULT_CHANNEL, Promised!DEFAULT_MODE, DEFAULT_MODE
<1>8. \A C : Promised!Best(C) = Best(C)
  BY DEF Promised!Best, Best, Promised!Eligible, Eligible
<1>9. \A l, actions : Promised!PerformInPlace(l, actions) = PerformInPlace(l, actions)
  BY DEF Promised!PerformInPlace, PerformInPlace, Promised!NoOffset, NoOffset,
         Promised!Perform, Perform, Promised!SKIP, SKIP, Promised!MORE, MORE
<1> QED BY <1>1, <1>2, <1>3, <1>4, <1>5, <1>6, <1>7, <1>8, <1>9

(* Between two matches the lexer of the specification is the lexer. *)
LEMMA SettledIdle == sim.phase = "idle" => Settled = lexer
BY DEF Settled

(* In the middle of a match it is the one that began it. *)
LEMMA SettledBusy ==
  ASSUME IInv, sim.phase # "idle"
  PROVE  /\ Settled = At(lexer, sim.startIndex) /\ FieldNames \subseteq DOMAIN lexer
         /\ Settled.index = sim.startIndex /\ Settled.mode = lexer.mode
         /\ Settled.calling = "match" /\ lexer.calling = "match"
         /\ Promised!MatchesHere = Candidates(g, lexer.mode, input, sim.startIndex)
<1>1. FieldNames \subseteq DOMAIN lexer /\ lexer.calling = "match"
  BY DEF IInv, Rests, Acts, Follows
<1>2. Settled = At(lexer, sim.startIndex)
  BY DEF Settled
<1>3. Settled.index = sim.startIndex /\ Settled.mode = lexer.mode /\ Settled.calling = "match"
  BY <1>1, <1>2, AtFields
<1> QED BY <1>1, <1>2, <1>3 DEF Promised!MatchesHere

(* A match begins, or goes on. *)
LEMMA BeginStutters ==
  ASSUME RInv, MatchFromDFA \/ MatchATN
  PROVE  UNCHANGED Promised!lexerVars
<1>1. /\ lexer' = lexer /\ sim.phase = "idle" /\ g' = g /\ input' = input
      /\ earlier' = earlier /\ sim'.phase = "exec" /\ sim'.startIndex = lexer.index
  BY DEF MatchFromDFA, MatchATN, lexerVars, Begin
<1>2. IsRecord(lexer) /\ FieldNames \subseteq DOMAIN lexer /\ Stands(lexer)
  BY DEF RInv, CInv, IInv, Rests, Acts
<1>3. Settled' = Settled
  BY <1>1, <1>2, AtItself, SettledIdle, SettledNext
<1> QED BY <1>1, <1>3 DEF Promised!lexerVars

LEMMA TurnStutters ==
  ASSUME RInv, sim.phase = "exec", NEW target, Turn(target)
  PROVE  UNCHANGED Promised!lexerVars
<1>1. /\ IInv /\ FieldNames \subseteq DOMAIN lexer
      /\ {"phase", "startIndex", "state", "prevAccept"} \subseteq DOMAIN sim
  BY DEF RInv, CInv, IInv, Rests, Acts, Follows
<1>2. /\ g' = g /\ input' = input /\ earlier' = earlier
      /\ lexer' = lexer \/ lexer' = ConsumeChar(lexer)
      /\ sim'.phase \in {"exec", "ended"} /\ sim'.startIndex = sim.startIndex
  BY <1>1 DEF Turn
<1>3. Settled' = Settled
  BY <1>1, <1>2, AtConsumed, SettledBusy, SettledNext
<1> QED BY <1>2, <1>3 DEF Promised!lexerVars

(* failOrAccept: the best match, with its actions in their places. *)
LEMMA AcceptTokenMatches ==
  ASSUME SetsAreOfTheATN, SetsFindMatches, RInv, AcceptToken
  PROVE  Promised!MatchToken
<1> DEFINE a   == sim.prevAccept
           i   == sim.startIndex
           C   == Candidates(g, lexer.mode, input, i)
           end == FirstEnd(a.state)
           b   == BackTo(lexer, a)
           l   == Execute(b, end.actions, i)
           ttype == g.ruleToTokenType[g.rule[end.state]]
<1>1. /\ sim.phase = "ended" /\ a # NoAccept /\ sim' = Idle
      /\ g' = g /\ input' = input /\ earlier' = earlier
      /\ lexer' = IF l.thrown THEN AfterThrow(l) ELSE AfterMatch(l, ttype)
  BY DEF AcceptToken
<1>2. /\ IInv /\ g \in Grammars /\ Acts(lexer) /\ FieldNames \subseteq DOMAIN lexer
      /\ IsRecord(lexer) /\ ComesBack(a, i, lexer) /\ i \in Nat
  BY <1>1 DEF RInv, CInv, IInv, Rests, Acts, Follows
<1>3. PICK c \in Best(C) :
        c.stop = a.index /\ c.rule = g.rule[end.state] /\ c.actions = Placed(end.actions, i, c.stop)
  BY <1>1, EndedBest
<1>4. /\ Settled = At(lexer, i) /\ Settled.calling = "match" /\ Promised!MatchesHere = C
  BY <1>1, <1>2, SettledBusy
<1>5. IsConfiguration(g, end)
  BY <1>2, FirstEndIsEnd DEF ComesBack, SetsAreOfTheATN
<1>6. b = At(Settled, c.stop)
  BY <1>2, <1>3, <1>4, BackIsAt DEF ComesBack
<1>7. /\ IsRecord(b) /\ b.index = a.index /\ FieldNames \subseteq DOMAIN b
      /\ \A f \in FieldNames \ {"index", "line", "column"} : b[f] = lexer[f]
  BY <1>2 DEF BackTo, FieldNames, IsRecord
<1>8. Settled' = lexer'
  BY <1>1, SettledNext DEF Idle
<1> HIDE DEF end, a, b, C
<1>9. Acts(b) /\ b.index \in Nat
  <2>1. /\ b.mode = lexer.mode /\ b.modeStack = lexer.modeStack /\ b.type = lexer.type
        /\ b.channel = lexer.channel /\ b.thrown = lexer.thrown
    BY <1>7 DEF FieldNames
  <2> QED BY <1>2, <1>7, <2>1 DEF Acts, ComesBack
<1>10. /\ Len(end.actions) \in Nat /\ DOMAIN end.actions = 1 .. Len(end.actions)
       /\ \A k \in 1 .. Len(end.actions) : IsAction(g, end.actions[k])
  BY <1>5 DEF IsConfiguration
<1>11. l = PerformInPlace(At(Settled, c.stop), c.actions)
  <2>1. Execute(b, end.actions, i) = PerformInPlace(b, Placed(end.actions, i, b.index))
    BY <1>2, <1>7, <1>9, <1>10, ExecuteInPlace
  <2> QED BY <1>3, <1>6, <1>7, <2>1
<1> HIDE DEF l, i
<1>12. lexer' = IF l.thrown THEN AfterThrow(l) ELSE AfterMatch(l, g.ruleToTokenType[c.rule])
  BY <1>1, <1>3
<1>13. l = Promised!PerformInPlace(Promised!At(Settled, c.stop), c.actions)
  BY <1>11, PromisedOperators
<1>14. /\ c \in Promised!Best(Promised!MatchesHere)
       /\ Settled' = IF l.thrown THEN Promised!AfterThrow(l)
                     ELSE Promised!AfterMatch(l, g.ruleToTokenType[c.rule])
  BY <1>4, <1>8, <1>12, PromisedOperators
<1> QED BY <1>1, <1>4, <1>13, <1>14 DEF Promised!MatchToken

(* There is no match. *)
LEMMA AcceptEOFMatches ==
  ASSUME SetsFindMatches, RInv, AcceptEOF
  PROVE  Promised!MatchEOF
<1>1. /\ sim.phase = "ended" /\ sim.prevAccept = NoAccept /\ sim' = Idle
      /\ g' = g /\ input' = input /\ earlier' = earlier
      /\ LA(lexer) = EOF /\ lexer.index = sim.startIndex /\ lexer' = AfterMatch(lexer, EOF)
  BY DEF AcceptEOF
<1>2. IInv /\ IsRecord(lexer) /\ FieldNames \subseteq DOMAIN lexer /\ Stands(lexer)
  BY DEF RInv, CInv, IInv, Rests, Acts
<1>3. Settled = lexer /\ Settled.calling = "match"
      /\ Promised!MatchesHere = Candidates(g, lexer.mode, input, sim.startIndex)
  BY <1>1, <1>2, SettledBusy, AtItself
<1>4. Promised!MatchesHere = {}
  BY <1>1, <1>3, EndedBest
<1>5. Settled' = lexer'
  BY <1>1, SettledNext DEF Idle
<1>6. Promised!LA(Settled) = EOF /\ Promised!AfterMatch(Settled, EOF) = AfterMatch(lexer, EOF)
  BY <1>1, <1>3, PromisedOperators
<1>7. Promised!EOF = EOF
  BY DEF Promised!EOF, EOF
<1> QED BY <1>1, <1>3, <1>4, <1>5, <1>6, <1>7 DEF Promised!MatchEOF

LEMMA NoViableAltMatches ==
  ASSUME SetsFindMatches, RInv, NoViableAlt
  PROVE  Promised!MatchNothing
<1> DEFINE i == sim.startIndex
<1>1. /\ sim.phase = "ended" /\ sim.prevAccept = NoAccept /\ sim' = Idle
      /\ g' = g /\ input' = input /\ earlier' = earlier
      /\ LA(lexer) # EOF \/ lexer.index # i
      /\ lexer' = AfterError(lexer)
  BY DEF NoViableAlt
<1>2. /\ IInv /\ IsRecord(lexer) /\ FieldNames \subseteq DOMAIN lexer /\ Stands(lexer) /\ IsText
      /\ i \in Nat /\ i <= lexer.index
  BY <1>1, InputIsText DEF RInv, CInv, IInv, Rests, Acts, Follows
<1>3. /\ Settled = At(lexer, i) /\ Settled.calling = "match" /\ Settled.index = i
      /\ Settled.mode = lexer.mode
      /\ Promised!MatchesHere = Candidates(g, lexer.mode, input, i)
  BY <1>1, <1>2, SettledBusy
<1>4. Promised!MatchesHere = {} /\ Reaches(g, Settled.mode, input, Settled.index) = lexer.index
  BY <1>1, <1>3, EndedBest
<1>5. LA(Settled) # EOF
  <2>1. lexer.index \in Nat /\ lexer.index <= Len(input) /\ Len(input) \in Nat
    <3>1. lexer.index \in Nat /\ lexer.index <= Len(input)
      BY <1>2, PlaceOf
    <3>2. Len(input) \in Nat
      BY <1>2 DEF IsText
    <3> QED BY <3>1, <3>2
  <2>2. i < Len(input)
    <3>1. LA(lexer) # EOF => lexer.index < Len(input)
      BY DEF LA
    <3> QED BY <1>1, <1>2, <2>1, <3>1
  <2>3. input[i + 1] \in Nat
    BY <1>2, <2>1, <2>2 DEF IsText
  <2> QED BY <1>3, <2>2, <2>3 DEF LA, EOF
<1>6. At(Settled, lexer.index) = lexer
  BY <1>2, <1>3, AtAgain, AtItself
<1>7. Settled' = lexer'
  BY <1>1, SettledNext DEF Idle
<1>8. /\ Promised!LA(Settled) # Promised!EOF
      /\ Settled' = Promised!AfterError(Promised!At(Settled, lexer.index))
  BY <1>1, <1>5, <1>6, <1>7, PromisedOperators DEF Promised!EOF, EOF
<1> QED BY <1>1, <1>3, <1>4, <1>8 DEF Promised!MatchNothing

(* nextToken, reset and setInputStream. *)
LEMMA CallNextTokenCalls ==
  ASSUME RInv, CallNextToken
  PROVE  Promised!NextToken
<1>1. /\ sim' = sim /\ g' = g /\ input' = input /\ earlier' = earlier
      /\ lexer.calling = "again" \/ (lexer.calling = "no" /\ EOFs < MaxEOFs)
      /\ lexer' = IF lexer.hitEOF THEN EmitEOF(lexer) ELSE BeginToken(lexer)
  BY DEF CallNextToken, NextToken
<1>2. sim.phase = "idle"
  BY <1>1 DEF RInv, CInv, IInv, Follows
<1>3. Settled = lexer /\ Settled' = lexer'
  BY <1>1, <1>2, SettledIdle, SettledNext
<1>4. Promised!EOFs = EOFs
  BY <1>3 DEF Promised!EOFs, EOFs, Promised!Cardinality, Cardinality, Promised!EOF, EOF
<1> QED BY <1>1, <1>3, <1>4, PromisedOperators DEF Promised!NextToken

LEMMA StartAgainStarts ==
  ASSUME RInv, NEW text, StartAgain(text), sim' = Idle
  PROVE  Promised!StartAgain(text)
<1>1. /\ lexer.calling = "no" /\ Len(earlier) + 1 < MaxPasses[g.name]
      /\ earlier' = Append(earlier, [input |-> input, out |-> lexer.out])
      /\ lexer' = Clear(lexer) /\ input' = text /\ g' = g
  BY DEF StartAgain
<1>2. sim.phase = "idle"
  BY <1>1 DEF RInv, CInv, IInv, Follows
<1>3. Settled = lexer /\ Settled' = lexer'
  BY <1>2, SettledIdle DEF Settled, Idle
<1> QED BY <1>1, <1>3, PromisedOperators DEF Promised!StartAgain

LEMMA NextIsPromised ==
  ASSUME SetsAreOfTheATN, SetsFindMatches, RInv, [SimulatorNext]_vars
  PROVE  [Promised!Next]_Promised!lexerVars
<1>1. CASE CallNextToken
  BY <1>1, CallNextTokenCalls DEF Promised!Next
<1>2. CASE MatchFromDFA \/ MatchATN
  BY <1>2, BeginStutters
<1>3. CASE FollowEdge \/ ComputeTarget
  <2>1. sim.phase = "exec" /\ \E target : Turn(target)
    BY <1>3 DEF FollowEdge, ComputeTarget
  <2> QED BY <2>1, TurnStutters
<1>4. CASE AcceptToken
  BY <1>4, AcceptTokenMatches DEF Promised!Next
<1>5. CASE AcceptEOF
  BY <1>5, AcceptEOFMatches DEF Promised!Next
<1>6. CASE NoViableAlt
  BY <1>6, NoViableAltMatches DEF Promised!Next
<1>7. CASE ResetLexer
  BY <1>7, StartAgainStarts DEF ResetLexer, Reset, Promised!Reset, Promised!Next
<1>8. CASE ReadAnotherInput
  BY <1>8, StartAgainStarts
     DEF ReadAnotherInput, SetInputStream, Promised!SetInputStream, Promised!Next
<1>9. CASE UNCHANGED vars
  <2>1. sim' = sim /\ lexer' = lexer /\ g' = g /\ input' = input /\ earlier' = earlier
    BY <1>9 DEF vars
  <2>2. Settled' = Settled
    BY <2>1, SettledNext DEF Settled
  <2> QED BY <2>1, <2>2 DEF Promised!lexerVars
<1> QED BY <1>1, <1>2, <1>3, <1>4, <1>5, <1>6, <1>7, <1>8, <1>9 DEF SimulatorNext

LEMMA InitIsPromised == SimulatorInit => Promised!Init
<1> SUFFICES ASSUME SimulatorInit PROVE Promised!Init
  OBVIOUS
<1>1. Settled = Fresh /\ Init
  BY SettledIdle DEF SimulatorInit, Init, Idle
<1>2. Promised!Fresh = Fresh
  BY DEF Promised!Fresh, Fresh, Promised!DEFAULT_MODE, DEFAULT_MODE, Promised!INVALID_TYPE,
         INVALID_TYPE, Promised!DEFAULT_CHANNEL, DEFAULT_CHANNEL
<1> QED BY <1>1, <1>2 DEF Init, Promised!Init

(* The simulator finds, a character at a time and through its cache, what  *)
(* the lexer promises: of the matches that count the longest, of those the *)
(* first rule's, with its actions where they stand; and the end of the     *)
(* text or an error only where nothing matches (match, execATN,            *)
(* failOrAccept, accept, LexerActionExecutor.execute).                     *)
THEOREM SimulatorKeepsPromise ==
  ASSUME SetsAreOfTheATN, UnmarkedSetsStay, SetsFindMatches
  PROVE  SimulatorSpec => ImplementsLexer
<1>1. SimulatorInit => RInv /\ Promised!Init
  BY InitRInv, InitIsPromised
<1>2. RInv /\ [SimulatorNext]_vars => RInv'
  BY RInvStays
<1>3. RInv /\ [SimulatorNext]_vars => [Promised!Next]_Promised!lexerVars
  BY NextIsPromised
<1> QED BY <1>1, <1>2, <1>3, PTL DEF SimulatorSpec, ImplementsLexer, Promised!Spec
================================================================================
