------------------------------ MODULE MCSupport ------------------------------
(***************************************************************************)
(* The classes that the recognizers stand on, each on a small instance:    *)
(* the sets of configurations (ATNConfigSet), the token stream that keeps  *)
(* every token, the edits of its text, the buffer of a text's code points, *)
(* the token source that is a list, and the containers of misc.  They      *)
(* share no state, so a behaviour works with one.                          *)
(***************************************************************************)
EXTENDS ATNConfigSet, TokenInputs, TLC

VARIABLES
  under,    \* what a behaviour works with
  source, stream, answer,
  rewrites, edits, issued, settled, rolledBack, disturbed,
  type, capacity, buffer, position, prevHighSurrogate, chunks,
  pending, place, eofToken, handed, text,
  bits, otherBits, intervals, otherIntervals, list, otherList, table, found

(* Configurations that merge (of one key, with contexts one of which may   *)
(* stand for the other), that may not (of one key, with different          *)
(* predicates), that differ in their alternative, and at a stop state, in  *)
(* the outer context or not.                                               *)
SomeConfigurations ==
  [f \in BOOLEAN |->
    {[state |-> c[1], alt |-> c[2], context |-> c[3], sem |-> c[4], outer |-> c[5],
      suppressed |-> FALSE] :
       c \in {<<1, 1, {<<1>>}, {}, FALSE>>, <<1, 1, {<<IF f THEN 1 ELSE 2>>, <<1, 1>>}, {}, FALSE>>,
              <<1, 1, {<<1>>}, {"p"}, FALSE>>, <<1, 2, {<<2>>}, {}, FALSE>>,
              <<9, 1, {<<>>}, {}, TRUE>>, <<9, 1, {<<>>}, {"p"}, FALSE>>,
              <<9, 1, {<<>>}, {}, FALSE>>}}]
OneStop == {9}
ASSUME ReachableAreConfigurations

PlainSources == Inputs(3)
Plain == INSTANCE BufferedTokenStream WITH
  Sources <- PlainSources, Filtering <- FALSE, Channel <- 0, SeekTargets <- 0..3,
  Lookaheads <- {1, 2}, MaxFaults <- 1
Rewriter == INSTANCE TokenStreamRewriter WITH
  EOFIndex <- 2, MaxEdits <- 3
CodePoints == INSTANCE CodePointBuffer WITH
  InitialCapacities <- {0, 1, 2}, MaxChunk <- 3, MaxChunks <- 2
Listed == INSTANCE ListTokenSource WITH
  tokens <- pending, i <- place, MaxTokens <- 2, MaxText <- 2, MaxCalls <- 4
Bits == INSTANCE BitSet WITH
  data <- bits, other <- otherBits, W <- 2, MaxBit <- 4
Intervals == INSTANCE IntervalSet WITH
  other <- otherIntervals, Elements <- -2 .. 2
Lists == INSTANCE IntegerList WITH
  other <- otherList, Numbers <- {1, 2}, InitialSize <- 2, MaxSize <- 2
Tables == INSTANCE HashTable WITH
  answer <- found, Keys <- {"a", "b", "c", "d"}, Values <- {"x", "y"}, InitialCapacity <- 2,
  Hash <- ("a" :> 0) @@ ("b" :> 2) @@ ("c" :> 4) @@ ("d" :> 1)

streamVars == <<source, stream, answer>>
rewriterVars == <<rewrites, edits, issued, settled, rolledBack, disturbed>>
codePointVars == <<type, capacity, buffer, position, prevHighSurrogate, chunks>>
listedVars == <<pending, place, eofToken, handed, text>>
bitVars == <<bits, otherBits>>
intervalVars == <<intervals, otherIntervals>>
listVars == <<list, otherList>>
tableVars == <<table, found>>

(* What a behaviour does not work with stays in one of its initial states; *)
(* which one is said before Init, so that TLC need not look at the others. *)
MCInit ==
  /\ under \in {"configurations", "stream", "rewriter", "code points", "listed tokens",
                "bits", "intervals", "lists", "tables"}
  /\ \/ under = "listed tokens"
     \/ under # "listed tokens" /\ pending = <<>> /\ text = <<>>
  /\ Listed!Init
  /\ \/ under = "code points"
     \/ under # "code points" /\ capacity = 0
  /\ CodePoints!Init
  /\ \/ under = "stream"
     \/ under # "stream" /\ source = <<EndOfInput>> /\ stream = Plain!Fresh({})
  /\ Plain!Init
  /\ \/ under = "configurations"
     \/ under # "configurations" /\ full = FALSE
  /\ Init
  /\ Rewriter!Init /\ Bits!Init /\ Intervals!Init /\ Lists!Init /\ Tables!Init

MCNext ==
  /\ UNCHANGED under
  /\ \/ /\ under = "configurations" /\ Next
        /\ UNCHANGED <<streamVars, rewriterVars, codePointVars, listedVars, bitVars,
                       intervalVars, listVars, tableVars>>
     \/ /\ under = "stream" /\ Plain!Next
        /\ UNCHANGED <<vars, rewriterVars, codePointVars, listedVars, bitVars,
                       intervalVars, listVars, tableVars>>
     \/ /\ under = "rewriter" /\ Rewriter!Next
        /\ UNCHANGED <<vars, streamVars, codePointVars, listedVars, bitVars,
                       intervalVars, listVars, tableVars>>
     \/ /\ under = "code points" /\ CodePoints!Next
        /\ UNCHANGED <<vars, streamVars, rewriterVars, listedVars, bitVars,
                       intervalVars, listVars, tableVars>>
     \/ /\ under = "listed tokens" /\ Listed!Next
        /\ UNCHANGED <<vars, streamVars, rewriterVars, codePointVars, bitVars,
                       intervalVars, listVars, tableVars>>
     \/ /\ under = "bits" /\ Bits!Next
        /\ UNCHANGED <<vars, streamVars, rewriterVars, codePointVars, listedVars,
                       intervalVars, listVars, tableVars>>
     \/ /\ under = "intervals" /\ Intervals!Next
        /\ UNCHANGED <<vars, streamVars, rewriterVars, codePointVars, listedVars,
                       bitVars, listVars, tableVars>>
     \/ /\ under = "lists" /\ Lists!Next
        /\ UNCHANGED <<vars, streamVars, rewriterVars, codePointVars, listedVars,
                       bitVars, intervalVars, tableVars>>
     \/ /\ under = "tables" /\ Tables!Next
        /\ UNCHANGED <<vars, streamVars, rewriterVars, codePointVars, listedVars,
                       bitVars, intervalVars, listVars>>

MCSpec ==
  MCInit /\ [][MCNext]_<<under, vars, streamVars, rewriterVars, codePointVars, listedVars, bitVars,
                        intervalVars, listVars, tableVars>>

-----------------------------------------------------------------------------
(* The properties of these classes, in the behaviours that work with them; *)
(* those of the sets of configurations are ATNConfigSet's.                 *)

(* BufferedTokenStream.ts: the tokens fetched are a prefix of the input. *)
BufferIsPrefix == under = "stream" => Plain!BufferIsPrefix

(* TokenStreamRewriter.ts: the edits come to what was asked for. *)
EditsAreCarriedOut == under = "rewriter" => Rewriter!EditsAreCarriedOut

(* CodePointBuffer.ts: the buffer holds the code points of the chunks. *)
CodePointsAreDecoded == under = "code points" => CodePoints!CodePointsAreDecoded

(* ListTokenSource.ts: EOF is where the text of the tokens ends. *)
EndIsPlaced == under = "listed tokens" => Listed!EndIsPlaced

(* BitSet.ts: what set, clear, flip, get, and, or, xor, andNot do to a set. *)
OperationsAreOnSets == under = "bits" => Bits!OperationsAreOnSets

(* BitSet.ts: what nextSetBit, cardinality, equals and the others say of a set. *)
QueriesAnswerContent == under = "bits" => Bits!QueriesAnswerContent

(* misc/IntervalSet.ts: the intervals stay in order, with gaps between them. *)
ListsAreCanonical == under = "intervals" => Intervals!ListsAreCanonical

(* misc/IntervalSet.ts: its operations are those on sets of numbers. *)
ListsAreSets == Intervals!ListsAreSets

(* misc/IntegerList.ts: its operations are those on sequences, whatever the *)
(* array behind it.                                                         *)
ListsAreSequences == under = "lists" => Lists!ListsAreSequences

(* misc/Array2DHashSet.ts: one element for each key, however often it expands. *)
ElementsAreInterned == Tables!ElementsAreInterned
=============================================================================
