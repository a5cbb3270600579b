--------------------------- MODULE CodePointBuffer ---------------------------
(***************************************************************************)
(* CodePointBuffer.ts: the code points of a text that comes in chunks of   *)
(* UTF-16 units, in an array of bytes, of 16-bit or of 32-bit numbers:     *)
(* the narrowest that holds them all.  Of a unit it matters whether it is  *)
(* at most 0xFF ("byte"), a high surrogate, a low surrogate, or another    *)
(* ("char"); a code point is a unit or the pair of a high and a low one.   *)
(* What is written beyond the end of an array is lost.                     *)
(***************************************************************************)
EXTENDS Integers, Sequences
LOCAL INSTANCE SequencesExt

CONSTANTS
  InitialCapacities,  \* initialBufferSize of Builder
  MaxChunk,           \* bounds the units of a chunk
  MaxChunks           \* bounds the chunks

VARIABLES
  type,               \* BYTE, CHAR or INT
  capacity,           \* buffer.length
  buffer,             \* what is in the array, up to its end
  position,           \* how many code points were written
  prevHighSurrogate,  \* whether there is one
  chunks              \* history: what was appended

vars == <<type, capacity, buffer, position, prevHighSurrogate, chunks>>

Units == {"byte", "char", "high", "low"}
Pair == "pair"

RoundUpToNextPowerOfTwo(i) == CHOOSE p \in {1, 2, 4, 8, 16, 32} : p >= i /\ p < 2 * i

(* Writing at the end, in an array of a type: [buffer, position]. *)
Write(out, size, c) ==
  [out EXCEPT !.buffer = IF out.position < size THEN Append(@, c) ELSE @,
              !.position = @ + 1]

(* The array of a wider type: a half or a quarter of the capacity, or as   *)
(* much as is left to append.                                              *)
Widened(narrow, wide, size, written, left) ==
  LET shrunk == IF <<narrow, wide>> = <<"BYTE", "INT">> THEN size \div 4 ELSE size \div 2
  IN IF written + left > shrunk THEN written + left ELSE shrunk

(* A mutant of Widened that forgets what is written already. *)
WidenedForTheRest(narrow, wide, size, written, left) == left

WiderCapacity(narrow, wide, size, written, left) == Widened(narrow, wide, size, written, left)

(* appendArrayInt. *)
AppendInt(s, chunk) ==
  LET Put(out, c) == Write(out, s.capacity, c)
      step(out, c) ==
        CASE out.high /\ c = "low" -> [Put(out, Pair) EXCEPT !.high = FALSE]
          [] out.high /\ c = "high" -> Put(out, "high")
          [] out.high /\ c \notin {"low", "high"} -> [Put(Put(out, "high"), c) EXCEPT !.high = FALSE]
          [] ~out.high /\ c = "high" -> [out EXCEPT !.high = TRUE]
          [] ~out.high /\ c # "high" -> Put(out, c)
      read == FoldLeft(step, s, chunk)
  IN IF read.high THEN Put(read, "high") ELSE read

(* Where the first unit that a type does not hold is. *)
FirstBeyond(narrow, chunk) ==
  SelectInSeq(chunk, LAMBDA c : c = "high" \/ (narrow = "BYTE" /\ c # "byte"))

Prefix(s, chunk) == FoldLeft(LAMBDA out, c : Write(out, s.capacity, c), s, chunk)

(* appendArrayChar, then appendArrayByte, which go on in a wider array.    *)
Wider(s, wide, chunk) ==
  [s EXCEPT !.type = wide,
            !.capacity = WiderCapacity(s.type, wide, @, s.position, Len(chunk)),
            !.buffer = SubSeq(@, 1, IF s.position < Len(@) THEN s.position ELSE Len(@))]

AppendChar(s, chunk) ==
  LET i == FirstBeyond("CHAR", chunk)
      rest == SubSeq(chunk, i, Len(chunk))
  IN IF i = 0 THEN Prefix(s, chunk)
     ELSE AppendInt(Wider(Prefix(s, SubSeq(chunk, 1, i - 1)), "INT", rest), rest)

AppendByte(s, chunk) ==
  LET i == FirstBeyond("BYTE", chunk)
      rest == SubSeq(chunk, i, Len(chunk))
      read == Prefix(s, SubSeq(chunk, 1, i - 1))
  IN IF i = 0 THEN Prefix(s, chunk)
     ELSE IF chunk[i] = "high" THEN AppendInt(Wider(read, "INT", rest), rest)
     ELSE AppendChar(Wider(read, "CHAR", rest), rest)

(* ensureRemaining. *)
Ensured(s, n) ==
  IF s.capacity - s.position < n
  THEN [s EXCEPT !.capacity = RoundUpToNextPowerOfTwo(@ + n)] ELSE s

-----------------------------------------------------------------------------
Init ==
  /\ type = "BYTE"
  /\ capacity \in InitialCapacities
  /\ buffer = <<>>
  /\ position = 0
  /\ prevHighSurrogate = FALSE
  /\ chunks = <<>>

(* append; CharStreams.fromString is one of the whole text. *)
AppendChunk ==
  /\ Len(chunks) < MaxChunks
  /\ \E chunk \in BoundedSeq(Units, MaxChunk) :
       LET s == Ensured([type |-> type, capacity |-> capacity, buffer |-> buffer,
                         position |-> position, high |-> prevHighSurrogate], Len(chunk))
       IN \E t \in {CASE type = "BYTE" -> AppendByte(s, chunk)
                      [] type = "CHAR" -> AppendChar(s, chunk)
                      [] type = "INT" -> AppendInt(s, chunk)} :
            /\ type' = t.type
            /\ capacity' = t.capacity
            /\ buffer' = t.buffer
            /\ position' = t.position
            /\ prevHighSurrogate' = t.high
       /\ chunks' = Append(chunks, chunk)

Next == AppendChunk

Spec == Init /\ [][Next]_vars

-----------------------------------------------------------------------------
(* The code points of a text: a high surrogate and a low one behind it are *)
(* one, every other unit is one by itself.                                 *)
Decoded(text) ==
  LET IsSecond(i) == text[i] = "low" /\ i > 1 /\ text[i - 1] = "high"
      Of(i) == IF i < Len(text) /\ IsSecond(i + 1) THEN <<Pair>>
               ELSE IF IsSecond(i) THEN <<>> ELSE <<text[i]>>
  IN FlattenSeq([i \in DOMAIN text |-> Of(i)])

Kinds == ToSet(FlattenSeq(chunks))

(* However the text is cut into chunks, the buffer holds its code points,  *)
(* none lost when the array is made larger or wider, unless a chunk that   *)
(* is not the last one ends with a high surrogate: that is written at once *)
(* and kept for the next chunk as well (CodePointBuffer.ts:235).  Only a   *)
(* surrogate makes the array one of 32 bits.                               *)
CodePointsAreDecoded ==
  /\ (\A i \in 1 .. Len(chunks) - 1 : chunks[i] = <<>> \/ chunks[i][Len(chunks[i])] # "high")
       => buffer = Decoded(FlattenSeq(chunks)) /\ position = Len(buffer)
  /\ type = IF "high" \in Kinds THEN "INT" ELSE IF Kinds \subseteq {"byte"} THEN "BYTE" ELSE "CHAR"
=============================================================================
