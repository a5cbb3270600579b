------------------------------- MODULE BitSet -------------------------------
(***************************************************************************)
(* misc/BitSet.ts: sets of numbers as an array of words of W bits (there   *)
(* 16).  A word is the set of its bits, 0 to W - 1.  Alternatives in       *)
(* conflict, the symbols that need more context and the rules LOOK is in   *)
(* are such sets.                                                          *)
(*                                                                         *)
(* Two of them are under way here, `data' and `other': an operation        *)
(* changes the first, and Exchange makes the second the first.  The array  *)
(* has the words that were once needed: trailing words may be empty, and   *)
(* what the operations do depends on them.                                 *)
(***************************************************************************)
EXTENDS Integers, Sequences, FiniteSets

CONSTANTS
  W,         \* bits of a word
  MaxBit     \* bounds the bits that are set

VARIABLES data, other

vars == <<data, other>>
Bits == 0 .. MaxBit

Least(S) == CHOOSE x \in S : \A y \in S : x <= y
Greatest(S) == CHOOSE x \in S : \A y \in S : x >= y
SymmetricDifference(S, T) == (S \ T) \cup (T \ S)
AllOnes == 0 .. W - 1
Longer(m, n) == IF m > n THEN m ELSE n
Shorter(m, n) == IF m < n THEN m ELSE n

-----------------------------------------------------------------------------
(* Words. *)

GetIndex(bit) == bit \div W

(* A mutant of BitsFor that lacks the first bit. *)
BitsAfter(from, to) == SymmetricDifference(0 .. to % W, 0 .. from % W)

(* Two masks of ones, one shifted against the other; only the low bits of  *)
(* the arguments count.                                                    *)
BitsFor(from, to) == SymmetricDifference(0 .. to % W, 0 .. (from % W) - 1)

(* A word beyond the array reads as one without bits. *)
Word(words, i) == IF i \in 0 .. Len(words) - 1 THEN words[i + 1] ELSE {}

(* The bits of word i that lie between two bit numbers. *)
Mask(i, from, to) ==
  BitsFor(IF i = GetIndex(from) THEN from ELSE 0, IF i = GetIndex(to) THEN to ELSE W - 1)

Content(words) == UNION {{i * W + b : b \in Word(words, i)} : i \in 0 .. Len(words) - 1}

-----------------------------------------------------------------------------
(* Changing bits, from one number to another, both included. *)

WithBits(words, from, to, value) ==
  LET first == GetIndex(from)
      grown == [i \in 1 .. Longer(Len(words), GetIndex(to) + 1) |-> Word(words, i - 1)]
      until == IF GetIndex(to) >= Len(words) THEN Len(words) * W - 1 ELSE to
  IN IF value
     THEN [i \in DOMAIN grown |->
             IF i - 1 \in first .. GetIndex(to) THEN grown[i] \cup Mask(i - 1, from, to)
             ELSE grown[i]]
     ELSE [i \in DOMAIN words |->
             IF i - 1 \in first .. GetIndex(until) THEN words[i] \ Mask(i - 1, from, until)
             ELSE words[i]]

(* Bits beyond the array cannot be flipped. *)
Flipped(words, from, to) ==
  [i \in DOMAIN words |->
     IF i - 1 \in GetIndex(from) .. GetIndex(to)
     THEN SymmetricDifference(words[i], Mask(i - 1, from, to))
     ELSE words[i]]

(* get() with a range *)
GetRange(words, from, to) ==
  LET first == [i \in 1 .. GetIndex(to) + 1 |-> {}]
      set[n \in from - 1 .. to] ==
        IF n < from THEN first
        ELSE WithBits(set[n - 1], n, n, n % W \in Word(words, GetIndex(n)))
  IN set[to]

-----------------------------------------------------------------------------
(* Combining two sets, word by word. *)

(* A mutant of LastWord that is one off. *)
LastWordButOne(words) ==
  LET last == Greatest({0} \cup {i \in DOMAIN words : words[i] # {}})
  IN IF last > 1 THEN last - 1 ELSE last

LastWord(words) == Greatest({0} \cup {i \in DOMAIN words : words[i] # {}})

And(words, set) ==
  LET common == [i \in 1 .. Shorter(Len(words), Len(set)) |-> words[i] \cap set[i]]
  IN SubSeq(common, 1, LastWord(common))

(* The words that the other set lacks are looked at as little as in And.   *)
AndNot(words, set) ==
  LET common == [i \in 1 .. Shorter(Len(words), Len(set)) |-> words[i] \ set[i]]
  IN SubSeq(common, 1, LastWord(common))

Or(words, set) ==
  LET dest == [i \in 1 .. Longer(Len(words), Len(set)) |->
                 Word(words, i - 1) \cup Word(set, i - 1)]
      last == LastWord(dest)
  IN IF last = Len(dest) THEN dest
     ELSE IF last = 0 THEN <<>>
     ELSE SubSeq(dest, 1, last - 1)

Xor(words, set) ==
  LET dest == [i \in 1 .. Longer(Len(words), Len(set)) |->
                 SymmetricDifference(Word(words, i - 1), Word(set, i - 1))]
  IN SubSeq(dest, 1, LastWord(dest))

-----------------------------------------------------------------------------
(* Looking for bits: -1 is none. *)

NextSetBit(words, from) ==
  LET word == GetIndex(from)
      here == Word(words, word) \cap BitsFor(from, W - 1)
      later == {i \in word + 1 .. Len(words) - 1 : Word(words, i) # {}}
  IN IF here # {} THEN word * W + Least(here)
     ELSE IF later # {} THEN Least(later) * W + Least(Word(words, Least(later)))
     ELSE -1

NextClearBit(words, from) ==
  LET word == GetIndex(from)
      here == BitsFor(from, W - 1) \ Word(words, word)
      later == {i \in word + 1 .. Len(words) - 1 : Word(words, i) # AllOnes}
  IN IF word > Len(words) THEN -1
     ELSE IF here # {} THEN word * W + Least(here)
     ELSE IF later # {} THEN Least(later) * W + Least(AllOnes \ Word(words, Least(later)))
     ELSE -1

(* Backwards, from the last word at most, but with the mask of `from'. *)
PreviousSetBit(words, from) ==
  LET word == Shorter(GetIndex(from), Len(words) - 1)
      here == Word(words, word) \cap BitsFor(0, from)
      earlier == {i \in 0 .. word - 1 : Word(words, i) # {}}
  IN IF here # {} THEN word * W + Greatest(here)
     ELSE IF earlier # {} THEN Greatest(earlier) * W + Greatest(Word(words, Greatest(earlier)))
     ELSE -1

PreviousClearBit(words, from) ==
  LET word == Shorter(GetIndex(from), Len(words) - 1)
      here == BitsFor(0, from) \ Word(words, word)
      earlier == {i \in 0 .. word - 1 : Word(words, i) # AllOnes}
  IN IF here # {} THEN word * W + Greatest(here)
     ELSE IF earlier # {}
     THEN Greatest(earlier) * W + Greatest(AllOnes \ Word(words, Greatest(earlier)))
     ELSE -1

Length(words) == IF words = <<>> THEN 0 ELSE PreviousSetBit(words, Len(words) * W - 1) + 1

PopulationCount(words) ==
  LET count[n \in 0 .. Len(words)] ==
        IF n = 0 THEN 0 ELSE count[n - 1] + Cardinality(words[n])
  IN IF Length(words) = 0 THEN 0 ELSE count[Len(words)]

Intersects(words, set) ==
  LET smaller == Shorter(Length(words), Length(set))
  IN smaller > 0 /\ \E i \in 0 .. GetIndex(smaller - 1) : Word(words, i) \cap Word(set, i) # {}

Equals(words, set) ==
  /\ Length(words) = Length(set)
  /\ \A i \in 0 .. GetIndex(Length(words) - 1) : Word(words, i) = Word(set, i)

(* BitSetIterator: the bits it yields at most `n' times.  `mask' is what   *)
(* is left of the word.                                                    *)
Yielded(words, n) ==
  LET Found(index, mask) ==
        {i \in index .. Len(words) - 1 :
           (IF i = index THEN Word(words, i) \cap mask ELSE Word(words, i)) # {}}
      next[k \in 0 .. n] ==
        IF k = 0 THEN [index |-> 0, mask |-> AllOnes, bits |-> <<>>]
        ELSE LET s == next[k - 1]
                 at == Found(s.index, s.mask)
                 i == Least(at)
                 bit == i * W + Least(IF i = s.index THEN Word(words, i) \cap s.mask
                                      ELSE Word(words, i))
             IN IF at = {} THEN [s EXCEPT !.index = Len(words)]
                ELSE [index |-> i, mask |-> BitsFor(bit + 1, W - 1), bits |-> Append(s.bits, bit)]
  IN next[n].bits

-----------------------------------------------------------------------------
Ranges == {r \in Bits \X Bits : r[1] <= r[2]}

Init == data = <<>> /\ other = <<>>

SetRange(from, to)   == data' = WithBits(data, from, to, TRUE) /\ UNCHANGED other
ClearRange(from, to) == data' = WithBits(data, from, to, FALSE) /\ UNCHANGED other
Flip(from, to)       == data' = Flipped(data, from, to) /\ UNCHANGED other
ClearAll             == data' = [i \in DOMAIN data |-> {}] /\ UNCHANGED other
KeepRange(from, to)  == data' = GetRange(data, from, to) /\ UNCHANGED other
DoAnd    == data' = And(data, other) /\ UNCHANGED other
DoAndNot == data' = AndNot(data, other) /\ UNCHANGED other
DoOr     == data' = Or(data, other) /\ UNCHANGED other
DoXor    == data' = Xor(data, other) /\ UNCHANGED other
Exchange == data' = other /\ other' = data

Next ==
  \/ \E r \in Ranges :
       \/ SetRange(r[1], r[2])
       \/ ClearRange(r[1], r[2])
       \/ Flip(r[1], r[2])
       \/ KeepRange(r[1], r[2])
  \/ ClearAll \/ DoAnd \/ DoAndNot \/ DoOr \/ DoXor \/ Exchange

Spec == Init /\ [][Next]_vars

-----------------------------------------------------------------------------
(* Every operation does to the set what it is named for, however many      *)
(* words either array has (set, clear, get, and, xor; flip, andNot and or  *)
(* within limits).  The code and its documentation differ in four things,  *)
(* and the property is the code's word on them:                            *)
(*  - a range has both its ends, as in TestBitSet.ts:261-269, while the    *)
(*    comments of set, clear, flip and get say "`toIndex` (exclusive)"     *)
(*    (BitSet.ts:226, 254, 296, 584, 594);                                 *)
(*  - flip changes no bit beyond the array (documented: each, :254);       *)
(*  - andNot drops the bits beyond the words both arrays have (documented: *)
(*    it clears those of the argument only, :167);                         *)
(*  - or, if empty words follow the last word with bits, drops that word   *)
(*    (documented: a bit is in the result if it is in either set, :440).   *)
InWords(n) == 0 .. n * W - 1
OperationsAreOnSets ==
  LET bits == Content(data)
      set  == Content(other)
      both == bits \cup set
      highest == IF both = {} THEN 0 ELSE GetIndex(Greatest(both))
  IN /\ \A r \in Ranges :
          /\ Content(WithBits(data, r[1], r[2], TRUE)) = bits \cup r[1] .. r[2]
          /\ Content(WithBits(data, r[1], r[2], FALSE)) = bits \ r[1] .. r[2]
          /\ Content(GetRange(data, r[1], r[2])) = bits \cap r[1] .. r[2]
          /\ Content(Flipped(data, r[1], r[2])) =
               SymmetricDifference(bits, r[1] .. r[2] \cap InWords(Len(data)))
     /\ Content(And(data, other)) = bits \cap set
     /\ Content(Xor(data, other)) = SymmetricDifference(bits, set)
     /\ Content(AndNot(data, other)) =
          (bits \ set) \cap InWords(Shorter(Len(data), Len(other)))
     /\ Content(Or(data, other)) =
          IF highest + 1 < Longer(Len(data), Len(other)) THEN both \cap InWords(highest)
          ELSE both

(* What the set is asked for follows from its content, not from the words  *)
(* behind it (nextSetBit, length, cardinality, intersects, equals), but    *)
(* for three things, in which the code differs from what is documented:    *)
(*  - a search backwards from beyond the array begins in its last word, at *)
(*    the place in that word (Reach) that the number has in its own, and   *)
(*    so may miss a bit (documented: the nearest on or before the starting *)
(*    index, BitSet.ts:481, 520); without words it finds a clear bit below *)
(*    0;                                                                   *)
(*  - nextClearBit does not look beyond the array, except for a search     *)
(*    that begins in the word after it (documented: the first on or after  *)
(*    the starting index, :357);                                           *)
(*  - the iterator begins a word again after its last bit, and goes on so  *)
(*    for ever (TestBitSet.ts:146 has it work; its sets have no such bit). *)
QueriesAnswerContent ==
  LET bits == Content(data)
      Above(n) == {b \in bits : b >= n}
      Below(n) == {b \in bits : b <= n}
      clear == InWords(Len(data)) \ bits
      Reach(n) == IF n \in InWords(Len(data)) THEN n ELSE (Len(data) - 1) * W + (n % W)
  IN /\ Length(data) = IF bits = {} THEN 0 ELSE Greatest(bits) + 1
     /\ PopulationCount(data) = Cardinality(bits)
     /\ Intersects(data, other) = (bits \cap Content(other) # {})
     /\ Equals(data, other) = (bits = Content(other))
     /\ \A n \in InWords(Len(data) + 2) :
          /\ NextSetBit(data, n) = IF Above(n) = {} THEN -1 ELSE Least(Above(n))
          /\ PreviousSetBit(data, n) =
               IF Below(Reach(n)) = {} THEN -1 ELSE Greatest(Below(Reach(n)))
          /\ NextClearBit(data, n) =
               IF GetIndex(n) = Len(data) THEN n
               ELSE IF \A b \in clear : b < n THEN -1 ELSE Least({b \in clear : b >= n})
          /\ PreviousClearBit(data, n) =
               IF data = <<>> THEN Reach(n)
               ELSE IF \A b \in clear : b > Reach(n) THEN -1
               ELSE Greatest({b \in clear : b <= Reach(n)})
     /\ LET n == Cardinality(bits)
            all == Yielded(data, n + 1)
            lastBits == {b \in bits : b % W = W - 1}
            reached == IF lastBits = {} THEN bits ELSE Below(Least(lastBits))
            k == Cardinality(reached)
        IN /\ {all[i] : i \in 1 .. k} = reached
           /\ \A i, j \in 1 .. k : i < j => all[i] < all[j]
           /\ IF lastBits = {} THEN Len(all) = n
              ELSE all[k + 1] = Least({b \in bits : GetIndex(b) = GetIndex(Least(lastBits))})
=============================================================================
