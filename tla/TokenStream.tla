---------------------------- MODULE TokenStream ----------------------------
(***************************************************************************)
(* The promise of IntStream.ts and TokenStream.ts, for a stream that shows *)
(* its client only the symbols of one channel (CommonTokenStream) or every *)
(* token (BufferedTokenStream).  The whole input is there from the start:  *)
(* nothing in this module is lazy, buffered or able to be half done.       *)
(*                                                                         *)
(* A token is a record [type, channel]; token indexes start at 0, as in    *)
(* the code, so the token of index i of `input' is input[i + 1].           *)
(***************************************************************************)
EXTENDS Integers, Sequences, FiniteSets

CONSTANTS
  Sources,      \* the inputs: sequences of tokens whose last one is EOF
  Filtering,    \* TRUE: only tokens of Channel, and EOF, are symbols
  Channel,      \* the channel of the symbols when Filtering
  SeekTargets,  \* the indexes a client seeks to
  Lookaheads    \* the k > 0 of LA(k) and LA(-k)

VARIABLES
  input,        \* the tokens the stream is made of
  index,        \* the index of LA(1)
  answer        \* what the last call returned: [call, arg, thrown, tokens], where
                \* tokens is the set of the indexes of the tokens returned

vars == <<input, index, answer>>

EOF == -1                            \* Token.EOF
NoToken == -1                        \* `undefined' where a token is due

EofIndex(in) == Len(in) - 1

IsSymbol(t) == Filtering => (t.channel = Channel \/ t.type = EOF)

Symbols(in) == {i \in 0..EofIndex(in) : IsSymbol(in[i + 1])}

(* The first symbol at or after i, EOF when i is past the end. *)
SymbolAtOrAfter(in, i) ==
  IF i > EofIndex(in) THEN EofIndex(in)
  ELSE CHOOSE j \in Symbols(in) : j >= i /\ \A m \in Symbols(in) : m >= i => j <= m

(* LA(k): the (k-1)-th symbol after the one at i, EOF if there is none. *)
Ahead(in, i, k) ==
  LET after == {j \in Symbols(in) : j > i}
      hit   == {j \in after : Cardinality({m \in after : m <= j}) = k - 1}
  IN IF k = 1 THEN i
     ELSE IF hit = {} THEN EofIndex(in)
     ELSE CHOOSE j \in hit : \A m \in hit : j <= m

(* LA(-k): the symbol k calls of consume ago, NoToken if there were fewer. *)
Behind(in, i, k) ==
  LET before == {j \in Symbols(in) : j < i}
      hit    == {j \in before : Cardinality({m \in before : m >= j}) = k}
  IN IF hit = {} THEN NoToken
     ELSE CHOOSE j \in hit : \A m \in hit : j <= m

Returned(call, arg, tokens) ==
  [call |-> call, arg |-> arg, thrown |-> "none", tokens |-> tokens]

Thrown(call, arg, error) ==
  [call |-> call, arg |-> arg, thrown |-> error, tokens |-> {}]

Init ==
  /\ input \in Sources
  /\ index = SymbolAtOrAfter(input, 0)
  /\ answer = Returned("new", 0, {})

(* IntStream.consume: LA(1) becomes LA(-1); the end cannot be consumed. *)
Consume ==
  /\ \/ /\ index < EofIndex(input)
        /\ index' = SymbolAtOrAfter(input, index + 1)
        /\ answer' = Returned("consume", 0, {})
     \/ /\ index = EofIndex(input)
        /\ index' = index
        /\ answer' = Thrown("consume", 0, "EOF")
  /\ UNCHANGED input

(* IntStream.seek: an index past the end behaves as the index of EOF, one  *)
(* that is no symbol moves forward to the next symbol; a negative one is   *)
(* refused.                                                                *)
Seek(i) ==
  /\ IF i < 0
     THEN index' = index /\ answer' = Thrown("seek", i, "assert")
     ELSE index' = SymbolAtOrAfter(input, i) /\ answer' = Returned("seek", i, {})
  /\ UNCHANGED input

(* IntStream.LA(k), k > 0, always succeeds. *)
LookAhead(k) ==
  /\ answer' = Returned("tryLT", k, {Ahead(input, index, k)})
  /\ UNCHANGED <<input, index>>

(* IntStream.LA(-k): the symbol consumed k calls ago if there is one; with *)
(* fewer than k symbols behind the cursor the answer is unspecified.       *)
LookBehind(k) ==
  /\ LET i == Behind(input, index, k)
         unspecified == {{}} \cup {{j} : j \in 0..EofIndex(input)}
     IN \E found \in IF i # NoToken THEN {{i}} ELSE unspecified :
          answer' = Returned("tryLT", -k, found)
  /\ UNCHANGED <<input, index>>

(* A call that reports on tokens by index and leaves the cursor alone. *)
Report ==
  /\ \E call \in {"fill", "getText", "getHiddenTokensToRight", "getHiddenTokensToLeft",
                  "getRange", "getNumberOfOnChannelTokens"} :
       /\ answer'.call = call
       /\ answer'.thrown \in {"none", "range"}
  /\ UNCHANGED <<input, index>>

(* The token source fails in the middle of any call: the cursor stays. *)
SourceFails ==
  /\ answer'.thrown = "source"
  /\ UNCHANGED <<input, index>>

SetTokenSource ==
  /\ input' \in Sources
  /\ index' = SymbolAtOrAfter(input', 0)
  /\ answer' = Returned("setTokenSource", 0, {})

Next ==
  \/ Consume
  \/ \E i \in SeekTargets : Seek(i)
  \/ \E k \in Lookaheads : LookAhead(k) \/ LookBehind(k)
  \/ Report
  \/ SourceFails
  \/ SetTokenSource

Spec == Init /\ [][Next]_vars

============================================================================
