------------------------- MODULE TokenStreamRewriter -------------------------
(***************************************************************************)
(* TokenStreamRewriter.ts: edits of a token stream's text, carried out     *)
(* when a text is asked for.  Tokens are numbered from 0 to EOFIndex, the EOF  *)
(* token, and the stream is filled.  An edit is a record [kind, index,     *)
(* last, text]: "before" and "after", InsertBeforeOp and InsertAfterOp (an *)
(* insert before the next token), and "replace", with the range it covers; *)
(* "dropped" is an instruction set to undefined.  A text is a sequence of  *)
(* pieces, tokens and the numbers of the edits; delete is a replace with   *)
(* no piece.  A rewriter has a program of edits for each name; they have   *)
(* nothing in common, and this is one of them.                             *)
(***************************************************************************)
EXTENDS Integers, Sequences, FiniteSets
LOCAL INSTANCE SequencesExt

CONSTANTS
  EOFIndex,   \* the index of EOF
  MaxEdits    \* bounds the edits that are issued

VARIABLES
  rewrites,   \* the program
  \* history
  edits,      \* how many edits were issued
  issued,     \* the edits as they were issued, without those rolled back
  settled,    \* how many of them were there when a text was last asked for
  rolledBack, \* whether some of those were rolled back
  disturbed   \* whether an edit after that replaces what one of those inserts at

vars == <<rewrites, edits, issued, settled, rolledBack, disturbed>>

Piece(k) == <<"edit", k>>
TokenPiece(i) == <<"token", i>>
Dropped == [kind |-> "dropped", index |-> 0, last |-> 0, text |-> <<>>]
IsInsert(op) == op.kind \in {"before", "after"}
IsReplace(op) == op.kind = "replace"
Within(op, i) == i \in op.index .. op.last

-----------------------------------------------------------------------------
(* reduceToSingleOperationPerIndex. *)

(* The replace at i: the inserts before it that it covers go, those at its *)
(* start into its text, then the replaces before it that it contains go;   *)
(* one that overlaps it is an error.                                       *)
Replaced(acc, i) ==
  LET ops   == acc.ops
      r     == ops[i]
      Prior(Test(_)) == {j \in 1 .. i - 1 : Test(ops[j])}
      covered   == Prior(LAMBDA op : IsInsert(op) /\ Within(r, op.index))
      overlaps  == Prior(LAMBDA op : /\ IsReplace(op)
                                     /\ op.last >= r.index /\ op.index <= r.last
                                     /\ ~(op.index >= r.index /\ op.last <= r.last))
      contained == Prior(LAMBDA op : /\ IsReplace(op)
                                     /\ op.index >= r.index /\ op.last <= r.last)
      reached   == {j \in contained : \A o \in overlaps : j < o}
      Take(text, j) == IF j \in covered /\ ops[j].index = r.index THEN ops[j].text \o text ELSE text
  IN IF acc.error # "none" \/ ~IsReplace(r) THEN acc
     ELSE [ops |-> [j \in DOMAIN ops |->
                      IF j \in covered \cup reached THEN Dropped
                      ELSE IF j = i
                      THEN [r EXCEPT !.text = FoldLeftDomain(Take, @, SubSeq(ops, 1, i - 1))]
                      ELSE ops[j]],
           error |-> IF overlaps = {} THEN "none" ELSE "overlap"]

(* The insert at i takes the inserts before it at the same index; then a   *)
(* replace before it that starts there takes it, and one that goes on      *)
(* there is an error.                                                      *)
Inserted(acc, i) ==
  LET ops  == acc.ops
      op   == ops[i]
      same == {j \in 1 .. i - 1 : IsInsert(ops[j]) /\ ops[j].index = op.index}
      Take(text, j) == IF j \notin same THEN text
                       ELSE IF ops[j].kind = "after" THEN ops[j].text \o text
                       ELSE text \o ops[j].text
      text  == FoldLeftDomain(Take, op.text, SubSeq(ops, 1, i - 1))
      there == {j \in 1 .. i - 1 : IsReplace(ops[j]) /\ Within(ops[j], op.index)}
      takes == {j \in there : ops[j].index = op.index}
  IN IF acc.error # "none" \/ ~IsInsert(op) THEN acc
     ELSE [ops |-> [j \in DOMAIN ops |->
                      IF j \in same \/ (j = i /\ takes # {}) THEN Dropped
                      ELSE IF j \in takes THEN [ops[j] EXCEPT !.text = text \o @]
                      ELSE IF j = i THEN [op EXCEPT !.text = text]
                      ELSE ops[j]],
           error |-> IF there = takes THEN "none" ELSE "within"]

(* A mutant of Inserted that leaves the inserts it took in the program.    *)
InsertedAgain(acc, i) ==
  LET done == Inserted(acc, i) IN
  [done EXCEPT !.ops = [j \in DOMAIN @ |->
     IF j < i /\ IsInsert(acc.ops[j]) THEN acc.ops[j] ELSE done.ops[j]]]

WalkInserts(acc, i) == Inserted(acc, i)

Live(ops) == {i \in DOMAIN ops : ops[i].kind # "dropped"}

Reduced(ops) ==
  LET replaces == FoldLeftDomain(Replaced, [ops |-> ops, error |-> "none"], ops)
      inserts  == FoldLeftDomain(WalkInserts, replaces, ops)
      twice    == \E i, j \in Live(inserts.ops) :
                     i # j /\ inserts.ops[i].index = inserts.ops[j].index
  IN IF inserts.error = "none" /\ twice THEN [inserts EXCEPT !.error = "twice"] ELSE inserts

-----------------------------------------------------------------------------
(* getText of the tokens from start to stop, of the reduced program. *)

TokensFrom(i, j) ==
  [k \in 1 .. (IF j >= EOFIndex THEN EOFIndex - 1 ELSE j) - i + 1 |-> TokenPiece(i + k - 1)]

TextOf(ops, start, stop) ==
  LET At(i) == {j \in Live(ops) : ops[j].index = i}
      step(acc, n) ==
        LET i == n - 1 IN
        IF i < acc.next THEN acc
        ELSE IF At(i) = {} THEN [text |-> acc.text \o TokensFrom(i, i), next |-> i + 1,
                                 done |-> acc.done]
        ELSE LET j == CHOOSE k \in At(i) : TRUE IN
             [text |-> acc.text \o ops[j].text \o
                         (IF IsReplace(ops[j]) THEN <<>> ELSE TokensFrom(i, i)),
              next |-> IF IsReplace(ops[j]) THEN ops[j].last + 1 ELSE i + 1,
              done |-> acc.done \cup {j}]
      walked == FoldLeft(step, [text |-> <<>>, next |-> start, done |-> {}],
                         [n \in 1 .. stop + 1 |-> n])
      \* what is left at the last token and after it
      Rest(text, j) == IF j \in Live(ops) \ walked.done /\ ops[j].index >= EOFIndex
                       THEN text \o ops[j].text ELSE text
  IN IF stop = EOFIndex THEN FoldLeftDomain(Rest, walked.text, ops) ELSE walked.text

Answer(ops, start, stop) ==
  LET Of(reduced) ==
        [error |-> reduced.error,
         text |-> IF reduced.error = "none" THEN TextOf(reduced.ops, start, stop) ELSE <<>>]
  IN IF ops = <<>> THEN [error |-> "none", text |-> TokensFrom(start, stop)]
     ELSE CHOOSE answer \in {Of(reduced) : reduced \in {Reduced(ops)}} : TRUE

-----------------------------------------------------------------------------
Init ==
  /\ rewrites = <<>>
  /\ edits = 0
  /\ issued = <<>>
  /\ settled = 0
  /\ rolledBack = FALSE
  /\ disturbed = FALSE

Issue(op) ==
  /\ edits < MaxEdits
  /\ edits' = edits + 1
  /\ rewrites' = Append(rewrites, op)
  /\ issued' = Append(issued, op)
  /\ disturbed' = \/ disturbed
                  \/ /\ IsReplace(op)
                     /\ \E i \in 1 .. settled : IsInsert(issued[i]) /\ Within(op, issued[i].index)
  /\ UNCHANGED <<settled, rolledBack>>

ThePiece == <<Piece(edits + 1)>>

InsertBefore ==
  \E i \in 0 .. EOFIndex :
    Issue([kind |-> "before", index |-> i, last |-> i, text |-> ThePiece])

InsertAfter ==
  \E i \in 0 .. EOFIndex :
    Issue([kind |-> "after", index |-> i + 1, last |-> i + 1, text |-> ThePiece])

(* replace; a delete replaces with an empty text. *)
Replace ==
  \E from \in 0 .. EOFIndex, text \in {ThePiece, <<>>} : \E to \in from .. EOFIndex :
    Issue([kind |-> "replace", index |-> from, last |-> to, text |-> text])

(* rollback, and deleteProgram, a rollback to the first instruction. *)
Rollback ==
  \E k \in 0 .. Len(rewrites) - 1 :
    /\ rewrites' = SubSeq(rewrites, 1, k)
    /\ issued' = SubSeq(issued, 1, k)
    /\ rolledBack' = (k > 0 /\ (rolledBack \/ k < settled))
    /\ settled' = IF k < settled THEN k ELSE settled
    /\ disturbed' = (k > 0 /\ disturbed)
    /\ UNCHANGED edits

(* getText, of whatever tokens: it reduces the program itself. *)
GetText ==
  /\ rewrites # <<>>
  /\ rewrites' = Reduced(rewrites).ops
  /\ settled' = Len(rewrites)
  /\ UNCHANGED <<edits, issued, rolledBack, disturbed>>

Next == InsertBefore \/ InsertAfter \/ Replace \/ Rollback \/ GetText

Spec == Init /\ [][Next]_vars

-----------------------------------------------------------------------------
(* What the edits come to. *)

Covered(i) == \E k \in DOMAIN issued : IsReplace(issued[k]) /\ Within(issued[k], i)
IsKept(k) ==
  IF IsReplace(issued[k])
  THEN ~\E j \in k + 1 .. Len(issued) :
          /\ IsReplace(issued[j])
          /\ issued[j].index <= issued[k].index /\ issued[k].last <= issued[j].last
  ELSE ~Covered(issued[k].index)

(* Every token that no replace covers is in the text, in order, and no     *)
(* other.  An edit is there at most once, and once if no replace has taken *)
(* its place, behind the tokens before it and before those behind it.      *)
EditsAreInPlace ==
  \A answer \in {Answer(rewrites, 0, EOFIndex)} :
  LET text == answer.text
  IN (answer.error = "none" /\ ~rolledBack) =>
       /\ SelectSeq(text, LAMBDA piece : piece[1] = "token") =
            SelectSeq(TokensFrom(0, EOFIndex), LAMBDA piece : ~Covered(piece[2]))
       /\ \A k \in {j \in DOMAIN issued : issued[j].text # <<>>} :
            \E places \in {{p \in DOMAIN text : text[p] = issued[k].text[1]}} :
              /\ Cardinality(places) <= 1
              /\ IsKept(k) => places # {}
              /\ \A p \in places, q \in DOMAIN text :
                   text[q][1] = "token" => (q < p <=> text[q][2] < issued[k].index)

(* A text asked for in between does not change what the edits come to,     *)
(* unless something is then rolled back, or replaced where an insert       *)
(* before that text went.                                                  *)
TextsDoNotDisturb ==
  (~rolledBack /\ ~disturbed) =>
    \A start \in 0 .. EOFIndex : \A stop \in start .. EOFIndex :
      Answer(rewrites, start, stop) = Answer(issued, start, stop)

(* The edits come to what was asked for, however often a text is asked for *)
(* on the way, and no two are left at one index (TokenStreamRewriter.ts:   *)
(* reduceToSingleOperationPerIndex, which getText lets change the program).*)
EditsAreCarriedOut ==
  /\ EditsAreInPlace
  /\ TextsDoNotDisturb
  /\ Reduced(rewrites).error # "twice"
=============================================================================
