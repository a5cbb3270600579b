---------------------------- MODULE SmallGrammars ----------------------------
(* Small grammars and their ATNs, laid out as ANTLR lays them out. *)
EXTENDS SerializedATN

(* s : a* C EOF ; a : A B ; *)
LoopATN == Serialized(<<
  State("RULE_START", 1, <<To(2)>>),
  State("STAR_LOOP_ENTRY", 1, <<To(3), To(7)>>),
  State("STAR_BLOCK_START", 1, <<To(4)>>),
  Basic(1, <<Call(2, 11, 5, 0)>>),
  State("BLOCK_END", 1, <<To(6)>>),
  State("STAR_LOOP_BACK", 1, <<To(2)>>),
  State("LOOP_END", 1, <<To(8)>>),
  Basic(1, <<Token(3, 9)>>),
  Basic(1, <<Token(EOF, 10)>>),
  State("RULE_STOP", 1, <<>>),
  State("RULE_START", 2, <<To(12)>>),
  Basic(2, <<Token(1, 13)>>),
  Basic(2, <<Token(2, 14)>>),
  State("RULE_STOP", 2, <<>>)>>, {}, 3)

(* s : A a B EOF | C a EOF ; a : B? ;   what follows a decides. *)
ContextATN == Serialized(<<
  State("RULE_START", 1, <<To(2)>>),
  State("BLOCK_START", 1, <<To(3), To(7)>>),
  Basic(1, <<Token(1, 4)>>),
  Basic(1, <<Call(2, 12, 5, 0)>>),
  Basic(1, <<Token(2, 6)>>),
  Basic(1, <<Token(EOF, 10)>>),
  Basic(1, <<Token(3, 8)>>),
  Basic(1, <<Call(2, 12, 9, 0)>>),
  Basic(1, <<Token(EOF, 10)>>),
  State("BLOCK_END", 1, <<To(11)>>),
  State("RULE_STOP", 1, <<>>),
  State("RULE_START", 2, <<To(13)>>),
  State("BLOCK_START", 2, <<To(14), To(15)>>),
  Basic(2, <<Token(2, 15)>>),
  State("BLOCK_END", 2, <<To(16)>>),
  State("RULE_STOP", 2, <<>>)>>, {}, 3)

(* s : A (B | C) (. D)+ EOF ; *)
SetATN == Serialized(<<
  State("RULE_START", 1, <<To(2)>>),
  Basic(1, <<Token(1, 3)>>),
  Basic(1, <<OneOf({2, 3}, 4)>>),
  State("PLUS_BLOCK_START", 1, <<To(5)>>),
  Basic(1, <<AnyToken(6)>>),
  Basic(1, <<Token(4, 7)>>),
  State("BLOCK_END", 1, <<To(8)>>),
  State("PLUS_LOOP_BACK", 1, <<To(4), To(9)>>),
  State("LOOP_END", 1, <<To(10)>>),
  Basic(1, <<Token(EOF, 11)>>),
  State("RULE_STOP", 1, <<>>)>>, {}, 4)

(* s : st EOF ; st : IF st (ELSE st)? | X ; *)
DanglingATN == Serialized(<<
  State("RULE_START", 1, <<To(2)>>),
  Basic(1, <<Call(2, 5, 3, 0)>>),
  Basic(1, <<Token(EOF, 4)>>),
  State("RULE_STOP", 1, <<>>),
  State("RULE_START", 2, <<To(6)>>),
  State("BLOCK_START", 2, <<To(7), To(13)>>),
  Basic(2, <<Token(1, 8)>>),
  Basic(2, <<Call(2, 5, 9, 0)>>),
  State("BLOCK_START", 2, <<To(10), To(12)>>),
  Basic(2, <<Token(2, 11)>>),
  Basic(2, <<Call(2, 5, 12, 0)>>),
  State("BLOCK_END", 2, <<To(14)>>),
  Basic(2, <<Token(3, 14)>>),
  State("BLOCK_END", 2, <<To(15)>>),
  State("RULE_STOP", 2, <<>>)>>, {}, 3)

(* s : e EOF ; e : e STAR e | e PLUS e | MINUS e | ID ; *)
ExpressionATN == Serialized(<<
  State("RULE_START", 1, <<To(2)>>),
  Basic(1, <<Call(2, 5, 3, 0)>>),
  Basic(1, <<Token(EOF, 4)>>),
  State("RULE_STOP", 1, <<>>),
  State("RULE_START", 2, <<To(6)>>),
  State("BLOCK_START", 2, <<To(7), To(9)>>),
  Basic(2, <<Token(4, 8)>>),
  Basic(2, <<Call(2, 5, 10, 2)>>),
  Basic(2, <<Token(1, 10)>>),
  State("BLOCK_END", 2, <<To(11)>>),
  State("STAR_LOOP_ENTRY", 2, <<To(12), To(21)>>),
  State("STAR_BLOCK_START", 2, <<To(13), To(16)>>),
  Basic(2, <<Prec(4, 14)>>),
  Basic(2, <<Token(2, 15)>>),
  Basic(2, <<Call(2, 5, 19, 5)>>),
  Basic(2, <<Prec(3, 17)>>),
  Basic(2, <<Token(3, 18)>>),
  Basic(2, <<Call(2, 5, 19, 4)>>),
  State("BLOCK_END", 2, <<To(20)>>),
  State("STAR_LOOP_BACK", 2, <<To(11)>>),
  State("LOOP_END", 2, <<To(22)>>),
  State("RULE_STOP", 2, <<>>)>>, {2}, 4)

(* e : <assoc=right> e STAR e | ID ;   the parse starts in a left-recursive rule. *)
RecursiveStartATN == Serialized(<<
  State("RULE_START", 1, <<To(2)>>),
  Basic(1, <<Token(1, 3)>>),
  State("STAR_LOOP_ENTRY", 1, <<To(4), To(10)>>),
  State("STAR_BLOCK_START", 1, <<To(5)>>),
  Basic(1, <<Prec(2, 6)>>),
  Basic(1, <<Token(2, 7)>>),
  Basic(1, <<Call(1, 1, 8, 2)>>),
  State("BLOCK_END", 1, <<To(9)>>),
  State("STAR_LOOP_BACK", 1, <<To(3)>>),
  State("LOOP_END", 1, <<To(11)>>),
  State("RULE_STOP", 1, <<>>)>>, {1}, 2)

(* s : ({never}? A | A {...} B | B {never}? C) EOF ; *)
PredicateATN == Serialized(<<
  State("RULE_START", 1, <<To(2)>>),
  State("BLOCK_START", 1, <<To(3), To(5), To(8)>>),
  Basic(1, <<Pred("never", 4)>>),
  Basic(1, <<Token(1, 11)>>),
  Basic(1, <<Token(1, 6)>>),
  Basic(1, <<Action(7)>>),
  Basic(1, <<Token(2, 11)>>),
  Basic(1, <<Token(2, 9)>>),
  Basic(1, <<Pred("never", 10)>>),
  Basic(1, <<Token(3, 11)>>),
  State("BLOCK_END", 1, <<To(12)>>),
  Basic(1, <<Token(EOF, 13)>>),
  State("RULE_STOP", 1, <<>>)>>, {}, 3)

(* s : A a B EOF | C a D EOF ; a : X ; *)
CallersATN == Serialized(<<
  State("RULE_START", 1, <<To(2)>>),
  State("BLOCK_START", 1, <<To(3), To(7)>>),
  Basic(1, <<Token(1, 4)>>),
  Basic(1, <<Call(2, 13, 5, 0)>>),
  Basic(1, <<Token(2, 6)>>),
  Basic(1, <<Token(EOF, 11)>>),
  Basic(1, <<Token(3, 8)>>),
  Basic(1, <<Call(2, 13, 9, 0)>>),
  Basic(1, <<Token(4, 10)>>),
  Basic(1, <<Token(EOF, 11)>>),
  State("BLOCK_END", 1, <<To(12)>>),
  State("RULE_STOP", 1, <<>>),
  State("RULE_START", 2, <<To(14)>>),
  Basic(2, <<Token(5, 15)>>),
  State("RULE_STOP", 2, <<>>)>>, {}, 5)

(* s : a B C EOF ; a : A? ; *)
OptionalATN == Serialized(<<
  State("RULE_START", 1, <<To(2)>>),
  Basic(1, <<Call(2, 7, 3, 0)>>),
  Basic(1, <<Token(2, 4)>>),
  Basic(1, <<Token(3, 5)>>),
  Basic(1, <<Token(EOF, 6)>>),
  State("RULE_STOP", 1, <<>>),
  State("RULE_START", 2, <<To(8)>>),
  State("BLOCK_START", 2, <<To(9), To(10)>>),
  Basic(2, <<Token(1, 10)>>),
  State("BLOCK_END", 2, <<To(11)>>),
  State("RULE_STOP", 2, <<>>)>>, {}, 3)

(* s : x x EOF ; x : A B a C ; a : A? ;   errors before an optional rule.     *)
TwiceATN == Serialized(<<
  State("RULE_START", 1, <<To(2)>>),
  Basic(1, <<Call(2, 6, 3, 0)>>),
  Basic(1, <<Call(2, 6, 4, 0)>>),
  Basic(1, <<Token(EOF, 5)>>),
  State("RULE_STOP", 1, <<>>),
  State("RULE_START", 2, <<To(7)>>),
  Basic(2, <<Token(1, 8)>>),
  Basic(2, <<Token(2, 9)>>),
  Basic(2, <<Call(3, 12, 10, 0)>>),
  Basic(2, <<Token(3, 11)>>),
  State("RULE_STOP", 2, <<>>),
  State("RULE_START", 3, <<To(13)>>),
  State("BLOCK_START", 3, <<To(14), To(15)>>),
  Basic(3, <<Token(1, 15)>>),
  State("BLOCK_END", 3, <<To(16)>>),
  State("RULE_STOP", 3, <<>>)>>, {}, 3)

(* s : a* EOF ; a : {...} {never}? A | B ;   the action hides the predicate  *)
(* from the prediction: a fails at A without consuming it, time and again. *)
HiddenPredicateATN == Serialized(<<
  State("RULE_START", 1, <<To(2)>>),
  State("STAR_LOOP_ENTRY", 1, <<To(3), To(7)>>),
  State("STAR_BLOCK_START", 1, <<To(4)>>),
  Basic(1, <<Call(2, 10, 5, 0)>>),
  State("BLOCK_END", 1, <<To(6)>>),
  State("STAR_LOOP_BACK", 1, <<To(2)>>),
  State("LOOP_END", 1, <<To(8)>>),
  Basic(1, <<Token(EOF, 9)>>),
  State("RULE_STOP", 1, <<>>),
  State("RULE_START", 2, <<To(11)>>),
  State("BLOCK_START", 2, <<To(12), To(15)>>),
  Basic(2, <<Action(13)>>),
  Basic(2, <<Pred("never", 14)>>),
  Basic(2, <<Token(1, 16)>>),
  Basic(2, <<Token(2, 16)>>),
  State("BLOCK_END", 2, <<To(17)>>),
  State("RULE_STOP", 2, <<>>)>>, {}, 3)

(* s : ({p}? A | {q}? A | {p}? B) (C | D) EOF ;   predicates tell two         *)
(* alternatives apart and may refuse the third, for which one token is       *)
(* enough; the second decision needs one token.                              *)
PredicatedATN == Serialized(<<
  State("RULE_START", 1, <<To(2)>>),
  State("BLOCK_START", 1, <<To(3), To(5), To(7)>>),
  Basic(1, <<Pred("p", 4)>>),
  Basic(1, <<Token(1, 8)>>),
  Basic(1, <<Pred("q", 6)>>),
  Basic(1, <<Token(1, 8)>>),
  Basic(1, <<Pred("p", 15)>>),
  State("BLOCK_END", 1, <<To(9)>>),
  State("BLOCK_START", 1, <<To(10), To(11)>>),
  Basic(1, <<Token(3, 12)>>),
  Basic(1, <<Token(4, 12)>>),
  State("BLOCK_END", 1, <<To(13)>>),
  Basic(1, <<Token(EOF, 14)>>),
  State("RULE_STOP", 1, <<>>),
  Basic(1, <<Token(2, 8)>>)>>, {}, 4)

(* s : a ; t : a B ; a : {p}? A | {q}? A C? ;   a conflict that both          *)
(* alternatives' predicates may refuse.                                      *)
RefusedATN == Serialized(<<
  State("RULE_START", 1, <<To(2)>>),
  Basic(1, <<Call(3, 7, 3, 0)>>),
  State("RULE_STOP", 1, <<>>),
  State("RULE_START", 2, <<To(5)>>),
  Basic(2, <<Call(3, 7, 6, 0)>>),
  Basic(2, <<Token(2, 17)>>),
  State("RULE_START", 3, <<To(8)>>),
  State("BLOCK_START", 3, <<To(9), To(11)>>),
  Basic(3, <<Pred("p", 10)>>),
  Basic(3, <<Token(1, 15)>>),
  Basic(3, <<Pred("q", 12)>>),
  Basic(3, <<Token(1, 13)>>),
  State("BLOCK_START", 3, <<To(14), To(18)>>),
  Basic(3, <<Token(3, 18)>>),
  State("BLOCK_END", 3, <<To(16)>>),
  State("RULE_STOP", 3, <<>>),
  State("RULE_STOP", 2, <<>>),
  State("BLOCK_END", 3, <<To(15)>>)>>, {}, 3)

(* s : a EOF ; a : c | b ; b : c ; c : A B ;   two ways to the same rule.     *)
TwoWaysATN == Serialized(<<
  State("RULE_START", 1, <<To(2)>>),
  Basic(1, <<Call(2, 5, 3, 0)>>),
  Basic(1, <<Token(EOF, 4)>>),
  State("RULE_STOP", 1, <<>>),
  State("RULE_START", 2, <<To(6)>>),
  State("BLOCK_START", 2, <<To(7), To(8)>>),
  Basic(2, <<Call(4, 14, 18, 0)>>),
  Basic(2, <<Call(3, 11, 19, 0)>>),
  State("BLOCK_END", 2, <<To(10)>>),
  State("RULE_STOP", 2, <<>>),
  State("RULE_START", 3, <<To(12)>>),
  Basic(3, <<Call(4, 14, 13, 0)>>),
  State("RULE_STOP", 3, <<>>),
  State("RULE_START", 4, <<To(15)>>),
  Basic(4, <<Token(1, 16)>>),
  Basic(4, <<Token(2, 17)>>),
  State("RULE_STOP", 4, <<>>),
  Basic(2, <<To(9)>>),
  Basic(2, <<To(9)>>)>>, {}, 2)

(* s : (a | B | C B) {p}? EOF ; a : A ;   a call of a rule that matches one   *)
(* token, in a set of alternatives.                                          *)
InlinedATN == Serialized(<<
  State("RULE_START", 1, <<To(2)>>),
  State("BLOCK_START", 1, <<To(3), To(4), To(5)>>),
  Basic(1, <<Call(2, 12, 7, 0)>>),
  Basic(1, <<Token(2, 7)>>),
  Basic(1, <<Token(3, 6)>>),
  Basic(1, <<Token(2, 7)>>),
  State("BLOCK_END", 1, <<To(8)>>),
  Basic(1, <<To(9)>>),
  Basic(1, <<Pred("p", 10)>>),
  Basic(1, <<Token(EOF, 11)>>),
  State("RULE_STOP", 1, <<>>),
  State("RULE_START", 2, <<To(13)>>),
  Basic(2, <<Token(1, 14)>>),
  Basic(2, <<To(15)>>),
  State("RULE_STOP", 2, <<>>)>>, {}, 3)

(* t : s B | A C ; s : n A ; n : ;   a rule that matches nothing before a token. *)
NothingATN == Serialized(<<
  State("RULE_START", 1, <<To(2)>>),
  State("BLOCK_START", 1, <<To(3), To(5)>>),
  Basic(1, <<Call(2, 9, 4, 0)>>),
  Basic(1, <<Token(2, 7)>>),
  Basic(1, <<Token(1, 6)>>),
  Basic(1, <<Token(3, 7)>>),
  State("BLOCK_END", 1, <<To(8)>>),
  State("RULE_STOP", 1, <<>>),
  State("RULE_START", 2, <<To(10)>>),
  Basic(2, <<Call(3, 14, 11, 0)>>),
  Basic(2, <<Token(1, 12)>>),
  Basic(2, <<To(13)>>),
  State("RULE_STOP", 2, <<>>),
  State("RULE_START", 3, <<To(15)>>),
  Basic(3, <<To(16)>>),
  State("RULE_STOP", 3, <<>>)>>, {}, 3)
=============================================================================
