----------------------------- MODULE ShellArith ----------------------------
(***************************************************************************)
(* The shell's $((...)) (user/sh.c, arith_eval and the arith_ functions):  *)
(* a parser that evaluates as it reads.  The operand that does not count   *)
(* (of &&, || and ?:) is read too, with live = FALSE, and must have no     *)
(* effect.                                                                 *)
(*                                                                         *)
(* An expression is a tree, written down as tokens with the parentheses    *)
(* the grammar calls for.  Eval says what the tree means; arith_eval is    *)
(* the code's reading of the tokens.  Numbers are ArWidth bits wide, kept  *)
(* as unsigned; a variable that does not hold a number is NotANumber.      *)
(***************************************************************************)
EXTENDS Integers, Sequences, Bitwise

CONSTANTS
  ArWidth,       \* the bits of a long
  ArOperators,   \* the binary operators used
  ArDepth        \* how many operators an expression has

ArAssumption == ArWidth \in Nat \ {0} /\ ArDepth \in Nat

VARIABLE expr, levels
arVars == <<expr, levels>>

Whole == 2 ^ ArWidth
HalfWord == 2 ^ (ArWidth - 1)
NotANumber == -1
Signed(v) == IF v >= HalfWord THEN v - Whole ELSE v
Word(n) == n % Whole
Bool(b) == IF b THEN 1 ELSE 0

-----------------------------------------------------------------------------
(***************************************************************************)
(* The operators, loosest first, and what they give.                       *)
(***************************************************************************)
OpLevels == <<{"||"}, {"&&"}, {"|"}, {"^"}, {"&"}, {"==", "!="}, {"<", "<=", ">", ">="},
            {"<<", ">>"}, {"+", "-"}, {"*", "/", "%"}>>
LevelOf(op) == CHOOSE k \in DOMAIN OpLevels : op \in OpLevels[k]
Unary == Len(OpLevels) + 1

\* C's division goes towards 0.
Quotient(a, b) ==
  LET abs(n) == IF n < 0 THEN -n ELSE n
      q == abs(a) \div abs(b)
  IN  IF (a < 0) # (b < 0) THEN -q ELSE q
ShiftedRight(v, n) == Word(Signed(v) \div (2 ^ n))

Divided(op, v, w) ==
  IF w = Word(-1) THEN (IF op = "/" THEN Word(0 - v) ELSE 0)
  ELSE IF op = "/" THEN Word(Quotient(Signed(v), Signed(w)))
  ELSE Word(Signed(v) - Quotient(Signed(v), Signed(w)) * Signed(w))

OpGives(op, v, w) ==
  CASE op = "||" -> Bool(v # 0 \/ w # 0)
    [] op = "&&" -> Bool(v # 0 /\ w # 0)
    [] op = "|" -> v | w
    [] op = "^" -> v ^^ w
    [] op = "&" -> v & w
    [] op = "==" -> Bool(v = w)
    [] op = "!=" -> Bool(v # w)
    [] op = "<" -> Bool(Signed(v) < Signed(w))
    [] op = "<=" -> Bool(Signed(v) <= Signed(w))
    [] op = ">" -> Bool(Signed(v) > Signed(w))
    [] op = ">=" -> Bool(Signed(v) >= Signed(w))
    [] op = "<<" -> Word(v * 2 ^ (w % ArWidth))
    [] op = ">>" -> ShiftedRight(v, w % ArWidth)
    [] op = "+" -> Word(v + w)
    [] op = "-" -> Word(v - w)
    [] op = "*" -> Word(v * w)
    [] op \in {"/", "%"} -> IF w = 0 THEN 0 ELSE Divided(op, v, w)
Fails(op, w) == op \in {"/", "%"} /\ w = 0

-----------------------------------------------------------------------------
(***************************************************************************)
(* The parser: A = [p, error, x], the variables being in x.  Every         *)
(* function gives [v, A].                                                  *)
(***************************************************************************)
Gave(v, A) == [v |-> v, A |-> A]
TokenAt(e, A) == IF A.p > Len(e) THEN "end" ELSE e[A.p]
Past(A, n) == [A EXCEPT !.p = @ + n]
ArError(A) == [A EXCEPT !.error = TRUE]
ArNames == {"x", "n"}
Digits == [d \in {"0", "1", "3", "min"} |-> IF d = "min" THEN HalfWord ELSE IF d = "3" THEN 3 ELSE IF d = "1" THEN 1 ELSE 0]

\* The number a variable holds: an error only where it counts.
arith_variable(A, name, live) ==
  IF ~live THEN Gave(0, A)
  ELSE IF A.x[name] = NotANumber THEN Gave(0, ArError(A)) ELSE Gave(A.x[name], A)
\* Mutant of arith_store: the operand that does not count is stored too
arith_store_always(A, name, v, live) == IF A.error THEN Gave(v, A) ELSE Gave(v, [A EXCEPT !.x[name] = v])
arith_store(A, name, v, live) ==
  IF ~live \/ A.error THEN Gave(v, A) ELSE Gave(v, [A EXCEPT !.x[name] = v])

RECURSIVE arith_assign(_, _, _), arith_conditional(_, _, _), arith_level(_, _, _, _), arith_more(_, _, _, _)
RECURSIVE arith_unary(_, _, _)
Stepped(op) == IF op = "++" THEN 1 ELSE -1
closed(e, I) == IF TokenAt(e, I.A) = ")" THEN Gave(I.v, Past(I.A, 1)) ELSE Gave(0, ArError(I.A))
stepped_after(e, name, V, live) ==
  LET op == TokenAt(e, V.A) IN
  IF op \in {"++", "--"} THEN Gave(V.v, arith_store(Past(V.A, 1), name, Word(V.v + Stepped(op)), live).A) ELSE V
arith_primary(e, A, live) ==
  LET t == TokenAt(e, A) IN
  CASE t = "(" ->
         closed(e, arith_assign(e, Past(A, 1), live))
    [] t \in DOMAIN Digits -> Gave(Digits[t], Past(A, 1))
    [] t \in ArNames ->
         stepped_after(e, t, arith_variable(Past(A, 1), t, live), live)
    [] OTHER -> Gave(0, ArError(A))

stepped_before(op, name, V, live) == arith_store(V.A, name, Word(V.v + Stepped(op)), live)
signed(op, U) ==
  Gave(CASE op = "!" -> Bool(U.v = 0) [] op = "~" -> Word(-1 - U.v) [] op = "-" -> Word(0 - U.v), U.A)
arith_unary(e, A, live) ==
  LET op == TokenAt(e, A)
      name == TokenAt(e, Past(A, 1))
  IN  IF op \in {"!", "~", "-"} THEN signed(op, arith_unary(e, Past(A, 1), live))
      ELSE IF op \in {"++", "--"} /\ name \in ArNames
      THEN stepped_before(op, name, arith_variable(Past(A, 2), name, live), live)
      ELSE arith_primary(e, A, live)

Counts(op, v, live) == live /\ (op = "&&" => v # 0) /\ (op = "||" => v = 0)
\* arith_or down to arith_mul: one level of binary operators, left to right.
combined(op, L, R, live) ==
  Gave(OpGives(op, L.v, R.v), IF live /\ Fails(op, R.v) THEN ArError(R.A) ELSE R.A)
arith_more(k, e, L, live) ==
  LET op == TokenAt(e, L.A) IN
  IF op \notin OpLevels[k] THEN L
  ELSE arith_more(k, e, combined(op, L, arith_level(k + 1, e, Past(L.A, 1), Counts(op, L.v, live)), live), live)
arith_level(k, e, A, live) ==
  IF k = Unary THEN arith_unary(e, A, live) ELSE arith_more(k, e, arith_level(k + 1, e, A, live), live)

cond_other(C, X, Y) == Gave(IF C.v # 0 THEN X.v ELSE Y.v, Y.A)
cond_chosen(e, C, X, live) ==
  IF TokenAt(e, X.A) # ":" THEN Gave(0, ArError(X.A))
  ELSE cond_other(C, X, arith_conditional(e, Past(X.A, 1), live /\ C.v = 0))
cond_rest(e, C, live) ==
  IF TokenAt(e, C.A) # "?" THEN C ELSE cond_chosen(e, C, arith_assign(e, Past(C.A, 1), live /\ C.v # 0), live)
arith_conditional(e, A, live) == cond_rest(e, arith_level(1, e, A, live), live)

\* "-=" and "/=" stand for the operators that read the variable, which they
\* do after the right side.
Assigns == [t \in {"-=", "/="} |-> IF t = "-=" THEN "-" ELSE "/"]
assigned(op, name, W, V, live) ==
  IF op = "=" THEN arith_store(W.A, name, W.v, live)
  ELSE IF Fails(Assigns[op], W.v) THEN Gave(0, IF live THEN ArError(V.A) ELSE V.A)
  ELSE arith_store(V.A, name, OpGives(Assigns[op], V.v, W.v), live)
assign_to(op, name, W, live) == assigned(op, name, W, arith_variable(W.A, name, live), live)
arith_assign(e, A, live) ==
  LET name == TokenAt(e, A)
      op == TokenAt(e, Past(A, 1))
  IN  IF name \in ArNames /\ op \in {"="} \cup DOMAIN Assigns
      THEN assign_to(op, name, arith_assign(e, Past(A, 2), live), live)
      ELSE arith_conditional(e, A, live)

ArStart == [x |-> 1, n |-> NotANumber]
at_end(e, E) == IF TokenAt(e, E.A) = "end" THEN E ELSE Gave(E.v, ArError(E.A))
arith_eval(e) == at_end(e, arith_assign(e, [p |-> 1, error |-> FALSE, x |-> ArStart], TRUE))

-----------------------------------------------------------------------------
(***************************************************************************)
(* Trees [op, l, m, r], how they are written, and what they mean.          *)
(***************************************************************************)
NoTree == <<>>
Leaf(t) == [op |-> t, l |-> NoTree, m |-> NoTree, r |-> NoTree]
Tree1(op, l) == [op |-> op, l |-> l, m |-> NoTree, r |-> NoTree]
Tree2(op, l, r) == [op |-> op, l |-> l, m |-> NoTree, r |-> r]
IsAssign(op) == op \in {"=", "-=", "/="}
Steps == {"pre++", "pre--", "post++", "post--"}
\* How tightly a tree holds together: -1 for an assignment, 0 for ?:.
Holds(t) ==
  CASE IsAssign(t.op) -> -1
    [] t.op = "?" -> 0
    [] t.op \in {"!", "~", "neg"} \cup Steps -> Unary
    [] t.op \in DOMAIN Digits \cup ArNames -> Unary
    [] OTHER -> LevelOf(t.op)

RECURSIVE Written(_)
Wrapped(t, k) == IF Holds(t) >= k THEN Written(t) ELSE <<"(">> \o Written(t) \o <<")">>
Written(t) ==
  CASE t.op \in DOMAIN Digits \cup ArNames -> <<t.op>>
    [] t.op = "pre++" -> <<"++", t.l.op>>
    [] t.op = "pre--" -> <<"--", t.l.op>>
    [] t.op = "post++" -> <<t.l.op, "++">>
    [] t.op = "post--" -> <<t.l.op, "--">>
    [] t.op = "neg" -> <<"-">> \o Wrapped(t.l, Unary)
    [] t.op \in {"!", "~"} -> <<t.op>> \o Wrapped(t.l, Unary)
    [] IsAssign(t.op) -> <<t.l.op, t.op>> \o Written(t.r)
    [] t.op = "?" -> Wrapped(t.l, 1) \o <<"?">> \o Written(t.m) \o <<":">> \o Wrapped(t.r, 0)
    [] OTHER -> Wrapped(t.l, LevelOf(t.op)) \o <<t.op>> \o Wrapped(t.r, LevelOf(t.op) + 1)

\* What a tree means: [v, ok, x].  Once something failed, nothing more happens.
RECURSIVE Eval(_, _)
Known(x, name) == [v |-> x[name], ok |-> x[name] # NotANumber, x |-> x]
SetTo(E, name, v) == IF E.ok THEN [v |-> v, ok |-> TRUE, x |-> [E.x EXCEPT ![name] = v]] ELSE E
Binary(op, a, E) == [E EXCEPT !.ok = E.ok /\ ~Fails(op, E.v), !.v = OpGives(op, a, E.v)]
Eval(t, x) ==
  LET L == Eval(t.l, x)
      M == Eval(t.r, L.x)
      Rt == Eval(t.r, x)
  IN
  CASE t.op \in DOMAIN Digits -> [v |-> Digits[t.op], ok |-> TRUE, x |-> x]
    [] t.op \in ArNames -> Known(x, t.op)
    [] t.op \in {"pre++", "pre--"} ->
         LET K == Known(x, t.l.op) IN SetTo(K, t.l.op, Word(K.v + (IF t.op = "pre++" THEN 1 ELSE -1)))
    [] t.op \in {"post++", "post--"} ->
         LET K == Known(x, t.l.op)
             after == SetTo(K, t.l.op, Word(K.v + (IF t.op = "post++" THEN 1 ELSE -1)))
         IN  [after EXCEPT !.v = K.v]
    [] t.op = "neg" -> [L EXCEPT !.v = Word(0 - L.v)]
    [] t.op = "!" -> [L EXCEPT !.v = Bool(L.v = 0)]
    [] t.op = "~" -> [L EXCEPT !.v = Word(Whole - 1 - L.v)]
    [] t.op = "=" -> SetTo(Rt, t.l.op, Rt.v)
    [] t.op \in DOMAIN Assigns ->
         LET K == Known(Rt.x, t.l.op)
             V == Binary(Assigns[t.op], K.v, Rt)
         IN  IF ~Rt.ok THEN Rt ELSE IF ~K.ok THEN K ELSE SetTo(V, t.l.op, V.v)
    [] t.op = "?" -> IF ~L.ok THEN L ELSE IF L.v # 0 THEN Eval(t.m, L.x) ELSE Eval(t.r, L.x)
    [] t.op = "&&" -> IF ~L.ok \/ L.v = 0 THEN L ELSE [M EXCEPT !.v = Bool(M.v # 0)]
    [] t.op = "||" -> IF ~L.ok THEN L ELSE IF L.v # 0 THEN [L EXCEPT !.v = 1] ELSE [M EXCEPT !.v = Bool(M.v # 0)]
    [] OTHER -> IF ~L.ok THEN L ELSE IF ~M.ok THEN M ELSE Binary(t.op, L.v, M)

-----------------------------------------------------------------------------
\* An expression grows by an operator around it.
Leaves == {Leaf(d) : d \in DOMAIN Digits \ {"0"}} \cup {Leaf("x"), Leaf("n"), Tree1("post++", Leaf("x")), Tree1("pre--", Leaf("x"))}
grow ==
  /\ levels < ArDepth
  /\ levels' = levels + 1
  /\ \/ \E op \in ArOperators, f \in Leaves : expr' = Tree2(op, expr, f) \/ expr' = Tree2(op, f, expr)
     \/ \E op \in {"!", "~", "neg"} : expr' = Tree1(op, expr)
     \/ \E op \in {"=", "-=", "/="} : expr' = Tree2(op, Leaf("x"), expr)
     \/ \E f \in Leaves, other \in {Leaf("1"), Tree1("post++", Leaf("x"))} :
          expr' \in {[op |-> "?", l |-> expr, m |-> f, r |-> other],
                     [op |-> "?", l |-> other, m |-> expr, r |-> f],
                     [op |-> "?", l |-> f, m |-> other, r |-> expr]}
choose_leaf == levels = 0 /\ expr = Leaf("0") /\ expr' \in Leaves /\ UNCHANGED levels

ArInit == expr = Leaf("0") /\ levels = 0
ArNext == grow \/ choose_leaf

\* Reading the tokens gives what the tree means: operators bind and group as
\* in C, nothing is divided by zero or stored in the
\* operand that does not count, an error stops every later store, and the
\* text is read to its end (arith_assign down to arith_primary).
ArithmeticIsC ==
  LET E == arith_eval(Written(expr))
      T == Eval(expr, ArStart)
  IN  /\ E.A.error = ~T.ok
      /\ E.A.x = T.x
      /\ T.ok => E.v = T.v
=============================================================================
