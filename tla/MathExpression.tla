--------------------------- MODULE MathExpression ---------------------------
(***************************************************************************)
(* The expressions of members_encode and members_decode                    *)
(* (math_expression.cpp).  Both parsers are recursive descents that        *)
(* evaluate as they go, left to right; here one descent builds the tree,   *)
(* and the two evaluations walk it in that order.  Tokens stand for their  *)
(* text.  sqrt and the trigonometric functions are left out.               *)
(***************************************************************************)
EXTENDS ScalarCodec, SequencesExt

CONSTANT Limit   \* the largest exact integer (2^127 - 1)

ASSUME LimitAssumption == Limit \in Nat

\* Tokens: operators and parentheses by themselves, and leaves.
Symbol(s) == [t |-> s, arg |-> 0]
Leaf(t, a) == [t |-> t, arg |-> a]     \* "int", "decimal", "name", "pi" or a function
Functions1 == {"abs", "floor", "round"}
Functions2 == {"min", "max"}
Functions == Functions1 \cup Functions2 \cup {"clamp"}

Tree(op, args) == [op |-> op, arg |-> 0, args |-> args]
LeafTree(token) == [op |-> token.t, arg |-> token.arg, args |-> <<>>]

-----------------------------------------------------------------------------
(* The descent: a tree and the position after it; position 0 is an error.   *)

NoParse == [tree |-> 0, pos |-> 0]
At(toks, p) == IF p \in DOMAIN toks THEN toks[p].t ELSE "end"

RECURSIVE Expression(_, _), SumTail(_, _), Product(_, _), ProductTail(_, _),
          Unary(_, _), Primary(_, _), Arguments(_, _, _)

Expression(toks, p) == SumTail(toks, Product(toks, p))

SumTail(toks, left) ==
    IF left.pos = 0 \/ At(toks, left.pos) \notin {"+", "-"} THEN left
    ELSE LET right == Product(toks, left.pos + 1) IN
         IF right.pos = 0 THEN NoParse
         ELSE SumTail(toks, [tree |-> Tree(At(toks, left.pos), <<left.tree, right.tree>>),
                             pos |-> right.pos])

Product(toks, p) == ProductTail(toks, Unary(toks, p))

ProductTail(toks, left) ==
    IF left.pos = 0 \/ At(toks, left.pos) \notin {"*", "/", "%"} THEN left
    ELSE LET right == Unary(toks, left.pos + 1) IN
         IF right.pos = 0 THEN NoParse
         ELSE ProductTail(toks, [tree |-> Tree(At(toks, left.pos), <<left.tree, right.tree>>),
                                 pos |-> right.pos])

Unary(toks, p) ==
    CASE At(toks, p) = "+" -> Unary(toks, p + 1)
      [] At(toks, p) = "-" -> LET u == Unary(toks, p + 1) IN
                              IF u.pos = 0 THEN u ELSE [u EXCEPT !.tree = Tree("neg", <<@>>)]
      [] OTHER             -> Primary(toks, p)

Primary(toks, p) ==
    LET here == At(toks, p) IN
    CASE here = "(" -> LET e == Expression(toks, p + 1) IN
                       IF e.pos = 0 \/ At(toks, e.pos) # ")" THEN NoParse
                       ELSE [e EXCEPT !.pos = @ + 1]
      [] here \in Functions /\ At(toks, p + 1) = "(" ->
              IF At(toks, p + 2) = ")" THEN [tree |-> Tree(here, <<>>), pos |-> p + 3]
              ELSE LET e == Arguments(toks, p + 2, <<>>) IN
                   IF e.pos = 0 THEN e ELSE [e EXCEPT !.tree = Tree(here, @)]
      [] here \in {"int", "decimal", "name", "pi"} -> [tree |-> LeafTree(toks[p]), pos |-> p + 1]
      [] OTHER -> NoParse

\* The arguments of a call, and its closing parenthesis.
Arguments(toks, p, args) ==
    LET e == Expression(toks, p) IN
    CASE e.pos = 0                -> NoParse
      [] At(toks, e.pos) = ","    -> Arguments(toks, e.pos + 1, Append(args, e.tree))
      [] At(toks, e.pos) = ")"    -> [tree |-> Append(args, e.tree), pos |-> e.pos + 1]
      [] OTHER                    -> NoParse

\* Nothing may follow an expression.
Parse(toks) ==
    LET e == Expression(toks, 1) IN IF e.pos = Len(toks) + 1 THEN e ELSE NoParse

-----------------------------------------------------------------------------
(* The exact evaluation: a value, an error, or "float" at the first operand  *)
(* that is not an exact integer.                                             *)

Exactly(v) == IF v \in (-Limit - 1)..Limit THEN [is |-> "value", value |-> v]
              ELSE [is |-> "error", value |-> 0]
Error == [is |-> "error", value |-> 0]
Floating == [is |-> "float", value |-> 0]

\* C++ division truncates toward zero.
Magnitude(v) == IF v < 0 THEN -v ELSE v
Quotient(a, b) == LET q == Magnitude(a) \div Magnitude(b) IN IF (a < 0) = (b < 0) THEN q ELSE -q

Integral(op, a, b) ==
    CASE op = "+" -> Exactly(a + b)
      [] op = "-" -> Exactly(a - b)
      [] op = "*" -> Exactly(a * b)
      [] op \in {"/", "%"} /\ (b = 0 \/ (a = -Limit - 1 /\ b = -1)) -> Error
      [] op = "/" /\ b # 0 -> Exactly(Quotient(a, b))
      [] op = "%" /\ b # 0 -> Exactly(a - b * Quotient(a, b))

\* names: what the resolver knows, [exact |-> whether, value |-> integer or double].
RECURSIVE Exact(_, _)
Exact(e, names) ==
    CASE e.op = "int" -> Exactly(e.arg)
      [] e.op = "name" -> IF e.arg \notin DOMAIN names THEN Error
                          ELSE IF names[e.arg].exact THEN Exactly(names[e.arg].value) ELSE Floating
      [] e.op \in {"decimal", "pi"} \cup Functions -> Floating
      [] e.op = "neg" -> LET a == Exact(e.args[1], names) IN
                         IF a.is # "value" THEN a
                         ELSE IF a.value = -Limit - 1 THEN Error ELSE Exactly(-a.value)
      [] e.op \in {"+", "-", "*", "/", "%"} ->
              LET a == Exact(e.args[1], names)
                  b == Exact(e.args[2], names) IN
              IF a.is # "value" THEN a ELSE IF b.is # "value" THEN b
              ELSE Integral(e.op, a.value, b.value)

-----------------------------------------------------------------------------
(* The floating evaluation, in rationals: rounding and overflow of doubles   *)
(* are left out, but for the integers that enter it (Double).                *)

Frac(n, d) == IF d < 0 THEN <<-n, -d>> ELSE <<n, d>>
Less(x, y) == x[1] * y[2] < y[1] * x[2]
SameNumber(x, y) == x[1] * y[2] = y[1] * x[2]
Lesser(x, y) == IF Less(y, x) THEN y ELSE x
Greater(x, y) == IF Less(x, y) THEN y ELSE x

Real2(op, x, y) ==
    CASE op = "+" -> Good(<<x[1] * y[2] + y[1] * x[2], x[2] * y[2]>>)
      [] op = "-" -> Good(<<x[1] * y[2] - y[1] * x[2], x[2] * y[2]>>)
      [] op = "*" -> Good(<<x[1] * y[1], x[2] * y[2]>>)
      [] op = "/" -> IF y[1] = 0 THEN Failed ELSE Good(Frac(x[1] * y[2], x[2] * y[1]))
      [] op = "%" -> Failed              \* the floating parser has no remainder

\* call
Call(name, xs) ==
    CASE name \in Functions1 /\ Len(xs) = 1 ->
              Good(CASE name = "abs"   -> <<Magnitude(xs[1][1]), xs[1][2]>>
                     [] name = "floor" -> <<xs[1][1] \div xs[1][2], 1>>
                     [] name = "round" -> <<Round(xs[1]), 1>>)
      [] name \in Functions2 /\ Len(xs) = 2 ->
              Good(IF name = "min" THEN Lesser(xs[1], xs[2]) ELSE Greater(xs[1], xs[2]))
      [] name = "clamp" /\ Len(xs) = 3 -> Good(Lesser(Greater(xs[1], xs[2]), xs[3]))
      [] OTHER -> Failed

RECURSIVE Floated(_, _)
Floated(e, names) ==
    LET args == [i \in DOMAIN e.args |-> Floated(e.args[i], names)]
        xs == [i \in DOMAIN args |-> args[i].value] IN
    CASE \E i \in DOMAIN args : ~args[i].ok -> Failed
      [] e.op = "int"     -> Good(Double(e.arg))
      [] e.op = "decimal" -> Good(e.arg)
      [] e.op = "pi"      -> Good(<<22, 7>>)
      [] e.op = "name" -> IF e.arg \notin DOMAIN names THEN Failed
                          ELSE IF names[e.arg].exact THEN Good(Double(names[e.arg].value))
                          ELSE IF names[e.arg].value = NonFinite THEN Failed
                          ELSE Good(names[e.arg].value)
      [] e.op = "neg" /\ args[1].ok -> Good(<<-xs[1][1], xs[1][2]>>)
      [] Len(args) = 2 /\ e.op \in {"+", "-", "*", "/", "%"} /\ args[1].ok /\ args[2].ok ->
              Real2(e.op, xs[1], xs[2])
      [] e.op \in Functions /\ (\A i \in DOMAIN args : args[i].ok) -> Call(e.op, xs)
=============================================================================
