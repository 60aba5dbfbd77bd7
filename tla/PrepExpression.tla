--------------------------- MODULE PrepExpression ---------------------------
(***************************************************************************)
(* The value of the condition of #if and #elif: the recursive descent      *)
(* parser of directive.c, which computes while it parses.                  *)
(*                                                                         *)
(* A token is a record whose k is "num", with a value v and whether it is  *)
(* unsigned, "name", "defined" or the operator itself.  Numbers have    *)
(* Width bits instead of 64.  A result is [at, v, u, err]: the token       *)
(* behind the expression, its value and type, and err is "error" when the  *)
(* compiler exits and "undefined" when it computes something C does not    *)
(* define (overflow of a signed number, a shift by too much).              *)
(***************************************************************************)
EXTENDS Integers, Sequences, Bitwise

CONSTANT Width
ASSUME WidthAssumption == Width \in Nat \ {0, 1}

Num(v) == [k |-> "num", v |-> v, u |-> FALSE]
NumU(v) == [k |-> "num", v |-> v, u |-> TRUE]
Op(k) == [k |-> k]
Ident(n) == [k |-> "name", name |-> n]
IsDefined(n) == [k |-> "defined", name |-> n]

SignedMax == 2^(Width - 1) - 1
SignedMin == -(2^(Width - 1))

\* convert() to unsigned and back.
ToUnsigned(v) == v % 2^Width
ToSigned(v) == IF ToUnsigned(v) > SignedMax THEN ToUnsigned(v) - 2^Width ELSE ToUnsigned(v)
Convert(v, u) == IF u THEN ToUnsigned(v) ELSE ToSigned(v)

Truth(b) == [v |-> IF b THEN 1 ELSE 0, u |-> FALSE, err |-> ""]

\* An arithmetic result, which must not overflow when it is signed.
Exact(v, u) ==
    [v |-> Convert(v, u), u |-> u,
     err |-> IF u \/ v \in SignedMin .. SignedMax THEN "" ELSE "undefined"]

Abs(a) == IF a < 0 THEN -a ELSE a
Sign(a) == IF a < 0 THEN -1 ELSE 1
\* Division of C, towards zero.
Quotient(a, b) == Sign(a) * Sign(b) * (Abs(a) \div Abs(b))

\* both_signed() and the operator, for operands l and r.
Binary(op, l, r) ==
    LET u == l.u \/ r.u
        a == Convert(l.v, u)
        b == Convert(r.v, u)
        bits(n) == [v |-> Convert(n, u), u |-> u, err |-> ""]
        shifted(n) == [v |-> Convert(n, u), u |-> u,
                       err |-> IF b \in 0 .. Width - 1 THEN "" ELSE "undefined"]
    IN  CASE op = "*" -> Exact(a * b, u)
          [] op = "+" -> Exact(a + b, u)
          [] op = "-" -> Exact(a - b, u)
          [] op \in {"/", "%"} ->
               IF r.v = 0 THEN [v |-> 0, u |-> u, err |-> "error"]
               ELSE IF op = "/" THEN Exact(Quotient(a, b), u)
               ELSE [Exact(Quotient(a, b), u) EXCEPT !.v = Convert(a - b * Quotient(a, b), u)]
          [] op = "<<" -> shifted(a * 2^(b % Width))
          [] op = ">>" -> shifted(a \div 2^(b % Width))
          [] op = "<"  -> Truth(a < b)
          [] op = ">"  -> Truth(a > b)
          [] op = "<=" -> Truth(a <= b)
          [] op = ">=" -> Truth(a >= b)
          [] op = "==" -> Truth(a = b)
          [] op = "!=" -> Truth(a # b)
          [] op = "&"  -> bits(ToUnsigned(a) & ToUnsigned(b))
          [] op = "^"  -> bits(ToUnsigned(a) ^^ ToUnsigned(b))
          [] op = "|"  -> bits(ToUnsigned(a) | ToUnsigned(b))
          [] op = "&&" -> Truth(l.v # 0 /\ r.v # 0)
          [] op = "||" -> Truth(l.v # 0 \/ r.v # 0)

\* preprocess_unary; `!' keeps the type of its operand.
Unary(op, r) ==
    CASE op = "+" -> [v |-> r.v, u |-> r.u, err |-> ""]
      [] op = "-" -> Exact(-r.v, r.u)
      [] op = "~" -> [v |-> Convert(-1 - r.v, r.u), u |-> r.u, err |-> ""]
      [] op = "!" -> [v |-> IF r.v = 0 THEN 1 ELSE 0, u |-> r.u, err |-> ""]

\* The operators of each level and the level of the right operand.  Levels 1
\* to 4 are loops, the others look for one operator and recurse on the right.
Level ==
    <<{"*", "/", "%"}, {"+", "-"}, {"<<", ">>"}, {"<", ">", "<=", ">="},
      {"==", "!="}, {"&"}, {"^"}, {"|"}, {"&&"}, {"||"}>>

RightOperand == [n \in 1 .. Len(Level) |-> IF n <= 4 THEN n - 1 ELSE IF n = 8 THEN 7 ELSE n]

Conditional == Len(Level) + 1

\* At token i, after r.
At(r, i) == [at |-> i, v |-> r.v, u |-> r.u, err |-> r.err]

Failed(i) == [at |-> i, v |-> 0, u |-> FALSE, err |-> "error"]

RECURSIVE Parse(_, _, _), More(_, _, _), Expression(_, _)

\* preprocess_primary
Primary(s, i) ==
    CASE s[i].k = "num" -> [at |-> i + 1, v |-> s[i].v, u |-> s[i].u, err |-> ""]
      [] s[i].k = "name" -> [at |-> i + 1, v |-> 0, u |-> FALSE, err |-> ""]
      [] s[i].k = "(" ->
           LET e == Expression(s, i + 1)
           IN  IF e.err = "error" THEN e
               ELSE IF s[e.at].k = ")" THEN [e EXCEPT !.at = @ + 1] ELSE Failed(e.at)
      [] OTHER -> Failed(i)

\* The first error ends the compiler; what is undefined stays undefined.
Combine(l, r, result) ==
    IF l.err = "error" THEN l
    ELSE IF r.err = "error" THEN r
    ELSE IF "undefined" \in {l.err, r.err} /\ result.err = "" THEN At([result EXCEPT !.err = "undefined"], r.at)
    ELSE At(result, r.at)

\* The operand l of level n and what follows it on this level.
More(n, s, l) ==
    IF l.err = "error" \/ s[l.at].k \notin Level[n] THEN l
    ELSE LET r == Parse(RightOperand[n], s, l.at + 1)
             c == Combine(l, r, Binary(s[l.at].k, l, r))
         IN  IF n <= 4 THEN More(n, s, c) ELSE c

\* preprocess_conditional computes all three operands.
Ternary(s, a) ==
    IF a.err = "error" \/ s[a.at].k # "?" THEN a
    ELSE LET b == Expression(s, a.at + 1)
             c == Parse(Conditional, s, b.at + 1)
             u == b.u \/ c.u
             pick == [v |-> Convert(IF a.v # 0 THEN b.v ELSE c.v, u), u |-> u, err |-> a.err]
         IN  IF b.err = "error" THEN b
             ELSE IF s[b.at].k # ":" THEN Failed(b.at)
             ELSE Combine(b, c, pick)

Parse(n, s, i) ==
    IF n = 0
    THEN IF s[i].k \in {"+", "-", "~", "!"}
           THEN LET r == Parse(0, s, i + 1) IN Combine(r, r, Unary(s[i].k, r))
           ELSE Primary(s, i)
    ELSE IF n = Conditional THEN Ternary(s, Parse(n - 1, s, i))
    ELSE More(n, s, Parse(n - 1, s, i))

\* preprocess_expression: a list with commas.
Expression(s, i) ==
    LET n == Parse(Conditional, s, i)
    IN  IF n.err # "error" /\ s[n.at].k = "," THEN Expression(s, n.at + 1) ELSE n

\* read_defined_operator and expand: `defined', and macros that stand for a
\* number, become numbers; val maps the macros there are to their numbers.
Substituted(s, val) ==
    [i \in DOMAIN s |->
        CASE s[i].k = "defined" -> Num(IF s[i].name \in DOMAIN val THEN 1 ELSE 0)
          [] s[i].k = "name" /\ s[i].name \in DOMAIN val -> Num(val[s[i].name])
          [] OTHER -> s[i]]

\* preprocess_constant_expression on a line that ends in a newline.
Evaluate(s) == Parse(Conditional, Append(s, Op("newline")), 1)
===========================================================================
