--------------------------------- MODULE IR ---------------------------------
(***************************************************************************)
(* The intermediate representation of include/lacc/ir.h: operands, three-  *)
(* address statements, basic blocks, and what running a function body      *)
(* does.  The meaning is the one the back ends give to the representation; *)
(* the optimizer has to leave it alone.                                    *)
(*                                                                         *)
(* A value is a pair of halves, so that a char or a bit-field can stand    *)
(* for a part of an object.  A half is 0, 1, the object a pointer points   *)
(* to, or U when it was never written.                                     *)
(***************************************************************************)
EXTENDS Integers, SequencesExt

CONSTANTS
    Blocks,    \* struct block objects of one definition
    body,      \* def->body, the entry point
    Syms,      \* objects
    Ptrs,      \* the objects of pointer type
    Structs,   \* the objects of struct type
    Globals,   \* the objects with linkage
    Params,    \* the parameters of the function
    NULL,      \* no symbol
    U,         \* a half that has not been written
    Fuel       \* blocks run before a run is given up (bound)

ASSUME BodyAssumption == body \in Blocks
ASSUME SymsAssumption == /\ Ptrs \subseteq Syms /\ Structs \subseteq Syms
                         /\ Globals \subseteq Syms /\ Params \subseteq Syms

Zero == <<0, 0>>
One == <<1, 0>>

---------------------------------------------------------------------------
(* struct var, struct expression and struct statement.                     *)

Var(kind, sym, type, field, imm) ==
    [kind |-> kind, sym |-> sym, type |-> type, field |-> field, imm |-> imm]

\* The type of a symbol.
TypeOf(s) == IF s \in Ptrs THEN "ptr" ELSE IF s \in Structs THEN "struct" ELSE "int"

Imm(v) == Var("immediate", NULL, "int", FALSE, v)
Direct(s) == Var("direct", s, TypeOf(s), FALSE, Zero)
Byte(s) == Var("direct", s, "char", FALSE, Zero)      \* *(char *) &s
Field(s) == Var("direct", s, "int", TRUE, Zero)       \* s.f, a bit-field
Addr(s) == Var("address", s, "ptr", FALSE, Zero)
Deref(s, type) == Var("deref", s, type, FALSE, Zero)

Expr(op, type, l, r) == [op |-> op, type |-> type, l |-> l, r |-> r]

\* as_expr: a cast to the operand's own type.
as_expr(v) == Expr("cast", v.type, v, Imm(Zero))
Xor(l, r) == Expr("xor", "int", l, r)
Call == Expr("call", "int", Imm(Zero), Imm(Zero))

Statement(st, t, expr) == [st |-> st, t |-> t, expr |-> expr]
Assign(t, e) == Statement("assign", t, e)
Param(v) == Statement("param", Imm(Zero), as_expr(v))

has_side_effects(e) == e.op = "call"
is_identity(e) == e.op = "cast" /\ e.type = e.l.type

---------------------------------------------------------------------------
(* Running a function body.                                                *)

\* A variable that denotes only the first half of its object.
Partial(v) == v.field \/ v.type = "char"

\* The object that v denotes, given the values of the objects.
Object(mem, v) == IF v.kind = "deref" THEN mem[v.sym][1] ELSE v.sym

\* The value of an operand; through a bad pointer nothing is known.
Operand(mem, v) ==
    CASE v.kind = "immediate" -> v.imm
      [] v.kind = "address"   -> <<v.sym, v.sym>>
      [] OTHER -> LET o == Object(mem, v) IN
                  IF o \notin Syms THEN <<U, U>>
                  ELSE IF Partial(v) THEN <<mem[o][1], 0>>
                  ELSE mem[o]

\* Objects a callee can get at: the globals, what the arguments point to, and
\* what these point to.
Reach(mem, args) ==
    LET pointed(o) == Syms \cap {mem[o][1]}
        first == Globals \cup (Syms \cap {args[i][1] : i \in DOMAIN args})
    IN  first \cup UNION {pointed(o) : o \in first}

XorHalf(a, b) == IF {a, b} \subseteq {0, 1} THEN (a + b) % 2 ELSE U

\* The value of e.  A call returns One.
Value(m, e) ==
    CASE e.op = "cast" -> LET v == Operand(m.mem, e.l)
                          IN  IF e.type = "char" THEN <<v[1], 0>> ELSE v
      [] e.op = "xor"  -> LET l == Operand(m.mem, e.l)
                              r == Operand(m.mem, e.r)
                          IN  <<XorHalf(l[1], r[1]), XorHalf(l[2], r[2])>>
      [] e.op = "call" -> One

\* The machine after the effect of evaluating e: a callee is external code; it
\* sees its arguments and every object it can get at.
Evaluated(m, e) ==
    IF e.op # "call" THEN m
    ELSE [m EXCEPT !.log = Append(@, [args |-> m.args,
                                      seen |-> [o \in Reach(m.mem, m.args) |-> m.mem[o]]]),
                   !.args = <<>>]

\* One statement.  Writing through a bad pointer is undefined.
Execute(m, s) ==
    LET v == Value(m, s.expr)
        e == Evaluated(m, s.expr)
        o == Object(m.mem, s.t)
    IN  CASE s.st = "expr"  -> e
          [] s.st = "param" -> [e EXCEPT !.args = Append(@, v)]
          [] s.st = "assign" ->
                IF o \notin Syms THEN [e EXCEPT !.at = {}, !.defined = FALSE]
                ELSE IF Partial(s.t) THEN [e EXCEPT !.mem[o][1] = v[1]]
                ELSE [e EXCEPT !.mem[o] = v]

\* The index into a jump table.
Index(v) == v[1] + 2 * v[2]

\* A whole block, and the jump, table jump or return at its end.  `at' holds
\* the block to run next, if there is one.
Block(p, m) ==
    LET b == CHOOSE c \in m.at : TRUE
        e == FoldLeft(Execute, m, p.code[b])
        v == Value(e, p.expr[b])
    IN  IF e.at = {} THEN e
        ELSE IF p.table[b] # <<>>
             THEN IF U \in {v[1], v[2]} THEN [e EXCEPT !.at = {}, !.defined = FALSE]
                  ELSE [e EXCEPT !.at = {p.table[b][Index(v) + 1]}]
        ELSE IF Len(p.jump[b]) = 2
             THEN IF U \in {v[1], v[2]} THEN [e EXCEPT !.at = {}, !.defined = FALSE]
                  ELSE [e EXCEPT !.at = {p.jump[b][IF v # Zero THEN 2 ELSE 1]}]
        ELSE IF Len(p.jump[b]) = 1 THEN [e EXCEPT !.at = {p.jump[b][1]}]
        ELSE [e EXCEPT !.at = {}, !.ret = IF p.ret[b] THEN v ELSE Zero]

\* The machine after running the body p from the given values of globals and
\* parameters, for at most Fuel blocks.
Outcome(p, input) ==
    FoldLeft(LAMBDA m, i : IF m.at = {} THEN m ELSE Block(p, m),
             [at |-> {body}, args |-> <<>>, log |-> <<>>, ret |-> Zero, defined |-> TRUE,
              mem |-> [s \in Syms |-> IF s \in DOMAIN input THEN input[s] ELSE <<U, U>>]],
             [i \in 1 .. Fuel |-> i])

\* w is v wherever v was written.
Matches(v, w) == \A h \in 1 .. 2 : v[h] \in {U, w[h]}

\* The runs m and n end alike for the rest of the world: the same calls that
\* see the same values, the same globals, the same return value.
SameOutcome(m, n) ==
    /\ n.at = {} /\ n.defined
    /\ Len(n.log) = Len(m.log)
    /\ \A i \in 1 .. Len(m.log) :
          LET a == m.log[i]  b == n.log[i] IN
          /\ Len(a.args) = Len(b.args)
          /\ \A j \in 1 .. Len(a.args) : Matches(a.args[j], b.args[j])
          /\ \A o \in DOMAIN a.seen \cap DOMAIN b.seen : Matches(a.seen[o], b.seen[o])
    /\ \A o \in Globals : Matches(m.mem[o], n.mem[o])
    /\ Matches(m.ret, n.ret)

Inputs == [Params \cup (Globals \ Ptrs) -> {Zero, One, <<1, 1>>}]

\* q does what p does whenever p is defined and comes to an end.
SameMeaning(p, q) ==
    \A input \in Inputs :
        LET m == Outcome(p, input) IN
        m.at = {} /\ m.defined => SameOutcome(m, Outcome(q, input))
===========================================================================
