------------------------------ MODULE MCVMCode ------------------------------
(***************************************************************************)
(* Programs for VMCode: a main that starts by setting its variables and    *)
(* goes on with two or three C statements, in the intermediate code that   *)
(* the front end makes of them, and ends in a return or a branch.          *)
(***************************************************************************)
EXTENDS VMMeaning

MCFunctions == <<"f", "pf", "r", "w", "k", "ff", "main">>
MCGlobals == <<"g", "o", "bits">>
\* The temporaries of the statement at a position.
Tmp == <<".t1", ".t2">>
Tmq == <<".q1", ".q2">>
Tmo == <<".o1", ".o2">>
MCTemporaries == {".f", ".ff"} \cup ToSet(Tmp) \cup ToSet(Tmq) \cup ToSet(Tmo)
MCParams ==
  [f |-> <<"x", "y">>, pf |-> <<>>, r |-> <<"n">>, w |-> <<"q">>, k |-> <<"v", "z">>, ff |-> <<"m">>, main |-> <<>>]
MCLocals ==
  [f |-> <<".f">>, pf |-> <<>>, r |-> <<"l">>, w |-> <<>>, k |-> <<>>, ff |-> <<".ff">>,
   main |-> <<"a", "b", "c", "p", "s">> \o Tmp \o Tmq \o Tmo]
OfSize(n, S) == [s \in S |-> n]
MCSizes ==
  OfSize(1, {"y", "c"}) @@ OfSize(2, {"g", "bits", "x", "n", "z", "m", "a", "b", ".f", ".ff"} \cup ToSet(Tmp))
    @@ OfSize(4, {"q", "p"} \cup ToSet(Tmq)) @@ OfSize(6, {"o", "v", "l", "s"} \cup ToSet(Tmo))
    @@ OfSize(4, ToSet(MCFunctions))

\* Two slots for each symbol that is not a function.
MCHome ==
  LET symbols == MCGlobals \o MCLocals["main"] \o <<"x", "y", ".f", "n", "l", "q", "v", "z", "m", ".ff">>
  IN  [s \in ToSet(symbols) |-> 8 * SelectInSeq(symbols, LAMBDA x : x = s)]

I(s) == Direct(s, T_INT)
P(s) == Direct(s, T_LONG)
O(s) == Direct(s, Struct(6))
N(n) == Imm(T_INT, n)
Const(n) == Same(N(n))
Bin(op, l, r) == Expr(op, T_INT, l, r)
Set(s, e) == Assign(I(s), e)
Func(c, end, e) == [code |-> c, end |-> end, expr |-> e]

\* int f(int x, char y) { g = x + y; return g - 1; }   int *pf(void) { return &g; }
\* struct o r(int n) { struct o l; l = o; l.x = n; return l; }   void w(int *q) { *q = *q + 1; }
\* int k(struct o v, int z) { g = v.z - z; return v.x; }   int ff(int m) { return m + f(m, 1); }
Library ==
  [f |-> Func(<<Set(".f", Cast(T_INT, Direct("y", T_CHAR))), Set("g", Bin("add", I("x"), I(".f")))>>, "return", Bin("sub", I("g"), N(1))),
   pf |-> Func(<<>>, "return", Same(Address("g"))),
   r |-> Func(<<Assign(O("l"), Same(O("o"))), Assign(Member("l", T_INT, 0), Same(I("n")))>>, "return", Same(O("l"))),
   w |-> Func(<<Assign(Deref("q", T_INT, 0), Bin("add", Deref("q", T_INT, 0), N(1)))>>, "void", Const(0)),
   k |-> Func(<<Set("g", Bin("sub", Member("v", T_INT, 4), I("z")))>>, "return", Same(Member("v", T_INT, 0))),
   ff |-> Func(<<Param(Same(I("m"))), Param(Same(Imm(T_CHAR, 1))), Set(".ff", Call(T_INT, "f"))>>, "return", Bin("add", I("m"), I(".ff")))]

\* int g = 2; struct o o = { 0, 0, 3 }; struct { unsigned lo : 1, hi : 2; } bits = { 1, 2 };
MCData ==
  <<Set("g", Const(2)), Assign(Member("o", T_INT, 0), Const(0)), Assign(Member("o", T_INT, 2), Const(0)),
    Assign(Member("o", T_INT, 4), Const(3)), Assign(Field("bits", 0, 1), Const(1)), Assign(Field("bits", 1, 2), Const(2))>>
\* s = o; a = 5; b = -3; c = 1; p = &b;
Prologue ==
  <<Assign(O("s"), Same(O("o"))), Set("a", Const(5)), Set("b", Const(-3)),
    Assign(Direct("c", T_CHAR), Same(Imm(T_CHAR, 1))), Assign(P("p"), Same(Address("b")))>>

CallF(x, y, t) == <<Param(x), Param(y), Assign(t, Call(T_INT, "f"))>>
\* The C statements, with the temporaries of their position.
Snippets(i) ==
  LET t == Tmp[i]
      q == Tmq[i]
      o == Tmo[i]
      c == Direct("c", T_CHAR)
      one == Same(Imm(T_CHAR, 1))
      n == Direct("a", T_UINT)
      lo == Field("bits", 0, 1)
      hi == Field("bits", 1, 2)
  IN
  { \* a = 0; a = 4; g = 0; a = b; g = a = b; s.x = 0; s.y = 0; s.z = 0;
    <<Set("a", Const(0))>>, <<Set("a", Const(4))>>, <<Set("g", Const(0))>>, <<Set("a", Same(I("b")))>>,
    <<Set("a", Same(I("b"))), Set("g", Same(I("a")))>>,
    <<Assign(Member("s", T_INT, 0), Const(0))>>, <<Assign(Member("s", T_INT, 2), Const(0))>>, <<Assign(Member("s", T_INT, 4), Const(0))>>,
    \* a = b + 1; a = a + b; b = a - 3; b = b - a; a = a * b; a = b + 4; a = ~b; a = b > a; a = b == a; g = a >= g;
    <<Set("a", Bin("add", I("b"), N(1)))>>, <<Set("a", Bin("add", I("a"), I("b")))>>, <<Set("b", Bin("sub", I("a"), N(3)))>>,
    <<Set("b", Bin("sub", I("b"), I("a")))>>, <<Set("a", Bin("mul", I("a"), I("b")))>>, <<Set("a", Bin("add", I("b"), N(4)))>>,
    <<Set("a", Expr("not", T_INT, I("b"), NoVar))>>, <<Set("a", Bin("gt", I("b"), I("a")))>>, <<Set("a", Bin("eq", I("b"), I("a")))>>,
    <<Set("g", Bin("ge", I("a"), I("g")))>>,
    \* *(unsigned *) &a += 3u; *(unsigned *) &a -= 1u;
    <<Assign(n, Expr("add", T_UINT, n, Imm(T_UINT, 3)))>>, <<Assign(n, Expr("sub", T_UINT, n, Imm(T_UINT, 1)))>>,
    \* a = b++; a = ++b;
    <<Set(t, Same(I("b"))), Set("b", Bin("add", I("b"), N(1))), Set("a", Same(I(t)))>>,
    <<Set("b", Bin("add", I("b"), N(1))), Set("a", Same(I("b")))>>,
    \* c = a; a = c; b = a = c;
    <<Assign(c, Cast(T_CHAR, I("a")))>>, <<Set("a", Cast(T_INT, c))>>, <<Set("a", Cast(T_INT, c)), Set("b", Same(I("a")))>>,
    \* a = f(b, c); a += f(b, 1); a -= f(a, c); a = a > f(b, 1); f(a, c); pf(); w(&a); a = f(b++, 1); g = ff(a);
    CallF(Same(I("b")), Same(c), I("a")),
    CallF(Same(I("b")), one, I(t)) \o <<Set("a", Bin("add", I("a"), I(t)))>>,
    CallF(Same(I("a")), Same(c), I(t)) \o <<Set("a", Bin("sub", I("a"), I(t)))>>,
    CallF(Same(I("b")), one, I(t)) \o <<Set("a", Bin("gt", I("a"), I(t)))>>,
    <<Param(Same(I("a"))), Param(Same(c)), Statement(Call(T_INT, "f"))>>, <<Statement(Call(T_LONG, "pf"))>>,
    <<Param(Same(Address("a"))), Statement(Call(T_VOID, "w"))>>,
    <<Set(t, Same(I("b"))), Set("b", Bin("add", I("b"), N(1)))>> \o CallF(Same(I(t)), one, I("a")),
    <<Param(Same(I("a"))), Set("g", Call(T_INT, "ff"))>>,
    \* p = 0; p = &a; *p = 0; *p = 4; a = *p; *p += 2; *p = f(a, 1); *p++ = b  with p put back afterwards
    <<Assign(P("p"), Same(Imm(T_LONG, 0)))>>,
    <<Assign(P("p"), Same(Address("a")))>>, <<Assign(Deref("p", T_INT, 0), Const(0))>>, <<Assign(Deref("p", T_INT, 0), Const(4))>>,
    <<Set("a", Same(Deref("p", T_INT, 0)))>>, <<Assign(Deref("p", T_INT, 0), Bin("add", Deref("p", T_INT, 0), N(2)))>>,
    CallF(Same(I("a")), one, Deref("p", T_INT, 0)),
    <<Assign(P(q), Same(P("p"))), Assign(P("p"), Expr("add", T_LONG, P("p"), Imm(T_LONG, 2))), Assign(Deref(q, T_INT, 0), Same(I("b"))),
      Assign(P("p"), Expr("sub", T_LONG, P("p"), Imm(T_LONG, 2)))>>,
    \* a = *pf(); *pf() = 3; *pf() += a; (&s)->y = b;
    <<Assign(P(q), Call(T_LONG, "pf")), Set("a", Same(Deref(q, T_INT, 0)))>>,
    <<Assign(P(q), Call(T_LONG, "pf")), Assign(Deref(q, T_INT, 0), Const(3))>>,
    <<Assign(P(q), Call(T_LONG, "pf")), Assign(Deref(q, T_INT, 0), Bin("add", Deref(q, T_INT, 0), I("a")))>>,
    <<Assign(P(q), Same(Address("s"))), Assign(Deref(q, T_INT, 2), Same(I("b")))>>,
    \* s = r(b); a = r(2).x; o = s; s.y = a; a = s.z; g = k(s, a); s = *(&o);
    <<Param(Same(I("b"))), Assign(O("s"), Call(Struct(6), "r"))>>,
    <<Param(Const(2)), Assign(O(o), Call(Struct(6), "r")), Set("a", Same(Member(o, T_INT, 0)))>>,
    <<Assign(O("o"), Same(O("s")))>>, <<Assign(Member("s", T_INT, 2), Same(I("a")))>>, <<Set("a", Same(Member("s", T_INT, 4)))>>,
    <<Param(Same(O("s"))), Param(Same(I("a"))), Set("a", Call(T_INT, "k"))>>,
    <<Assign(P(q), Same(Address("o"))), Assign(O("s"), Same(Deref(q, Struct(6), 0)))>>,
    \* bits.lo = 0; bits.hi = 1; a = bits.hi; bits.hi = bits.lo;
    <<Assign(lo, Const(0))>>, <<Assign(hi, Const(1))>>, <<Set("a", Cast(T_INT, hi))>>, <<Assign(hi, Cast(T_INT, lo))>> }

\* return a - b; a; s.y; *p; f(a, 1); k(s, a);  if (b > a), if (a), if (bits.hi), if (f(a, 1)), if (*p) return 1; return 0;
Difference == Func(<<>>, "return", Bin("sub", I("a"), I("b")))
Ends ==
  LET ArgsF == <<Param(Same(I("a"))), Param(Same(Imm(T_CHAR, 1)))>>
      ArgsK == <<Param(Same(O("s"))), Param(Same(I("a")))>>
  IN  {Difference, Func(<<>>, "return", Same(I("a"))), Func(<<>>, "return", Same(Member("s", T_INT, 2))),
       Func(<<>>, "return", Same(Deref("p", T_INT, 0))),
       Func(ArgsF, "return", Call(T_INT, "f")), Func(ArgsK, "return", Call(T_INT, "k")),
       Func(<<>>, "branch", Bin("gt", I("b"), I("a"))), Func(<<>>, "branch", Same(I("a"))),
       Func(<<>>, "branch", Cast(T_INT, Field("bits", 1, 2))), Func(ArgsF, "branch", Call(T_INT, "f")),
       Func(<<>>, "branch", Same(Deref("p", T_INT, 0)))}
Program(c, end) == [data |-> MCData, body |-> Library @@ [main |-> Func(Prologue \o c \o end.code, end.end, end.expr)]]

\* An object that is assigned and copied on at once: VM_STORE takes it from above the top of the stack.
CopiedOn(c) ==
  \E i \in 1..(Len(c) - 1) :
    c[i].st = "assign" /\ c[i].t.kind = "direct" /\ c[i].t.type.object /\ c[i + 1].expr.l = c[i].t

MCPrograms ==
  {Program(c, e) : <<c, e>> \in
     {<<x \o y, Difference>> : x \in Snippets(1), y \in Snippets(2)} \cup (Snippets(1) \X Ends)}
Proper == {p \in MCPrograms : ~CopiedOn(p.body["main"].code)}
=============================================================================
