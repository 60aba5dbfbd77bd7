------------------------------- MODULE MCFlow -------------------------------
(***************************************************************************)
(* The functions for FlowExecution: every small expression in every place  *)
(* that has one, and nests of loops, switches, jumps and labels.           *)
(***************************************************************************)
EXTENDS FlowExecution

Expr(op, es) == Node(op, es, 0)
A == Node("atom", <<>>, 0)
Set == Node("assign", <<>>, 0)
I(n) == Node("imm", <<>>, n)
Operands == {A, Set, I(0), I(2)}
Logicals == {"&&", "||"}

Binary(ops, ls, rs) == {Expr(op, <<l, r>>) : op \in ops, l \in ls, r \in rs}
Ternary(cs, ls, rs) == {Expr("?", <<c, l, r>>) : c \in cs, l \in ls, r \in rs}

Simple == Binary({"&&", "||", ","}, Operands, Operands) \cup Ternary(Operands, {A, I(0), I(2)}, {A, I(2)})
(* Operators whose operands branch themselves. *)
Branching == Binary(Logicals, {A}, {A}) \cup {Expr("?", <<A, I(2), I(0)>>), Expr("?", <<A, A, A>>),
                Expr(",", <<A, I(2)>>), Expr("&&", <<I(2), A>>), Expr("||", <<I(0), Set>>)}
Nested == Binary(Logicals \cup {","}, Branching, {A, I(0), I(2)})
          \cup Binary(Logicals \cup {","}, {A, I(0), I(2)}, Branching)
          \cup Ternary(Branching, {A}, {A}) \cup Ternary({A, I(0), I(2)}, Branching, {I(0)})
          \cup Ternary({A, I(0), I(2)}, {A}, Branching)
          \cup Binary(Logicals, Branching, Branching)

Expressions == Operands \cup Simple \cup Nested

-----------------------------------------------------------------------------
Stmt(e) == Node("expr", <<e>>, 0)
Block(ss) == Node("block", ss, 0)
If(c, s, t) == Node("if", <<c, s, t>>, 0)
While(c, s) == Node("while", <<c, s>>, 0)
DoWhile(s, c) == Node("do", <<s, c>>, 0)
For(e1, e2, e3, s) == Node("for", <<e1, e2, e3, s>>, 0)
Switch(e, s) == Node("switch", <<e, s>>, 0)
Case(n, s) == Node("case", <<s>>, n)
Default(s) == Node("default", <<s>>, 0)
Label(n, s) == Node("label", <<s>>, n)
Goto(n) == Node("goto", <<>>, n)
Return(e) == Node("return", <<e>>, 0)
Skip == Node("skip", <<>>, 0)
Break == Node("break", <<>>, 0)
Continue == Node("continue", <<>>, 0)
S == Stmt(A)

Function(ss) == Node("function", <<Block(ss)>>, 0)
Procedure(ss) == Node("procedure", <<Block(ss)>>, 0)

WithExpression(e) ==
    {Function(<<Return(e)>>), Function(<<Stmt(e), S>>), Function(<<If(e, S, S), S>>),
     Function(<<While(e, S), S>>), Function(<<DoWhile(S, e), S>>),
     Function(<<For(Set, e, Set, S), S>>)}

(* The statements that leave a loop or jump within it. *)
Leaving == {Break, Continue, Goto(1), Return(A)}
Guarded == {If(A, l, None) : l \in Leaving} \cup {If(A, l, S) : l \in Leaving} \cup Leaving

LoopsOver(s) ==
    {While(A, s), DoWhile(s, A), For(None, A, Set, s), For(Set, A, None, s),
     For(None, None, Set, s), For(None, I(2), None, s), While(I(2), s), DoWhile(s, I(0))}

(* A loop with two statements, a label in, before or behind it. *)
Jumping == UNION {{Function(<<l, Label(1, S)>>), Function(<<Label(1, S), l>>)} :
                     l \in UNION {LoopsOver(Block(<<g, S>>)) : g \in Guarded}}
           \cup {Function(<<If(A, Goto(1), None), l, S>>) :
                     l \in UNION {LoopsOver(Block(<<S, Label(1, If(A, g, None))>>)) : g \in {Break, Continue, S}}}

(* Loops and switches in each other. *)
Inner == UNION {LoopsOver(Block(<<g, S>>)) : g \in {If(A, Break, None), If(A, Continue, None)}}
Nests == {Function(<<l, S>>) : l \in UNION {LoopsOver(Block(<<i, If(A, g, None)>>)) :
                                               i \in Inner, g \in {Break, Continue}}}

SwitchBodies(g) ==
    {Block(<<Case(0, S), Case(2, g), Default(S)>>), Block(<<Default(g), Case(2, S)>>),
     Block(<<Case(1, Case(0, g)), S>>), Block(<<S, Case(2, S), g, S>>), Case(2, g),
     Block(<<Case(0, DoWhile(Block(<<S, Case(2, g), S>>), A)), S>>)}
Switches == {Function(<<Switch(e, b), S>>) : e \in {Set, Expr("&&", <<A, A>>)},
                                              b \in UNION {SwitchBodies(g) : g \in {S, Break, Return(A)}}}
            \cup {Function(<<While(A, Block(<<Switch(Set, b), S>>)), S>>) :
                     b \in UNION {SwitchBodies(g) : g \in {Break, Continue, Switch(Set, Block(<<Case(0, Break), Case(2, Continue), Default(S)>>))}}}
            \cup {Function(<<Switch(A, Block(<<S, Case(2, Break), Default(S)>>))>>),
                  Function(<<Switch(Set, Block(<<>>)), S>>), Function(<<Switch(I(2), Block(<<Case(2, S), Case(0, S)>>))>>)}

Others ==
    {Procedure(<<If(A, Return(None), S), S>>), Procedure(<<>>), Function(<<If(A, Skip, Return(I(2))), S>>),
     Function(<<If(A, If(A, S, S), None), S>>), Function(<<If(I(2), If(I(0), S, S), S), S>>),
     Function(<<Goto(1), S, Label(1, S)>>), Function(<<Label(1, S), Goto(1)>>),
     Function(<<Goto(1), S>>), Function(<<Label(1, S), Label(1, S)>>), Function(<<Goto(1), Label(1, Label(2, S)), Goto(2)>>),
     Function(<<If(I(0), Label(1, S), None), If(A, Goto(1), None)>>), Function(<<If(I(2), S, Label(1, S)), If(A, Goto(1), None)>>),
     Function(<<Case(0, S)>>), Function(<<Default(S)>>), Function(<<Switch(Set, Block(<<Default(S), Default(S)>>))>>),
     Function(<<For(None, None, None, Skip)>>), Function(<<Switch(Set, Block(<<Case(0, Switch(Set, Case(2, S))), Default(S)>>))>>)}

MCFunctions ==
    UNION {WithExpression(e) : e \in Expressions} \cup Jumping \cup Nests \cup Switches \cup Others

MCLabels == {1, 2}
=============================================================================
