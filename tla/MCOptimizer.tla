---------------------------- MODULE MCOptimizer ----------------------------
(***************************************************************************)
(* Function bodies for Optimizer: x, t are int locals, p is a pointer, s a *)
(* struct, g an int and gp a pointer with linkage.                         *)
(***************************************************************************)
EXTENDS Optimizer

CONSTANTS x, t, p, s, g, gp, b1, b2, b3, b4, b5

\* A body whose blocks do nothing and return nothing, to be filled in.
Blank ==
    [code |-> [b \in Blocks |-> <<>>], expr |-> [b \in Blocks |-> as_expr(Imm(Zero))],
     jump |-> [b \in Blocks |-> <<>>], table |-> [b \in Blocks |-> <<>>],
     ret |-> [b \in Blocks |-> FALSE]]

\* The parser emits the arguments of a call right in front of it.
ArgumentsBeforeCall(c) ==
    \A i \in DOMAIN c : c[i].st = "param" =>
        i + 1 \in DOMAIN c /\ (c[i + 1].st = "param" \/ has_side_effects(c[i + 1].expr))

\* At most m of the statements S, in a row.
UpTo(S, m) ==
    {c \in UNION {[1 .. k -> S] : k \in 0 .. m} : ArgumentsBeforeCall(c)}

DX == Direct(x)
DT == Direct(t)
DG == Direct(g)
Set(v, w) == Assign(v, as_expr(w))

---------------------------------------------------------------------------
(* Straight-line code.                                                     *)

Simple == {Set(DX, Imm(One)), Set(DX, DG), Set(DT, DX), Set(DX, DT), Set(DG, DT),
           Assign(DT, Xor(DX, DG)), Assign(DT, Call), Param(DX)}

Pointing == {Set(Direct(p), Addr(x)), Set(Deref(p, "int"), DG), Set(DT, Deref(p, "int")),
             Param(Direct(p)), Set(DX, Imm(One)), Set(DT, DX), Assign(DX, Call),
             Set(DG, DT)}

\* Parts of objects, and more symbols than can be numbered.
Crowded == {Set(Direct(gp), Addr(g)), Set(Field(s), DX), Assign(DT, Call), Param(Field(s)),
            Param(Byte(x)), Set(DX, DG), Set(DT, Deref(p, "int")), Set(Direct(p), Direct(gp))}

\* b1 is the whole function.
Body(c, v) == [Blank EXCEPT !.code[b1] = c, !.expr[b1] = as_expr(v), !.ret[b1] = TRUE]

\* In the second set p points at x.
StraightPrograms ==
    {Body(c, v) : c \in UpTo(Simple, 4) \cup {<<Set(Direct(p), Addr(x))>> \o d : d \in UpTo(Pointing, 3)}
                            \cup UpTo(Crowded, 3),
                  v \in {DX, DT}}

---------------------------------------------------------------------------
(* Branches and loops.                                                     *)

Small == {Set(DX, Imm(One)), Set(DT, DX), Assign(DX, Xor(DX, Imm(One))), Set(DG, DT)}

\* if (g) b2 else b3; then b4.  b2 or b3 may be empty, and b5 is.
Diamond(c1, c2, c3, c4) ==
    [Blank EXCEPT !.code = [Blank.code EXCEPT ![b1] = c1, ![b2] = c2, ![b3] = c3, ![b4] = c4],
                  !.expr = [Blank.expr EXCEPT ![b1] = as_expr(DG), ![b4] = as_expr(DX)],
                  !.jump = [Blank.jump EXCEPT ![b1] = <<b2, b3>>, ![b2] = <<b5>>,
                                              ![b3] = <<b5>>, ![b5] = <<b4>>],
                  !.ret[b4] = TRUE]

\* b1; while (x) b3; b4.  b2 holds the condition and b5 is empty.
Loop(c1, c2, c3, c4) ==
    [Blank EXCEPT !.code = [Blank.code EXCEPT ![b1] = c1, ![b2] = c2, ![b3] = c3, ![b4] = c4],
                  !.expr = [Blank.expr EXCEPT ![b2] = as_expr(DX), ![b4] = as_expr(DT)],
                  !.jump = [Blank.jump EXCEPT ![b1] = <<b5>>, ![b5] = <<b2>>,
                                              ![b2] = <<b4, b3>>, ![b3] = <<b5>>],
                  !.ret[b4] = TRUE]

AtMostOne == UpTo(Small, 1)

BranchPrograms ==
    {Diamond(c1, c2, c3, c4) : c1 \in UpTo(Small, 2), c2 \in AtMostOne, c3 \in AtMostOne, c4 \in AtMostOne}
        \cup {Loop(c1, c2, c3, c4) : c1 \in AtMostOne, c2 \in AtMostOne, c3 \in UpTo(Small, 2), c4 \in AtMostOne}

AllPrograms == StraightPrograms \cup BranchPrograms

---------------------------------------------------------------------------
(* Bodies on which optimize() does not do what it says.                    *)

\* A dense switch on g: x is set before and read in the first case only.
TablePrograms ==
    {[Blank EXCEPT !.code[b1] = <<Set(DX, Imm(One))>>,
                   !.expr = [Blank.expr EXCEPT ![b2] = as_expr(DG), ![b3] = as_expr(DX)],
                   !.jump[b1] = <<b2>>, !.table[b2] = <<b3, b4, b4, b4>>,
                   !.ret[b3] = TRUE]}
===========================================================================
