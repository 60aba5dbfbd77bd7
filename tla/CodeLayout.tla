---------------------------- MODULE CodeLayout ----------------------------
(***************************************************************************)
(* What a comparison leaves for the jumps behind it, and how code with     *)
(* labels lays out a flow graph: every instruction is followed by the one  *)
(* that the graph wants next, or by a way to it.                           *)
(***************************************************************************)
EXTENDS BlockEmission

(***************************************************************************)
(* The outcome of a comparison of l and r: how they compare as signed and  *)
(* as unsigned numbers, which are equal together, or as reals, which may   *)
(* be unordered.  A condition that is no comparison compares with zero.    *)
(***************************************************************************)
Orders == {"less", "equal", "greater"}
Outcomes(c) ==
    IF is_real(c) THEN {[signed |-> o, unsigned |-> o] : o \in Orders \cup {"unordered"}}
    ELSE {o \in [signed : Orders, unsigned : Orders] : o.signed = "equal" <=> o.unsigned = "equal"}

Holds(c, o) ==
    LET order == IF c.type = "unsigned" THEN o.unsigned ELSE o.signed
    IN  CASE c.op = "EQ" -> order = "equal"
          [] c.op \in {"NE", "value"} -> order # "equal"
          [] c.op = "GE" -> order \in {"equal", "greater"}
          [] c.op = "GT" -> order = "greater"

(* The flags after the comparison, and what a jump makes of them. *)
Opposite(order) ==
    CASE order = "less" -> "greater" [] order = "greater" -> "less" [] OTHER -> order
Flags(c, o) ==
    LET s == IF Exchanged(c) THEN Opposite(o.signed) ELSE o.signed
        u == IF Exchanged(c) THEN Opposite(o.unsigned) ELSE o.unsigned
    IN  [Z |-> u \in {"equal", "unordered"}, C |-> u \in {"less", "unordered"},
         P |-> u = "unordered", L |-> s = "less" /\ ~is_real(c)]

Taken(cc, f) ==
    CASE cc = "E" -> f.Z [] cc = "NE" -> ~f.Z [] cc = "P" -> f.P
      [] cc = "A" -> ~f.C /\ ~f.Z [] cc = "NA" -> f.C \/ f.Z
      [] cc = "AE" -> ~f.C [] cc = "NAE" -> f.C
      [] cc = "G" -> ~f.Z /\ ~f.L [] cc = "NG" -> f.Z \/ f.L
      [] cc = "GE" -> ~f.L [] cc = "NGE" -> f.L

(* JNZ of the virtual machine takes the truth value. *)
Jumps(i, c, o) ==
    CASE i.op = "jmp" -> TRUE
      [] i.op = "jcc" -> Taken(i.cc, Flags(c, o))
      [] i.op = "jnz" -> Holds(c, o)

-----------------------------------------------------------------------------
(***************************************************************************)
(* The layout of the code c, behind which the block next is about to be    *)
(* emitted (Null if none is).  From position p control comes to block b.   *)
(***************************************************************************)
IsAt(c, p, i) == p \in DOMAIN c /\ c[p] = i
LeadsTo(c, next, p, b) ==
    IsAt(c, p, Label(b)) \/ IsAt(c, p, Jmp(b)) \/ (p = Len(c) + 1 /\ b = next /\ b # Null)

(* The same behind a condition with outcome o: conditional jumps that are  *)
(* not taken, then one that is or a way to b.                              *)
IsConditional(i) == i.op \in {"jcc", "jnz"}
Passes(c, p, cond, o) == p \in DOMAIN c /\ IsConditional(c[p]) /\ ~Jumps(c[p], cond, o)
Leaves(c, p, cond, o, b) ==
    p \in DOMAIN c /\ IsConditional(c[p]) /\ Jumps(c[p], cond, o) /\ c[p].b = b
Decides(c, next, p, cond, o, b) ==
    \E q \in p..Len(c) + 1 :
        /\ \A m \in p..q - 1 : Passes(c, m, cond, o)
        /\ Leaves(c, q, cond, o, b) \/ LeadsTo(c, next, q, b)

(* At p the block b goes on with its n-th statement, or with what is       *)
(* behind the last one.                                                    *)
GoesOn(c, next, b, n, p) ==
    LET block == blocks[b]
    IN  IF n <= block.stmts THEN IsAt(c, p, Stmt(b, n))
        ELSE IF block.table # <<>> \/ IsTwoWay(b) THEN IsAt(c, p, Cond(b))
        ELSE IF block.jump = <<Null, Null>> THEN IsAt(c, p, Ret(b))
        ELSE LeadsTo(c, next, p, block.jump[1])

(* Behind instruction i comes what the graph has there. *)
Follows(c, next, i) ==
    LET b == c[i].b
        block == blocks[b]
    IN  /\ c[i].op = "label" => GoesOn(c, next, b, 1, i + 1)
        /\ c[i].op = "stmt" => GoesOn(c, next, b, c[i].n + 1, i + 1)
        /\ c[i].op = "cond" /\ block.table # <<>> =>
              /\ IsAt(c, i + 1, Table(b))
              /\ \A k \in DOMAIN block.table : IsAt(c, i + 1 + k, Entry(block.table[k]))
        /\ c[i].op = "cond" /\ block.table = <<>> =>
              \A o \in Outcomes(block.cond) :
                  Decides(c, next, i + 1, block.cond, o, block.jump[IF Holds(block.cond, o) THEN 2 ELSE 1])

-----------------------------------------------------------------------------
(* The code that compile_block or vm_gen_node leave is a layout of the     *)
(* flow graph: it starts with the first block; a block is labelled once,   *)
(* and where a jump or a table leads to; behind a label, a statement or a  *)
(* condition control comes to what the graph has there, for every          *)
(* outcome of the condition, whatever was emitted before it.               *)
LaidOut ==
    /\ JumpsLabelled
    /\ Emitted => IsAt(code, 1, Label(1)) /\ \A i \in DOMAIN code : Follows(code, Null, i)
=============================================================================
