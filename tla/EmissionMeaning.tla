-------------------------- MODULE EmissionMeaning --------------------------
(***************************************************************************)
(* What blocks and emitted code mean, and that they mean the same.  Both   *)
(* are read as machines that do one visible thing after the other: a       *)
(* statement, the evaluation of a condition, a return.  Labels and jumps   *)
(* are not visible, and neither is where a block begins.                   *)
(***************************************************************************)
EXTENDS CodeLayout

Nothing == Instr("nothing", Null, 0, "")

(***************************************************************************)
(* The blocks: the first visible thing at or behind the n-th statement of  *)
(* a block.                                                                *)
(***************************************************************************)
RECURSIVE Visible(_, _, _)
Visible(b, n, bound) ==
    IF blocks[b].table # <<>> THEN Cond(b)
    ELSE IF n <= blocks[b].stmts THEN Stmt(b, n)
    ELSE IF blocks[b].jump = <<Null, Null>> THEN Ret(b)
    ELSE IF IsTwoWay(b) THEN Cond(b)
    ELSE IF bound = 0 THEN Nothing
    ELSE Visible(blocks[b].jump[1], 1, bound - 1)

Start(b) == Visible(b, 1, Len(blocks))

-----------------------------------------------------------------------------
(***************************************************************************)
(* The code: the first visible thing at or behind instruction i, after the *)
(* comparison c with outcome o.  A jump of native code leads to a label, a *)
(* jump of the virtual machine is relative.                                *)
(***************************************************************************)
Program == IF target = "vm" THEN exec ELSE code
Goal(i) == IF target = "vm" THEN i + Program[i].n ELSE IndexOfLabel(Program[i].b)

RECURSIVE Runs(_, _, _, _)
Runs(i, c, o, bound) ==
    IF i \notin DOMAIN Program \/ bound = 0 THEN Nothing
    ELSE IF Program[i].op \in {"label", "nop"} THEN Runs(i + 1, c, o, bound - 1)
    ELSE IF ~IsJump(Program[i]) THEN Program[i]
    ELSE Runs(IF Jumps(Program[i], c, o) THEN Goal(i) ELSE i + 1, c, o, bound - 1)

RunsFrom(i, c, o) == Runs(i, c, o, 2 * Len(Program))

(* What follows on an instruction that is not a jump is what follows in    *)
(* the blocks, whatever the outcome of a comparison.                       *)
Agrees(i) ==
    LET b == Program[i].b
        c == blocks[b].cond
        Always == [signed |-> "equal", unsigned |-> "equal"]
    IN  CASE Program[i].op = "stmt" ->
                RunsFrom(i + 1, c, Always) = Visible(b, Program[i].n + 1, Len(blocks))
          [] Program[i].op = "cond" /\ blocks[b].table # <<>> ->
                /\ Program[i + 1] = Table(b)
                /\ \A k \in DOMAIN blocks[b].table :
                      /\ Program[i + 1 + k].op = "entry"
                      /\ RunsFrom(Goal(i + 1 + k), c, Always) = Start(blocks[b].table[k])
          [] Program[i].op = "cond" /\ blocks[b].table = <<>> ->
                \A o \in Outcomes(c) :
                    RunsFrom(i + 1, c, o) = Start(blocks[b].jump[IF Holds(c, o) THEN 2 ELSE 1])
          [] OTHER -> TRUE

-----------------------------------------------------------------------------
(* The code that compile_block or vm_gen_node leave, its jumps resolved    *)
(* and shortened, does what the blocks do: it starts with what the first   *)
(* block starts with, and after every statement and every condition it     *)
(* goes on with what follows in the blocks, also if both branches were     *)
(* emitted before or a comparison is unordered.                            *)
EmittedAsBuilt ==
    EmissionDone =>
        /\ RunsFrom(1, blocks[1].cond, [signed |-> "equal", unsigned |-> "equal"]) = Start(1)
        /\ \A i \in DOMAIN Program : Agrees(i)
=============================================================================
