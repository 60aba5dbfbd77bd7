--------------------------- MODULE BlockEmission ---------------------------
(***************************************************************************)
(* How the blocks of a function become linear code: compile_block of the   *)
(* native back end (backend/compile.c) with the choice of instructions for *)
(* a comparison, and vm_gen_node of the virtual machine                    *)
(* (backend/vm/vminstr.c) with the resolution and the shortening of its    *)
(* jumps.  Both walk the blocks depth first and emit a block where they    *)
(* first meet it, so that a block may fall through into the next one.      *)
(*                                                                         *)
(* A block is                                                              *)
(*    [stmts : Nat,           the number of its statements                 *)
(*     jump : Seq of two,     the blocks behind it, Null for none          *)
(*     body, table,           the body if it is the head of a loop, the    *)
(*                            entries if it ends in a jump table           *)
(*     cond]                  what is compared if it has two successors    *)
(* and blocks[1] is the first one.                                         *)
(***************************************************************************)
EXTENDS Integers, Sequences, SequencesExt, FiniteSets

CONSTANTS
    Graphs,   \* the flow graphs
    NoBlock   \* NULL

(* What is compared at the end of a block: see below. *)
Conditions ==
    [op : {"EQ", "NE", "GE", "GT", "value"}, type : {"int", "unsigned", "real"},
     constant : {"none", "left", "right"}]

(* Jumps lead to blocks of the graph.  A block with a second successor and *)
(* the head of a loop have a first one.  Nothing is ever put into the head *)
(* of a loop (while_statement, for_statement) or into the block of a jump  *)
(* table (link_switch_context_jump_table).                                 *)
IsFlowGraph(g) ==
    LET Ids == 1..Len(g)
        Blocks == [stmts : Nat, jump : (Ids \cup {NoBlock}) \X (Ids \cup {NoBlock}),
                   body : Ids \cup {NoBlock}, table : Seq(Ids), cond : Conditions]
    IN  /\ Len(g) > 0
        /\ \A b \in Ids :
              /\ g[b] \in Blocks
              /\ g[b].jump[2] # NoBlock \/ g[b].body # NoBlock => g[b].jump[1] # NoBlock
              /\ g[b].body # NoBlock \/ g[b].table # <<>> => g[b].stmts = 0

ASSUME GraphsAssumption ==
    /\ \A g \in Graphs : DOMAIN g = 1..Len(g) /\ Len(g) \in Nat /\ IsFlowGraph(g)
    /\ NoBlock \notin Nat \ {0}

VARIABLES
    blocks,   \* the blocks of the definition
    target,   \* "native" or "vm"
    color,    \* the color of every block
    work,     \* the calls of compile_block that are under way
    code,     \* the code emitted so far
    exec,     \* the code of the virtual machine without its labels
    at,       \* the instruction that jump_optimization is at
    dst       \* the instruction it has followed the jump to

emission == <<blocks, target, color, work, code, exec, at, dst>>

Instr(op, b, n, cc) == [op |-> op, b |-> b, n |-> n, cc |-> cc]
Label(b) == Instr("label", b, 0, "")
Stmt(b, i) == Instr("stmt", b, i, "")
Cond(b) == Instr("cond", b, 0, "")
Jmp(b) == Instr("jmp", b, 0, "")
J(cc, b) == Instr("jcc", b, 0, cc)
Jnz(b) == Instr("jnz", b, 0, "")
Ret(b) == Instr("ret", b, 0, "")
Table(b) == Instr("table", b, 0, "")
Entry(b) == Instr("entry", b, 0, "")

IsJump(i) == i.op \in {"jmp", "jcc", "jnz"}

-----------------------------------------------------------------------------
(***************************************************************************)
(* Comparisons.  cond is [op, type, constant]: op is a comparison of the   *)
(* IR or "value" for any other expression, whose value is then compared    *)
(* with zero; constant tells which operand is a constant that an           *)
(* instruction can hold.                                                   *)
(***************************************************************************)
is_real(c) == c.type = "real"

(* compile_compare: the condition that holds after the comparison; with a  *)
(* constant on the left the operands of the instruction are exchanged.     *)
Exchanged(c) == c.constant = "left" /\ ~is_real(c)
compile_compare_keeps(c) ==
    LET above == is_real(c) \/ c.type = "unsigned"
    IN  CASE c.op = "EQ" -> "E"
          [] c.op = "NE" -> "NE"
          [] c.op = "GE" -> IF above THEN "AE" ELSE "GE"
          [] c.op = "GT" -> IF above THEN "A" ELSE "G"

compile_compare(c) ==
    LET above == is_real(c) \/ c.type = "unsigned"
        cc == CASE c.op = "EQ" -> "E"
                [] c.op = "NE" -> "NE"
                [] c.op = "GE" -> IF above THEN "AE" ELSE "GE"
                [] c.op = "GT" -> IF above THEN "A" ELSE "G"
    IN  IF ~Exchanged(c) THEN cc
        ELSE CASE cc = "AE" -> "NA" [] cc = "GE" -> "NG" [] cc = "A" -> "NAE" [] cc = "G" -> "NGE"
               [] OTHER -> cc

Negated(cc) ==
    CASE cc = "E" -> "NE" [] cc = "NE" -> "E"
      [] cc = "A" -> "NA" [] cc = "NA" -> "A" [] cc = "AE" -> "NAE" [] cc = "NAE" -> "AE"
      [] cc = "G" -> "NG" [] cc = "NG" -> "G" [] cc = "GE" -> "NGE" [] cc = "NGE" -> "GE"

(* The jumps at the end of a block.  Floating point values that are not    *)
(* ordered set the parity flag; otherwise one jump is enough (JMP_CHECK),  *)
(* back to the second successor if that is emitted and the first is not.   *)
BranchCode(b, back) ==
    LET block == blocks[b]
        j0 == block.jump[1]
        j1 == block.jump[2]
        JMP_CHECK(cc) == IF back THEN <<J(cc, j1)>> ELSE <<J(Negated(cc), j0)>>
        Unless(eq, ne) == <<J("NE", ne), J("P", ne), Jmp(eq)>>
    IN  IF block.cond.op = "value"
        THEN IF is_real(block.cond) THEN Unless(j0, j1) ELSE JMP_CHECK("NE")
        ELSE IF is_real(block.cond) /\ block.cond.op = "EQ" THEN Unless(j1, j0)
        ELSE IF is_real(block.cond) /\ block.cond.op = "NE" THEN Unless(j0, j1)
        ELSE JMP_CHECK(compile_compare(block.cond))

(* Whether the jump back was the only one that is needed. *)
reversed(b, back) ==
    /\ back
    /\ ~(is_real(blocks[b].cond) /\ blocks[b].cond.op \in {"value", "EQ", "NE"})

-----------------------------------------------------------------------------
(* The walk over the blocks. *)

Null == NoBlock
Enter(b) == [pc |-> "enter", b |-> b]
Top == Last(work)
Below == Front(work)
Black(b) == color[b] = "black"
Statements(b) == [i \in 1..blocks[b].stmts |-> Stmt(b, i)]

(* emit_vm_jmp leaves out a jump that is never reached. *)
EmitJmp(c, b) ==
    IF target = "vm" /\ c # <<>> /\ Last(c).op = "jmp" THEN c ELSE Append(c, Jmp(b))

EmitKeep == UNCHANGED <<blocks, target, exec, at, dst>>

(* compile_block and vm_gen_node up to the first call *)
EnterBlock ==
    /\ work # <<>> /\ Top.pc = "enter"
    /\ LET b == Top.b
           block == blocks[b]
       IN  \/ Black(b) /\ work' = Below /\ UNCHANGED <<color, code>>
           \/ /\ ~Black(b)
              /\ color' = [color EXCEPT ![b] = "black"]
              /\ IF block.table # <<>>
                 THEN /\ code' = code \o <<Label(b), Cond(b), Table(b)>>
                                      \o [i \in DOMAIN block.table |-> Entry(block.table[i])]
                      /\ work' = Below \o Reverse([i \in DOMAIN block.table |-> Enter(block.table[i])])
                 ELSE IF block.body # Null
                 THEN /\ code' = EmitJmp(Append(code, Label(b)), block.jump[1])
                      /\ work' = Below \o <<[pc |-> "code", b |-> b], Enter(block.body)>>
                 ELSE /\ code' = Append(code, Label(b))
                      /\ work' = Append(Below, [pc |-> "code", b |-> b])
    /\ EmitKeep

(* The statements, and the successor of a block that has at most one *)
EmitCode ==
    /\ work # <<>> /\ Top.pc = "code"
    /\ LET b == Top.b
           block == blocks[b]
           emitted == code \o Statements(b)
           j0 == block.jump[1]
       IN  \/ /\ block.body # Null
              /\ code' = emitted /\ work' = Append(Below, Enter(j0))
           \/ /\ block.body = Null /\ block.jump = <<Null, Null>>
              /\ code' = Append(emitted, Ret(b)) /\ work' = Below
           \/ /\ block.body = Null /\ j0 # Null /\ block.jump[2] = Null
              /\ IF Black(j0) THEN code' = EmitJmp(emitted, j0) /\ work' = Below
                              ELSE code' = emitted /\ work' = Append(Below, Enter(j0))
    /\ UNCHANGED color
    /\ EmitKeep

IsTwoWay(b) == blocks[b].body = Null /\ blocks[b].jump[2] # Null

(* The native branch: the second successor comes first. *)
EmitBranch ==
    /\ target = "native"
    /\ work # <<>> /\ Top.pc = "code" /\ IsTwoWay(Top.b)
    /\ LET b == Top.b
           j0 == blocks[b].jump[1]
           j1 == blocks[b].jump[2]
           back == Black(j1) /\ ~Black(j0)
           branch == code \o Statements(b) \o <<Cond(b)>> \o BranchCode(b, back)
       IN  IF Black(j1)
           THEN /\ code' = IF reversed(b, back) THEN branch ELSE Append(branch, Jmp(j1))
                /\ work' = Append(Below, Enter(j0))
           ELSE code' = branch /\ work' = Below \o <<Enter(j0), Enter(j1)>>
    /\ UNCHANGED color
    /\ EmitKeep

(* The branch of the virtual machine: the first successor comes first, and *)
(* a jump to the second one if that was emitted meanwhile (NEXT_BLOCK).    *)
EmitVMBranch ==
    /\ target = "vm"
    /\ work # <<>> /\ Top.pc = "code" /\ IsTwoWay(Top.b)
    /\ LET b == Top.b
           j0 == blocks[b].jump[1]
           branch == code \o Statements(b) \o <<Cond(b), Jnz(blocks[b].jump[2])>>
           rest == Append(Below, [pc |-> "next", b |-> b])
       IN  IF Black(j0) THEN code' = EmitJmp(branch, j0) /\ work' = rest
                        ELSE code' = branch /\ work' = Append(rest, Enter(j0))
    /\ UNCHANGED color
    /\ EmitKeep

EmitVMNextUnseen ==
    /\ work # <<>> /\ Top.pc = "next"
    /\ work' = Below
    /\ UNCHANGED <<code, color>>
    /\ EmitKeep

EmitVMNext ==
    /\ work # <<>> /\ Top.pc = "next"
    /\ LET j1 == blocks[Top.b].jump[2]
       IN  IF Black(j1) THEN code' = EmitJmp(code, j1) /\ work' = Below
                        ELSE work' = Append(Below, Enter(j1)) /\ UNCHANGED code
    /\ UNCHANGED color
    /\ EmitKeep

-----------------------------------------------------------------------------
(* The jumps of the virtual machine. *)

Emitted == work = <<>>

IndexOfLabel(b) == CHOOSE i \in DOMAIN code : code[i] = Label(b)

(* update_label_index: a label is the place of the next instruction *)
LabelIndex(b) == Cardinality({i \in 1..IndexOfLabel(b) : code[i].op # "label"}) + 1

(* vm_gen_lir: a return at the end, unless it cannot be reached *)
Closed == IF Last(code).op \in {"ret", "jmp"} THEN code ELSE Append(code, Ret(Null))

Instructions == SelectSeq(Closed, LAMBDA i : i.op # "label")

(* reassign_label_index: a jump holds the distance to its label *)
Resolved ==
    [i \in DOMAIN Instructions |->
        IF IsJump(Instructions[i]) \/ Instructions[i].op = "entry"
        THEN [Instructions[i] EXCEPT !.n = LabelIndex(Instructions[i].b) - i]
        ELSE Instructions[i]]

Resolve ==
    /\ target = "vm" /\ Emitted /\ at = 0
    /\ code' = Closed
    /\ exec' = Resolved
    /\ at' = 1
    /\ UNCHANGED <<blocks, target, color, work, dst>>

(* jump_optimization: a jump to a jump becomes a jump to where that leads, *)
(* and a jump to the next instruction becomes none.                        *)
Shortened(i, d) == [i EXCEPT !.n = d, !.op = IF d = 1 THEN "nop" ELSE @]

(* The instruction that the loop comes to when it is done with a jump. *)
NextAtJump == IF IsJump(exec[at]) THEN dst ELSE at + 1
NextAt == at + 1

OptimizeJump ==
    /\ at \in DOMAIN exec
    /\ \/ /\ ~IsJump(exec[at])
          /\ at' = NextAt
          /\ UNCHANGED <<exec, dst>>
       \/ /\ IsJump(exec[at]) /\ dst = 0
          /\ dst' = at + exec[at].n
          /\ UNCHANGED <<exec, at>>
       \/ /\ dst \in DOMAIN exec /\ exec[dst].op = "jmp"
          /\ dst' = dst + exec[dst].n
          /\ UNCHANGED <<exec, at>>
       \/ /\ dst \in DOMAIN exec /\ exec[dst].op # "jmp"
          /\ exec' = [exec EXCEPT ![at] = Shortened(@, dst - at)]
          /\ at' = NextAt
          /\ dst' = 0
    /\ UNCHANGED <<blocks, target, color, work, code>>

-----------------------------------------------------------------------------
Init ==
    /\ blocks \in Graphs
    /\ target \in {"native", "vm"}
    /\ color = [b \in DOMAIN blocks |-> "white"]
    /\ work = <<Enter(1)>>
    /\ code = <<>>
    /\ exec = <<>>
    /\ at = 0
    /\ dst = 0

Next ==
    \/ EnterBlock \/ EmitCode \/ EmitBranch \/ EmitVMBranch \/ EmitVMNext
    \/ Resolve \/ OptimizeJump

Spec == Init /\ [][Next]_emission

(* One thread, so it goes on running. *)
FairSpec == Spec /\ WF_emission(Next)

EmissionDone == Emitted /\ (target = "vm" => at > 0 /\ at > Len(exec))

-----------------------------------------------------------------------------
(* Every block is labelled once, and whatever a jump or a table refers to  *)
(* is labelled when the function is complete.                              *)
Refers(i) == IsJump(i) \/ i.op = "entry"
LabelsOnce(c) == \A i, j \in DOMAIN c : c[i].op = "label" /\ c[i] = c[j] => i = j
HasLabel(c, b) == \E i \in DOMAIN c : c[i] = Label(b)
JumpsLabelled ==
    /\ LabelsOnce(code)
    /\ Emitted => \A i \in DOMAIN code : Refers(code[i]) => HasLabel(code, code[i].b)

(* The walk over the blocks and the shortening of jumps end.               *)
EmissionEnds == <>EmissionDone
=============================================================================
