------------------------------- MODULE VMCode -------------------------------
(***************************************************************************)
(* The code generator of the virtual machine for the statements of a       *)
(* function (vminstr.c) and the machine that runs the code (vmrunlir.c).   *)
(*                                                                         *)
(* Every value is loaded onto a stack and popped into its variable; the    *)
(* generator looks at the last instruction it emitted to leave out what    *)
(* the machine would only undo: the pop and load of a temporary            *)
(* disappear, the pop and load of a variable become a store, operands are  *)
(* loaded in the other order, zeros that lie side by side are filled at    *)
(* once, and the clean-up behind a call takes the result with it.          *)
(*                                                                         *)
(* Memory is made of cells of two bits: a char has one cell, an int two, a *)
(* long or a pointer four, which is a slot of the stack.  Globals, frames  *)
(* and operands share one array, as in the program.  Floating point,       *)
(* division, strings, setjmp and function pointers are left out; blocks    *)
(* and their labels are the subject of BlockEmission.                      *)
(***************************************************************************)
EXTENDS Integers, Sequences, SequencesExt, Bitwise

CONSTANTS
  Programs,     \* [data : assignments of constants, body : [code, end] of each function]
  Functions,    \* names of functions, in the order of their definition, main last
  Params,       \* the parameters of each function
  Locals,       \* its local variables and temporaries
  Globals,      \* the global objects, in the order of their definition
  Sizes,        \* the size of each symbol
  Temporaries,  \* the symbols whose name starts with a point
  StackSize     \* bound on the array of the machine

VARIABLES
  prog,    \* the program
  phase,   \* "gen", "run", "halt" or "exit" (a null pointer)
  unit,    \* the function being generated, 0 for the data
  pos,     \* its next statement, 0 before the function is entered
  offset,  \* the place of each symbol in its frame or among the globals
  args,    \* vm_func_args: arguments seen and not yet pushed
  code,    \* vm_prog.code
  glbl,    \* vm_glbl.code
  exec,    \* vm_prog.exec: the instructions without the labels
  ip, sp, bp, stack, retsize, retval   \* the machine

gen == <<unit, pos, offset, args, code, glbl>>
machine == <<ip, sp, bp, stack, retsize, retval>>
vars == <<prog, phase, gen, exec, machine>>

Cell == 4
Slot == 4
VM_INCDEC_COUNT_MAX == 3

(***************************************************************************)
(* Types, operands and statements of the intermediate representation.      *)
(***************************************************************************)
Type(size, signed) == [size |-> size, signed |-> signed, object |-> FALSE]
T_VOID == Type(0, FALSE)
T_CHAR == Type(1, TRUE)
T_INT == Type(2, TRUE)
T_UINT == Type(2, FALSE)
T_LONG == Type(4, TRUE)
Struct(size) == [size |-> size, signed |-> FALSE, object |-> TRUE]

Var(kind, sym, type, at) ==
  [kind |-> kind, sym |-> sym, type |-> type, offset |-> at, field |-> <<>>, imm |-> 0]
Imm(type, n) == [Var("immediate", "", type, 0) EXCEPT !.imm = n]
Direct(sym, type) == Var("direct", sym, type, 0)
Member(sym, type, at) == Var("direct", sym, type, at)
Address(sym) == Var("address", sym, T_LONG, 0)
Deref(sym, type, at) == Var("deref", sym, type, at)
\* The bits of an unsigned member from `low' on.
Field(sym, low, width) == [Direct(sym, T_UINT) EXCEPT !.field = <<low, width>>]
is_field(v) == v.field # <<>>

Expr(op, type, l, r) == [op |-> op, type |-> type, l |-> l, r |-> r]
NoVar == Imm(T_VOID, 0)
Cast(type, v) == Expr("cast", type, v, NoVar)
Same(v) == Cast(v.type, v)
Call(type, f) == Expr("call", type, Address(f), NoVar)
Assign(t, e) == [st |-> "assign", t |-> t, expr |-> e]
Param(e) == [st |-> "param", t |-> NoVar, expr |-> e]
Statement(e) == [st |-> "expr", t |-> NoVar, expr |-> e]

(***************************************************************************)
(* Where symbols live: globals and locals one behind the other, the        *)
(* parameters of a function below the return address and the saved BP,     *)
(* the last one lowest.                                                    *)
(***************************************************************************)
\* PAD8
Pad(n) == IF n < Slot THEN Slot ELSE n + ((Slot - (n % Slot)) % Slot)
Room(symbols) == FoldLeft(LAMBDA sum, s : sum + Pad(Sizes[s]), 0, symbols)
Before(symbols, s) == SelectInSeq(symbols, LAMBDA x : x = s) - 1
IsGlobal(s) == s \in ToSet(Globals)
\* sym->stack_offset: vm_func_enter for the parameters, vm_allocate_locals for the locals.
ParamOffset(f, s) == -(2 * Slot) - Room(SubSeq(Params[f], 1, Before(Params[f], s) + 1))
LocalOffset(f, s) == Room(SubSeq(Locals[f], 1, Before(Locals[f], s)))
\* sym->global_offset
GlobalOffset(s) == Room(SubSeq(Globals, 1, Before(Globals, s)))

(***************************************************************************)
(* Instructions.                                                           *)
(***************************************************************************)
NoAddr == [is_global |-> FALSE, base |-> 0, offset |-> 0, size |-> 0]
Instr(op, type, addr, n) == [op |-> op, type |-> type, addr |-> addr, n |-> n]
Op(op, type) == Instr(op, type, NoAddr, 0)
PushImm(type, n) == Instr("push_imm", type, NoAddr, n)
AddrOf(v, size) ==
  [is_global |-> IsGlobal(v.sym), base |-> offset[v.sym], offset |-> v.offset, size |-> size]
At(v) == AddrOf(v, IF is_field(v) THEN T_INT.size ELSE v.type.size)
Label(name) == Instr("label", T_VOID, NoAddr, name)

Is(c, op) == c # <<>> /\ Last(c).op = op

(***************************************************************************)
(* Loading and storing.  `protect' is protect_remove_tempvar.              *)
(***************************************************************************)
LowMask(w) == 2^w - 1
ClearMask(f) == Cell^T_INT.size - 1 - LowMask(f[2]) * 2^f[1]

\* Bits of a field, taken out of the int on the stack.
FieldBits(f) ==
  (IF f[1] > 0 THEN <<PushImm(T_INT, f[1]), Op("shr", T_INT)>> ELSE <<>>)
    \o <<PushImm(T_UINT, LowMask(f[2])), Op("and", T_UINT)>>

\* Mutant: the offset of a member is not compared.
JustPoppedPart(c, v) ==
  Is(c, "pop") /\ Last(c).type # T_VOID /\ [Last(c).addr EXCEPT !.offset = v.offset] = At(v)
JustPopped(c, v) == Is(c, "pop") /\ Last(c).type # T_VOID /\ Last(c).addr = At(v)

emit_vm_load(c, v, protect) ==
  IF ~protect /\ ~is_field(v) /\ JustPopped(c, v)
  THEN IF v.sym \in Temporaries THEN Front(c) ELSE [c EXCEPT ![Len(c)].op = "store"]
  ELSE Append(c, Instr("push_var", v.type, At(v), 0))
         \o (IF is_field(v) THEN FieldBits(v.field) ELSE <<>>)

vm_load_var(c, v, protect) ==
  CASE v.kind = "immediate" -> Append(c, PushImm(v.type, v.imm))
    [] v.kind = "direct" -> emit_vm_load(c, v, protect)
    [] v.kind = "address" -> Append(c, Instr("push_addr", T_LONG, At(v), 0))
    [] v.kind = "deref" ->
         emit_vm_load(c, Direct(v.sym, T_LONG), TRUE)
           \o (IF v.offset # 0 THEN <<PushImm(T_INT, v.offset), Op("add", T_LONG)>> ELSE <<>>)
           \o <<Op("deref", v.type)>>

\* The other bits of the int that holds a field.
OtherBits(v) ==
  <<Instr("push_var", T_UINT, At(v), 0), PushImm(T_UINT, ClearMask(v.field)), Op("and", T_UINT)>>

vm_store_bitfield_zero(c, v) == c \o OtherBits(v) \o <<Instr("pop", v.type, At(v), 0)>>

emit_vm_store(c, v) ==
  c \o (IF is_field(v)
        THEN (IF v.field[1] > 0 THEN <<PushImm(T_INT, v.field[1]), Op("shl", T_INT)>> ELSE <<>>)
               \o OtherBits(v) \o <<Op("or", T_UINT)>>
        ELSE <<>>)
    \o <<Instr("pop", IF is_field(v) THEN T_UINT ELSE v.type, At(v), 0)>>

vm_store_var(c, v) ==
  IF v.kind = "deref" THEN Append(c, Instr("depop", v.type, AddrOf(v, v.type.size), 0))
  ELSE emit_vm_store(c, v)

emit_vm_fill_zero(c, v) ==
  LET a == At(v)
      l == Last(c).addr
  IN  IF Is(c, "fzero") /\ l.base + l.offset + l.size = a.base + a.offset
      THEN [c EXCEPT ![Len(c)].addr.size = @ + a.size]
      ELSE Append(c, Instr("fzero", T_VOID, a, 0))

-----------------------------------------------------------------------------
(***************************************************************************)
(* Expressions.                                                            *)
(***************************************************************************)
\* Load two operands; the load of a dereferenced pointer ends the protection.
vm_load_two(c, first, second, protect) ==
  vm_load_var(vm_load_var(c, first, protect), second, protect /\ first.kind # "deref")

is_swap_available(c, v) ==
  v.sym # "" /\ Is(c, "pop") /\ Last(c).addr = AddrOf(v, v.type.size)

\* The operation and the one that gives the same with its operands exchanged.
Swapped == [op \in {"add", "mul", "and", "or", "xor", "eq", "ne", "ge", "gt"} |->
              CASE op = "ge" -> "le" [] op = "gt" -> "lt" [] OTHER -> op]

\* GEN_2OP_SWAP_CHECK and its variant for comparisons, which look at the type of the operands.
gen_2op_swap_check(c, e, protect) ==
  LET type == IF e.op \in {"ge", "gt"} THEN e.l.type ELSE e.type
  IN  IF is_swap_available(c, e.r)
      THEN Append(vm_load_two(c, e.r, e.l, protect), Op(Swapped[e.op], type))
      ELSE Append(vm_load_two(c, e.l, e.r, protect), Op(e.op, type))

\* The type is int, signed or not.
IsSmallStep(e) ==
  e.r.kind = "immediate" /\ e.r.type \in {T_INT, T_UINT} /\ e.r.imm \in 1..VM_INCDEC_COUNT_MAX

ArgSize(as) == FoldLeft(LAMBDA sum, e : sum + Pad(e.type.size), 0, as)

emit_vm_cleanup(size) == IF size > 0 THEN <<Instr("clup", T_VOID, NoAddr, size)>> ELSE <<>>

\* pushed is the size of the arguments on the stack, vm_func_args.size.
vm_gen_expr(c, e, pushed, protect) ==
  CASE e.op = "cast" ->
         vm_load_var(c, e.l, protect)
           \o (IF e.type = e.l.type THEN <<>> ELSE <<[Op("cast", e.type) EXCEPT !.n = e.l.type]>>)
    [] e.op = "call" ->
         Append(c, Instr("call", T_VOID, NoAddr, e.l.sym)) \o emit_vm_cleanup(pushed)
    [] e.op \in {"not", "neg"} -> Append(vm_load_var(c, e.l, protect), Op(e.op, e.l.type))
    [] e.op \in {"add", "sub"} /\ IsSmallStep(e) ->
         vm_load_var(c, e.l, protect)
           \o [i \in 1..e.r.imm |-> Op(IF e.op = "add" THEN "inc" ELSE "dec", T_INT)]
    [] e.op \in DOMAIN Swapped /\ ~(e.op = "add" /\ IsSmallStep(e)) -> gen_2op_swap_check(c, e, protect)
    [] e.op \in {"sub", "shl", "shr"} /\ ~(e.op = "sub" /\ IsSmallStep(e)) ->
         Append(vm_load_two(c, e.l, e.r, protect), Op(e.op, e.type))

\* PUSH_ARGS: from the last to the first.
push_args(c, as) == FoldRight(LAMBDA e, d : vm_gen_expr(d, e, 0, FALSE), as, c)

\* Mutant: the arguments are removed, the result stays.
emit_vm_pop_args(c, v) ==
  IF Is(c, "clup") THEN [c EXCEPT ![Len(c)].op = "clpop"]
  ELSE Append(c, Instr("pop", T_VOID, NoAddr, v.type.size))
emit_vm_pop(c, v) ==
  IF Is(c, "clup") THEN [c EXCEPT ![Len(c)].op = "clpop", ![Len(c)].n = @ + v.type.size]
  ELSE Append(c, Instr("pop", T_VOID, NoAddr, v.type.size))

\* A pop into a local is dropped before the return; the machine resets the stack.
emit_vm_ret(c, size) ==
  LET d == IF Is(c, "pop") /\ Last(c).type # T_VOID /\ ~Last(c).addr.is_global THEN Front(c) ELSE c
  IN  IF Is(c, "jmp") \/ Is(c, "ret") THEN d
      ELSE Append(d, Instr("ret", T_VOID, NoAddr, size))

(***************************************************************************)
(* Statements.                                                             *)
(***************************************************************************)
is_constant_imm(e) == e.op = "cast" /\ e.l.kind = "immediate"
is_constant_zero(e) == is_constant_imm(e) /\ e.l.imm = 0

gen_assign(c, s, pushed) ==
  LET protect == s.t.sym \in Temporaries /\ s.t.kind = "deref"
  IN  CASE ~is_field(s.t) /\ is_constant_zero(s.expr) /\ s.t.kind # "deref" -> emit_vm_fill_zero(c, s.t)
        [] is_field(s.t) /\ is_constant_zero(s.expr) -> vm_store_bitfield_zero(c, s.t)
        [] is_field(s.t) /\ is_constant_imm(s.expr) /\ ~is_constant_zero(s.expr) ->
             vm_store_var(Append(c, PushImm(T_UINT, s.expr.l.imm % 2^s.t.field[2])), s.t)
        [] OTHER -> vm_store_var(vm_gen_expr(c, s.expr, pushed, protect), s.t)

(***************************************************************************)
(* One definition after the other, statement by statement.                 *)
(***************************************************************************)
Init ==
  /\ prog \in Programs
  /\ phase = "gen"
  /\ unit = 0 /\ pos = 1 /\ args = <<>>
  /\ offset = [s \in DOMAIN Sizes |-> IF IsGlobal(s) THEN GlobalOffset(s) ELSE 0]
  /\ code = <<Label("_startup"), Instr("jmp", T_VOID, NoAddr, "_setup_global")>>
  /\ glbl = <<Label("_setup_global"), Instr("enter", T_VOID, NoAddr, 0)>>
  /\ exec = <<>>
  /\ ip = 1 /\ sp = 0 /\ bp = 0 /\ retsize = 0 /\ retval = 0
  /\ stack = <<>>

Function == Functions[unit]
Body == prog.body[Function]
Next1 == Body.code[pos]

\* vm_gen_data
GenData ==
  /\ phase = "gen" /\ unit = 0 /\ pos <= Len(prog.data)
  /\ glbl' = gen_assign(glbl, prog.data[pos], 0)
  /\ pos' = pos + 1
  /\ UNCHANGED <<prog, phase, unit, offset, args, code, exec, machine>>

DataDone ==
  /\ phase = "gen" /\ unit = 0 /\ pos > Len(prog.data)
  /\ unit' = 1 /\ pos' = 0
  /\ UNCHANGED <<prog, phase, offset, args, code, glbl, exec, machine>>

\* vm_func_enter and the label of the first block
EnterFunction ==
  /\ phase = "gen" /\ unit \in 1..Len(Functions) /\ pos = 0
  /\ offset' = [s \in DOMAIN Sizes |->
       CASE s \in ToSet(Params[Function]) -> ParamOffset(Function, s)
         [] s \in ToSet(Locals[Function]) -> LocalOffset(Function, s)
         [] OTHER -> offset[s]]
  /\ code' = code \o <<Label(Function), Instr("enter", T_VOID, NoAddr, Room(Locals[Function])), Label("")>>
  /\ pos' = 1
  /\ UNCHANGED <<prog, phase, unit, args, glbl, exec, machine>>

InBody(st) == phase = "gen" /\ unit \in 1..Len(Functions) /\ pos \in 1..Len(Body.code) /\ Next1.st = st

GenParam ==
  /\ InBody("param")
  /\ args' = Append(args, Next1.expr)
  /\ pos' = pos + 1
  /\ UNCHANGED <<prog, phase, unit, offset, code, glbl, exec, machine>>

\* Any other statement first gets the arguments that wait.
Pushed == push_args(code, args)
Emit(new) ==
  /\ code' = new
  /\ args' = <<>>
  /\ pos' = pos + 1
  /\ UNCHANGED <<prog, phase, unit, offset, glbl, exec, machine>>

GenAssign == InBody("assign") /\ Emit(gen_assign(Pushed, Next1, ArgSize(args)))

GenExpr ==
  /\ InBody("expr")
  /\ Emit(emit_vm_pop(vm_gen_expr(Pushed, Next1.expr, ArgSize(args), FALSE), Next1.expr.l))

\* The end of a block: a return, or a branch to a block that returns 1 and one that returns 0.
EndCode(c) ==
  LET e == Body.expr
      value == vm_gen_expr(c, e, ArgSize(args), FALSE)
      Returns(n) == <<PushImm(T_INT, n), Instr("ret", T_VOID, NoAddr, T_INT.size)>>
  IN  CASE Body.end = "return" -> emit_vm_ret(value, e.type.size)
        [] Body.end = "void" -> emit_vm_ret(c, 0)
        [] Body.end = "branch" ->
             value \o <<Instr("jnz", T_VOID, NoAddr, ".1"), Label(".0")>> \o Returns(0)
                   \o <<Label(".1")>> \o Returns(1)

GenEnd ==
  /\ phase = "gen" /\ unit \in 1..Len(Functions) /\ pos = Len(Body.code) + 1
  /\ code' = EndCode(Pushed)
  /\ args' = <<>>
  /\ unit' = unit + 1 /\ pos' = 0
  /\ UNCHANGED <<prog, phase, offset, glbl, exec, machine>>

\* vm_fix_lir: the data and the call of main behind the functions, labels resolved.
Linked ==
  code \o [glbl EXCEPT ![2].n = Room(Globals)]
       \o <<PushImm(T_LONG, 0), PushImm(T_INT, 0), Instr("call", T_VOID, NoAddr, "main"),
            Op("save_retval", T_VOID), Op("halt", T_VOID)>>
IsCode(i) == i.op # "label"
IndexOf(name) ==
  LET at == SelectInSeq(Linked, LAMBDA i : i.op = "label" /\ i.n = name)
  IN  Len(SelectSeq(SubSeq(Linked, 1, at), IsCode)) + 1
Resolved(i) == IF i.op \in {"jmp", "jnz", "call"} THEN [i EXCEPT !.n = IndexOf(i.n)] ELSE i

Bottom == Slot
gp == Bottom + Slot

Link ==
  /\ phase = "gen" /\ unit = Len(Functions) + 1
  /\ phase' = "run"
  /\ exec' = LET c == SelectSeq(Linked, IsCode) IN [i \in DOMAIN c |-> Resolved(c[i])]
  /\ stack' = [i \in 0..(StackSize - 1) |-> 0]
  /\ sp' = Bottom /\ bp' = Bottom
  /\ UNCHANGED <<prog, gen, ip, retsize, retval>>

-----------------------------------------------------------------------------
(***************************************************************************)
(* The machine.                                                            *)
(***************************************************************************)
\* The number in n cells, the low one first.
Read(st, a, n) == FoldLeft(LAMBDA v, i : v * Cell + st[a + n - i], 0, [i \in 1..n |-> i])
Write(st, a, n, v) ==
  [i \in DOMAIN st |-> IF i \in a..(a + n - 1) THEN (v \div Cell^(i - a)) % Cell ELSE st[i]]
Copy(st, to, from, n) == [i \in DOMAIN st |-> IF i \in to..(to + n - 1) THEN st[from + i - to] ELSE st[i]]

Typed(v, type) ==
  LET w == Cell^type.size
      u == v % w
  IN  IF type.signed /\ 2 * u >= w THEN u - w ELSE u
ToSlot(v) == v % Cell^Slot

instr == exec[ip]
gbp == IF instr.addr.is_global THEN gp ELSE bp
Place == gbp + instr.addr.base + instr.addr.offset
\* The operand at the top, and the one below it, as the instruction sees them.
Top(st, s) == Read(st, s - Slot, Slot)
Operand(k) == Typed(Read(stack, sp - k * Slot, Slot), instr.type)

Running(op) == phase = "run" /\ instr.op = op
Continue == ip' = ip + 1 /\ UNCHANGED <<prog, phase, gen, exec>>
Push(v) == stack' = Write(stack, sp, Slot, ToSlot(v)) /\ sp' = sp + Slot
\* Replace the k operands at the top by a value.
Replace(k, v) == stack' = Write(stack, sp - k * Slot, Slot, ToSlot(v)) /\ sp' = sp - (k - 1) * Slot
Frame == UNCHANGED <<bp, retsize, retval>>

RunPushVar ==
  /\ Running("push_var")
  /\ IF instr.type.object
     THEN /\ stack' = Copy(stack, sp, Place, instr.addr.size)
          /\ sp' = sp + Pad(instr.addr.size)
     ELSE Push(Typed(Read(stack, Place, instr.addr.size), instr.type))
  /\ Frame /\ Continue
RunPushImm == Running("push_imm") /\ Push(instr.n) /\ Frame /\ Continue
RunPushAddr == Running("push_addr") /\ Push(Place) /\ Frame /\ Continue

\* What pop, store and depop do to the memory, with an object at `from'.
Stored(place, from) ==
  IF instr.type.object THEN Copy(stack, place, from, instr.addr.size)
  ELSE Write(stack, place, instr.type.size, Top(stack, sp))

RunPop ==
  /\ Running("pop")
  /\ IF instr.type = T_VOID THEN sp' = sp - instr.n /\ UNCHANGED stack
     ELSE LET low == sp - Pad(instr.addr.size)
          IN  sp' = low /\ stack' = Stored(Place, low)
  /\ Frame /\ Continue
\* An object is taken from above the top.
RunStore == Running("store") /\ stack' = Stored(Place, sp) /\ UNCHANGED sp /\ Frame /\ Continue

\* NULLCHK: no object lies in the lowest slot, as none lies below 0x1000.
NULLCHK(a) == a < Bottom
Target == Read(stack, gbp + instr.addr.base, Slot)
RunDepop ==
  /\ Running("depop") /\ ~NULLCHK(Target)
  /\ LET low == sp - Pad(instr.addr.size)
     IN  sp' = low /\ stack' = Stored(Target + instr.addr.offset, low)
  /\ Frame /\ Continue
\* An object is read without a check.
Unchecked == instr.type.object \/ ~NULLCHK(Top(stack, sp))
RunDeref ==
  /\ Running("deref") /\ Unchecked
  /\ LET from == Top(stack, sp)
     IN  IF instr.type.object
         THEN /\ stack' = Copy(stack, sp - Slot, from, instr.type.size)
              /\ sp' = sp - Slot + Pad(instr.type.size)
         ELSE Replace(1, Typed(Read(stack, from, instr.type.size), instr.type))
  /\ Frame /\ Continue

\* Only the sizes of the integer types and those above a slot are filled.
RunFillZero ==
  /\ Running("fzero")
  /\ LET n == instr.addr.size
     IN  stack' = IF n \in {1, 2, Slot} \/ n > Slot THEN Write(stack, Place, n, 0) ELSE stack
  /\ UNCHANGED sp /\ Frame /\ Continue

\* The result replaces only as many cells as its type has.
RunCast ==
  /\ Running("cast")
  /\ stack' = Write(stack, sp - Slot, instr.type.size, ToSlot(Typed(Top(stack, sp), instr.n)))
  /\ UNCHANGED sp /\ Frame /\ Continue
Step == [inc |-> 1, dec |-> -1]
RunStep ==
  /\ phase = "run" /\ instr.op \in DOMAIN Step
  /\ stack' = Write(stack, sp - Slot, T_INT.size, (Top(stack, sp) + Step[instr.op]) % Cell^T_INT.size)
  /\ UNCHANGED sp /\ Frame /\ Continue
RunUnary ==
  /\ phase = "run" /\ instr.op \in {"not", "neg"}
  /\ Replace(1, Typed(IF instr.op = "not" THEN -Operand(1) - 1 ELSE -Operand(1), instr.type))
  /\ Frame /\ Continue

Truth(b) == IF b THEN 1 ELSE 0
\* The bits of two numbers are combined as slots.
Binary(op, x, y) ==
  CASE op = "add" -> x + y
    [] op = "sub" -> x - y
    [] op = "mul" -> x * y
    [] op = "and" -> ToSlot(x) & ToSlot(y)
    [] op = "or" -> ToSlot(x) | ToSlot(y)
    [] op = "xor" -> ToSlot(x) ^^ ToSlot(y)
    [] op = "shl" -> x * 2^y
    [] op = "shr" -> x \div 2^y
    [] op = "eq" -> Truth(x = y)
    [] op = "ne" -> Truth(x # y)
    [] op = "ge" -> Truth(x >= y)
    [] op = "gt" -> Truth(x > y)
    [] op = "le" -> Truth(x <= y)
    [] op = "lt" -> Truth(x < y)
Operations == DOMAIN Swapped \cup {"sub", "shl", "shr", "le", "lt"}
RunBinary ==
  /\ phase = "run" /\ instr.op \in Operations
  /\ Replace(2, Typed(Binary(instr.op, Operand(2), Operand(1)), instr.type))
  /\ Frame /\ Continue

Goto(to) == ip' = to /\ UNCHANGED <<prog, phase, gen, exec>>
RunJmp == Running("jmp") /\ Goto(instr.n) /\ UNCHANGED <<sp, stack>> /\ Frame
RunJnz ==
  /\ Running("jnz")
  /\ sp' = sp - Slot
  /\ Goto(IF Top(stack, sp) # 0 THEN instr.n ELSE ip + 1)
  /\ UNCHANGED stack /\ Frame

RunEnter ==
  /\ Running("enter")
  /\ stack' = Write(stack, sp, Slot, bp)
  /\ bp' = sp + Slot
  /\ sp' = sp + Slot + instr.n
  /\ UNCHANGED <<retsize, retval>> /\ Continue
RunCall == Running("call") /\ Push(ip + 1) /\ Goto(instr.n) /\ Frame
RunRet ==
  /\ Running("ret")
  /\ LET size == Pad(instr.n)
         low == bp - 2 * Slot
     IN  /\ stack' = Copy(stack, low, sp - size, size)
         /\ sp' = low + size
         /\ bp' = Read(stack, bp - Slot, Slot)
         /\ Goto(Read(stack, low, Slot))
         /\ retsize' = size
  /\ UNCHANGED retval
RunCleanup ==
  /\ Running("clup")
  /\ stack' = Copy(stack, sp - retsize - instr.n, sp - retsize, retsize)
  /\ sp' = sp - instr.n
  /\ Frame /\ Continue
RunCleanupPop == Running("clpop") /\ sp' = sp - instr.n /\ UNCHANGED stack /\ Frame /\ Continue
RunSave == Running("save_retval") /\ retval' = Top(stack, sp) /\ Continue /\ UNCHANGED <<sp, bp, stack, retsize>>
\* error() and exit(1).
RunNull ==
  /\ (Running("depop") /\ NULLCHK(Target)) \/ (Running("deref") /\ ~Unchecked)
  /\ phase' = "exit" /\ UNCHANGED <<prog, gen, exec, machine>>
RunHalt == Running("halt") /\ phase' = "halt" /\ UNCHANGED <<prog, gen, exec, machine>>

Generate == GenData \/ DataDone \/ EnterFunction \/ GenParam \/ GenAssign \/ GenExpr \/ GenEnd \/ Link
Run ==
  \/ RunPushVar \/ RunPushImm \/ RunPushAddr \/ RunPop \/ RunStore \/ RunDepop \/ RunDeref \/ RunNull \/ RunFillZero
  \/ RunCast \/ RunStep \/ RunUnary \/ RunBinary \/ RunJmp \/ RunJnz
  \/ RunEnter \/ RunCall \/ RunRet \/ RunCleanup \/ RunCleanupPop \/ RunSave \/ RunHalt
Next == Generate \/ Run
Spec == Init /\ [][Next]_vars
=============================================================================
