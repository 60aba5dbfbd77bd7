----------------------------- MODULE VMMeaning ------------------------------
(***************************************************************************)
(* What the intermediate code of VMCode means, without a stack and without *)
(* instructions: every symbol has a place of its own, operands are values  *)
(* of their types, statements change the memory one after the other, and   *)
(* a call runs the statements of the callee.                               *)
(***************************************************************************)
EXTENDS VMCode

CONSTANT Home   \* the place of every symbol, apart from all others

\* One more cell tells that a null pointer has been followed.
Trap == -1
Blank == [i \in Trap..(Cell^Slot - 1) |-> 0]

\* A value is a number, or the cells of an object.
Load(m, a, type) ==
  IF type.object THEN [i \in 1..type.size |-> m[a + i - 1]] ELSE Typed(Read(m, a, type.size), type)
Save(m, a, type, v) ==
  IF type.object THEN [i \in DOMAIN m |-> IF i \in a..(a + type.size - 1) THEN v[i - a + 1] ELSE m[i]]
  ELSE Write(m, a, type.size, v)

PlaceOf(m, v) == v.offset + IF v.kind = "deref" THEN Read(m, Home[v.sym], Slot) ELSE Home[v.sym]
Traps(m, v) == v.kind = "deref" /\ Read(m, Home[v.sym], Slot) = 0
Bits(m, v) == Read(m, PlaceOf(m, v), T_INT.size)
ValueOf(m, v) ==
  CASE v.kind = "immediate" -> v.imm
    [] v.kind = "address" -> PlaceOf(m, v)
    [] is_field(v) -> (Bits(m, v) \div 2^v.field[1]) % 2^v.field[2]
    [] OTHER -> Load(m, PlaceOf(m, v), v.type)
Assigned(m, t, v) ==
  IF is_field(t)
  THEN Save(m, PlaceOf(m, t), T_UINT, Bits(m, t) + ((v % 2^t.field[2]) - ValueOf(m, t)) * 2^t.field[1])
  ELSE Save(m, PlaceOf(m, t), t.type, v)

Meaning(m, e) ==
  CASE e.op = "cast" -> IF e.type.object THEN ValueOf(m, e.l) ELSE Typed(ValueOf(m, e.l), e.type)
    [] e.op = "not" -> Typed(-ValueOf(m, e.l) - 1, e.type)
    [] e.op = "neg" -> Typed(-ValueOf(m, e.l), e.type)
    [] OTHER -> Typed(Binary(e.op, ValueOf(m, e.l), ValueOf(m, e.r)), e.type)
Operands(e) == IF e.op \in {"cast", "not", "neg"} THEN {e.l} ELSE {e.l, e.r}
\* The memory after reading the variables of V or writing to them.
Followed(m, V) == IF \E v \in V : Traps(m, v) THEN [m EXCEPT ![Trap] = 1] ELSE m

\* The memory and the value after a call of f with its arguments.
RECURSIVE Outcome(_, _, _)
Evaluated(m, e, given) ==
  IF e.op = "call" THEN Outcome(e.l.sym, m, given)
  ELSE [m |-> Followed(m, Operands(e)), value |-> Meaning(m, e)]
Effect(acc, s, r) ==
  [m |-> IF s.st = "assign" THEN Assigned(Followed(r.m, {s.t}), s.t, r.value) ELSE r.m, given |-> <<>>]
After(acc, s) ==
  IF s.st = "param"
  THEN [acc EXCEPT !.m = Followed(@, Operands(s.expr)),
                   !.given = Append(@, [type |-> s.expr.type, value |-> Meaning(acc.m, s.expr)])]
  ELSE Effect(acc, s, Evaluated(acc.m, s.expr, acc.given))
Entered(f, m, given) ==
  FoldLeft(LAMBDA n, i : Save(n, Home[Params[f][i]], given[i].type, given[i].value), m, [i \in DOMAIN given |-> i])
Returned(end, r) == IF end = "branch" THEN [r EXCEPT !.value = Truth(@ # 0)] ELSE r
Ended(b, acc) ==
  IF b.end = "void" THEN [m |-> acc.m, value |-> 0]
  ELSE Returned(b.end, Evaluated(acc.m, b.expr, acc.given))
Outcome(f, m, given) ==
  Ended(prog.body[f], FoldLeft(After, [m |-> Entered(f, m, given), given |-> <<>>], prog.body[f].code))

Initialized == FoldLeft(LAMBDA m, s : Assigned(m, s.t, Meaning(m, s.expr)), Blank, prog.data)
Result == Outcome("main", Initialized, <<>>)

\* The value of main and the globals are those of an outcome.
Agrees(r) ==
  /\ Typed(retval, T_INT) = r.value
  /\ \A s \in ToSet(Globals) : \A i \in 0..(Sizes[s] - 1) : stack[gp + offset[s] + i] = r.m[Home[s] + i]

(***************************************************************************)
(* The code does what the intermediate code means: when the machine halts, *)
(* the globals and the value main returns are those of the statements run  *)
(* one by one, whatever was left out or exchanged in between, and it       *)
(* exits if and only if these follow a null pointer                        *)
(* (emit_vm_load, is_swap_available, emit_vm_fill_zero, emit_vm_pop,       *)
(* emit_vm_ret).                                                           *)
(***************************************************************************)
CodeAsWritten ==
  /\ phase = "halt" => Agrees(Result) /\ Result.m[Trap] = 0
  /\ phase = "exit" => Result.m[Trap] = 1

\* The size of the frame of the function that the instruction at i belongs to.
FrameOf(i) ==
  LET enters == {j \in 1..i : exec[j].op = "enter"}
  IN  exec[CHOOSE j \in enters : \A k \in enters : k <= j].n

(***************************************************************************)
(* Operands stay above the locals of the running function, over any number *)
(* of statements and calls, and a function that returns a value has only   *)
(* that value there: arguments are removed once (VM_CLUP, VM_CLPOP), and   *)
(* so is the result that a statement does not use.                         *)
(***************************************************************************)
FrameKept ==
  phase = "run" /\ instr.op \notin {"enter", "jmp"} =>
    /\ sp >= bp + FrameOf(ip)
    /\ instr.op = "ret" /\ instr.n > 0 => sp = bp + FrameOf(ip) + Pad(instr.n)
=============================================================================
