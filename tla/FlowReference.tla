--------------------------- MODULE FlowReference ---------------------------
(***************************************************************************)
(* What a function does, in which order, as C defines it: the reference    *)
(* for the blocks that StatementFlow builds and for the code that is       *)
(* emitted for them.  A function is a tree of nodes [op, sub, v]; a node   *)
(* is named by its path from the root, a sequence of indexes.              *)
(*                                                                         *)
(* An execution is observed by the calls it makes: which call is next,     *)
(* given the values that the calls before have returned, and which value   *)
(* the function returns in the end.                                        *)
(***************************************************************************)
EXTENDS Integers, Sequences, SequencesExt, FiniteSets

Node(op, sub, v) == [op |-> op, sub |-> sub, v |-> v]
None == Node("none", <<>>, 0)

NodeAt(ast, path) == FoldLeft(LAMBDA n, i : n.sub[i], ast, path)

RECURSIVE Paths(_)
Paths(ast) == {<<>>} \cup UNION {{<<i>> \o p : p \in Paths(ast.sub[i])} : i \in DOMAIN ast.sub}

(***************************************************************************)
(* The text of a function.  A token is [t, v, at]: the path matters for    *)
(* calls only.                                                             *)
(***************************************************************************)
Token(t, v, path) == [t |-> t, v |-> v, at |-> path]
Word(t) == <<Token(t, 0, <<>>)>>

Braced(op) == op \in {"&&", "||", "?", ","}

RECURSIVE Text(_, _)
Text(n, path) ==
    LET Sub(i) == Text(n.sub[i], Append(path, i))
        Operand(i) == IF Braced(n.sub[i].op) THEN Word("(") \o Sub(i) \o Word(")") ELSE Sub(i)
    IN  CASE n.op \in {"atom", "assign", "imm"} -> <<Token(n.op, n.v, path)>>
          [] n.op \in {"&&", "||", ","} -> Operand(1) \o Word(n.op) \o Operand(2)
          [] n.op = "?" -> Operand(1) \o Word("?") \o Operand(2) \o Word(":") \o Operand(3)
          [] n.op = "none" -> <<>>
          [] n.op = "skip" -> Word(";")
          [] n.op = "expr" -> Sub(1) \o Word(";")
          [] n.op = "block" -> Word("{") \o FlattenSeq([i \in DOMAIN n.sub |-> Sub(i)]) \o Word("}")
          [] n.op = "if" -> Word("if") \o Sub(1) \o Sub(2)
                            \o (IF n.sub[3].op = "none" THEN <<>> ELSE Word("else") \o Sub(3))
          [] n.op \in {"while", "switch"} -> Word(n.op) \o Sub(1) \o Sub(2)
          [] n.op = "do" -> Word("do") \o Sub(1) \o Word("while") \o Sub(2) \o Word(";")
          [] n.op = "for" -> Word("for") \o Sub(1) \o Word(";") \o Sub(2) \o Word(";") \o Sub(3)
                             \o Word(")") \o Sub(4)
          [] n.op \in {"label", "case", "default"} -> <<Token(n.op, n.v, <<>>)>> \o Sub(1)
          [] n.op = "return" -> Word("return") \o Sub(1) \o Word(";")
          [] n.op \in {"function", "procedure"} -> Word(n.op) \o Sub(1) \o Word("eof")
          [] OTHER -> <<Token(n.op, n.v, <<>>)>>

(***************************************************************************)
(* Which functions are accepted.                                           *)
(***************************************************************************)
Enclosing(ast, path, ops) ==
    {i \in 0..(Len(path) - 1) : NodeAt(ast, SubSeq(path, 1, i)).op \in ops}
Innermost(ast, path, ops) ==
    SubSeq(path, 1, CHOOSE i \in Enclosing(ast, path, ops) :
                        \A j \in Enclosing(ast, path, ops) : j <= i)

Loops == {"while", "do", "for"}

OfOp(ast, op) == {p \in Paths(ast) : NodeAt(ast, p).op = op}

WellFormed(ast) ==
    /\ \A p \in OfOp(ast, "goto") :
          \E q \in OfOp(ast, "label") : NodeAt(ast, q).v = NodeAt(ast, p).v
    /\ \A p, q \in OfOp(ast, "label") : p # q => NodeAt(ast, p).v # NodeAt(ast, q).v
    /\ \A p \in OfOp(ast, "case") \cup OfOp(ast, "default") : Enclosing(ast, p, {"switch"}) # {}
    /\ \A p, q \in OfOp(ast, "default") :
          p # q => Innermost(ast, p, {"switch"}) # Innermost(ast, q, {"switch"})

(***************************************************************************)
(* The steps of the abstract machine.  It is about to enter a node, has    *)
(* the value of an expression, or has completed a statement.               *)
(***************************************************************************)
Enter(path) == [do |-> "enter", at |-> path, v |-> 0]
Value(path, v) == [do |-> "value", at |-> path, v |-> v]
Complete(path) == [do |-> "complete", at |-> path, v |-> 0]
Returned(v) == [do |-> "return", at |-> <<>>, v |-> v]
Ended == [do |-> "end", at |-> <<>>, v |-> 0]

IsAtRest(ast, c) ==
    \/ c.do \in {"return", "end"}
    \/ c.do = "enter" /\ NodeAt(ast, c.at).op \in {"atom", "assign"}

Labelled(ast, name) ==
    CHOOSE p \in OfOp(ast, "label") : NodeAt(ast, p).v = name

(* Where a switch with this value goes to. *)
Selected(ast, switch, v) ==
    LET Own(op) == {p \in OfOp(ast, op) : Len(p) > Len(switch) /\ Innermost(ast, p, {"switch"}) = switch}
        matching == {p \in Own("case") : NodeAt(ast, p).v = v}
    IN  IF matching # {} THEN Enter(CHOOSE p \in matching : TRUE)
        ELSE IF Own("default") # {} THEN Enter(CHOOSE p \in Own("default") : TRUE)
        ELSE Complete(switch)

(* The condition of a for loop; without one it is true. *)
Test(ast, loop) ==
    IF NodeAt(ast, loop).sub[2].op = "none" THEN Enter(Append(loop, 4)) ELSE Enter(Append(loop, 2))
Iterate(ast, loop) ==
    LET n == NodeAt(ast, loop)
    IN  CASE n.op = "while" -> Enter(Append(loop, 1))
          [] n.op = "do" -> Enter(Append(loop, 2))
          [] n.op = "for" -> IF n.sub[3].op = "none" THEN Test(ast, loop) ELSE Enter(Append(loop, 3))

EnterStep(ast, path, n) ==
    CASE n.op = "imm" -> Value(path, n.v)
      [] n.op \in {"skip", "none"} -> Complete(path)
      [] n.op = "block" /\ n.sub = <<>> -> Complete(path)
      [] n.op = "for" -> IF n.sub[1].op = "none" THEN Test(ast, path) ELSE Enter(Append(path, 1))
      [] n.op = "return" /\ n.sub[1].op = "none" -> Ended
      [] n.op = "goto" -> Enter(Labelled(ast, n.v))
      [] n.op = "break" -> Complete(Innermost(ast, path, Loops \cup {"switch"}))
      [] n.op = "continue" -> Iterate(ast, Innermost(ast, path, Loops))
      [] OTHER -> Enter(Append(path, 1))

(* The value v of the i-th operand of the node n at path up. *)
ValueStep(ast, up, n, i, v) ==
    LET truth == IF v # 0 THEN 1 ELSE 0
        Then(holds, p) == IF holds THEN Enter(Append(up, p)) ELSE Complete(up)
    IN  CASE n.op \in {"&&", "||"} ->
                IF i = 1 /\ (v # 0 <=> n.op = "&&") THEN Enter(Append(up, 2)) ELSE Value(up, truth)
          [] n.op = "?" -> IF i > 1 THEN Value(up, v) ELSE Enter(Append(up, IF v # 0 THEN 2 ELSE 3))
          [] n.op = "," -> IF i = 2 THEN Value(up, v) ELSE Enter(Append(up, 2))
          [] n.op = "expr" -> Complete(up)
          [] n.op = "if" -> Enter(Append(up, IF v # 0 THEN 2 ELSE 3))
          [] n.op = "while" -> Then(v # 0, 2)
          [] n.op = "do" -> Then(v # 0, 1)
          [] n.op = "for" -> IF i = 2 THEN Then(v # 0, 4) ELSE Test(ast, up)
          [] n.op = "switch" -> Selected(ast, up, v)
          [] n.op = "return" -> Returned(v)

CompleteStep(ast, up, n, i) ==
    CASE n.op = "block" -> IF i < Len(n.sub) THEN Enter(Append(up, i + 1)) ELSE Complete(up)
      [] n.op \in Loops -> Iterate(ast, up)
      [] n.op \in {"function", "procedure"} -> Ended
      [] OTHER -> Complete(up)

Step(ast, c) ==
    CASE c.do = "enter" -> EnterStep(ast, c.at, NodeAt(ast, c.at))
      [] c.do = "value" -> ValueStep(ast, Front(c.at), NodeAt(ast, Front(c.at)), Last(c.at), c.v)
      [] c.do = "complete" -> CompleteStep(ast, Front(c.at), NodeAt(ast, Front(c.at)), Last(c.at))

Diverges == [do |-> "diverge", at |-> <<>>, v |-> 0]

(* The next call or the end; without one within the bound there is none. *)
RECURSIVE RunFrom(_, _, _)
RunFrom(ast, c, bound) ==
    IF IsAtRest(ast, c) THEN c
    ELSE IF bound = 0 THEN Diverges
    ELSE RunFrom(ast, Step(ast, c), bound - 1)
=============================================================================
