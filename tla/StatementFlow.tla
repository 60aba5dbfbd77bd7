--------------------------- MODULE StatementFlow ---------------------------
(***************************************************************************)
(* How the parser turns the statements of a function into basic blocks:    *)
(* statement() and the functions it calls (parser/statement.c), the        *)
(* expressions that branch, namely logical operators, the conditional      *)
(* operator and the comma (parser/expression.c, parser/eval.c), and labels *)
(* (the namespace ns_label of parser/symtab.c).                            *)
(*                                                                         *)
(* The call stack of the recursive descent is explicit.  A frame stands    *)
(* for a function that waits for the one above it; its pc names the place  *)
(* where it goes on and its other fields are the local variables that are  *)
(* still needed there.  An action is what happens between two calls.       *)
(*                                                                         *)
(* Operands are calls ("atom", known by their place in the text), calls    *)
(* that are assigned to a variable ("assign"), and constants ("imm").      *)
(* Parentheses around a condition are left out of the text, and so are     *)
(* declarations: the blocks of a declaration with initializer are those of *)
(* an expression.                                                          *)
(***************************************************************************)
EXTENDS Integers, Sequences, SequencesExt, FiniteSets

CONSTANT LabelNames

ASSUME LabelNamesAssumption == IsFiniteSet(LabelNames)

VARIABLES
    tokens,   \* the text of the function, which ends in "eof"
    pos,      \* the token that peek() returns
    stack,    \* the callers of the running function and itself
    cur,      \* the block that is returned to the caller, its "parent"
    def,      \* the definition: its blocks and the number of its temporaries
    targets,  \* break_target and continue_target
    ctx,      \* switch_context: empty for NULL
    labels,   \* the symbols of ns_label
    errors,   \* calls of error() that do not exit
    phase     \* "parse", then "built" or "rejected"

parser == <<tokens, pos, stack, cur, def, targets, ctx, labels, errors>>

Null == 0

(***************************************************************************)
(* Expressions are constants, calls, temporaries or comparisons of a       *)
(* temporary with zero; every field "v" is a number.                       *)
(***************************************************************************)
Void == [k |-> "void", v |-> 0]
Imm(n) == [k |-> "imm", v |-> n]
Call(at) == [k |-> "atom", v |-> at]
Temp(t) == [k |-> "temp", v |-> t]
NotZero(t) == [k |-> "ne", v |-> t]
Truth(holds) == IF holds THEN 1 ELSE 0

is_identity(e) == e.k \in {"imm", "temp"}
is_immediate_true(e) == e.k = "imm" /\ e.v # 0
is_immediate_false(e) == e.k = "imm" /\ e.v = 0
has_side_effects(e) == e.k = "atom"

NewBlock == [code |-> <<>>, expr |-> Void, jump |-> <<Null, Null>>, body |-> Null, ret |-> FALSE]

-----------------------------------------------------------------------------
(* Changes of a definition. *)

(* cfg_block_init, n times *)
Blocks(d, n) == [d EXCEPT !.blocks = @ \o [i \in 1..n |-> NewBlock]]

Next0(d, b, to) == [d EXCEPT !.blocks[b].jump[1] = to]
Next1(d, b, to) == [d EXCEPT !.blocks[b].jump[2] = to]
SetExpr(d, b, e) == [d EXCEPT !.blocks[b].expr = e]
EmitIR(d, b, t, e) == [d EXCEPT !.blocks[b].code = Append(@, [t |-> t, e |-> e])]

ExprOf(d, b) == d.blocks[b].expr

(* The branch on the value of block b that ends every condition. *)
Branch(d, b, then, else) ==
    IF is_immediate_true(ExprOf(d, b)) THEN Next0(d, b, then)
    ELSE IF is_immediate_false(ExprOf(d, b)) THEN Next0(d, b, else)
    ELSE Next1(Next0(d, b, else), b, then)

BranchAlways(d, b, then, else) == Next1(Next0(d, b, then), b, else)

(* eval: a value that is not at hand is computed into a temporary.         *)
EvalVar(d, b) == IF is_identity(ExprOf(d, b)) THEN ExprOf(d, b) ELSE Temp(d.temps + 1)
eval(d, b) ==
    IF is_identity(ExprOf(d, b)) THEN d
    ELSE [EmitIR(d, b, d.temps + 1, ExprOf(d, b)) EXCEPT !.temps = @ + 1]
Evaluated(d, b) == SetExpr(eval(d, b), b, EvalVar(d, b))

(* The value of b compared with zero, unless it is the result of a         *)
(* comparison already.                                                     *)
AsTruthValue(d, b) ==
    LET v == EvalVar(d, b)
    IN  IF ExprOf(d, b).k = "ne" THEN d
        ELSE SetExpr(eval(d, b), b, IF v.k = "imm" THEN Imm(Truth(v.v # 0)) ELSE NotZero(v.v))

(* The two blocks that set the result and the one where they meet. *)
eval_logical_expression(d, op, left, top, right) ==
    LET t == Len(d.blocks) + 1
        f == t + 1
        r == t + 2
        res == d.temps + 1
        d1 == [Blocks(d, 3) EXCEPT !.temps = res]
        d2 == IF op = "&&" THEN Next1(Next0(d1, left, f), left, top)
                           ELSE Next1(Next0(d1, left, top), left, t)
        d3 == Branch(d2, right, t, f)
        d4 == EmitIR(EmitIR(d3, t, res, Imm(1)), f, res, Imm(0))
    IN  SetExpr(Next0(Next0(d4, t, r), f, r), r, Temp(res))

is_logical_immediate(d, left, top, right) ==
    /\ top = right
    /\ d.blocks[top].code = <<>>
    /\ ExprOf(d, top).k = "imm" /\ ExprOf(d, left).k = "imm"

(* Whether the left operand alone decides, or leaves it to the right one. *)
Decides(op, e) == IF op = "&&" THEN is_immediate_false(e) ELSE is_immediate_true(e)
LeavesOpen(op, e) == IF op = "&&" THEN is_immediate_true(e) ELSE is_immediate_false(e)

(* eval_logical_and and eval_logical_or: the definition and the last block *)
eval_logical(d, op, left, top, right) ==
    LET l == ExprOf(d, left)
        r == ExprOf(d, right)
    IN  IF is_logical_immediate(d, left, top, right)
        THEN [def |-> SetExpr(d, left, Imm(IF op = "&&" THEN Truth(l.v # 0 /\ r.v # 0)
                                                        ELSE Truth(l.v # 0 \/ r.v # 0))),
              last |-> left]
        ELSE IF Decides(op, l)
        THEN [def |-> SetExpr(d, left, Imm(Truth(op = "||"))), last |-> left]
        ELSE IF LeavesOpen(op, l)
        THEN [def |-> AsTruthValue(Next0(d, left, top), right), last |-> right]
        ELSE [def |-> eval_logical_expression(d, op, left, top, right),
              last |-> Len(d.blocks) + 3]

-----------------------------------------------------------------------------
(* The call stack. *)

Tok == tokens[pos].t
TokAt(p) == tokens[p].t
Top == Last(stack)
Below == Front(stack)

(* A function that has nothing left to do but to return when tok is next. *)
Returns(frame, tok) ==
    \/ frame.pc = "and" /\ tok # "&&"
    \/ frame.pc = "or" /\ tok # "||"
    \/ frame.pc = "conditional" /\ tok # "?"
    \/ frame.pc = "comma" /\ tok # ","

ReturnTo(st, tok) == SubSeq(st, 1, SelectLastInSeq(st, LAMBDA f : ~Returns(f, tok)))

Logical == <<[pc |-> "or"], [pc |-> "and"], [pc |-> "primary"]>>
Conditional == <<[pc |-> "conditional"]>> \o Logical
Expression == <<[pc |-> "comma"]>> \o Conditional
Statement == <<[pc |-> "statement"]>>

Running(pc) == phase = "parse" /\ Top.pc = pc
At(pc, tok) == Running(pc) /\ Tok = tok

Allocated(n) == Len(def.blocks) + n

(* What an action leaves alone. *)
KeepTargets == UNCHANGED <<targets, ctx, labels, errors, phase, tokens>>
KeepRest == UNCHANGED <<ctx, labels, errors, phase, tokens>>

-----------------------------------------------------------------------------
(* Expressions. *)

(* A call, a constant, or an assignment of a call: that one is emitted at  *)
(* once, while a call waits in the block for the one who needs its value.  *)
Operand ==
    /\ Running("primary")
    /\ \/ Tok = "atom" /\ def' = SetExpr(def, cur, Call(pos))
       \/ Tok = "imm" /\ def' = SetExpr(def, cur, Imm(tokens[pos].v))
       \/ Tok = "assign" /\ def' = Evaluated(SetExpr(def, cur, Call(pos)), cur)
    /\ pos' = pos + 1
    /\ stack' = ReturnTo(Below, TokAt(pos + 1))
    /\ UNCHANGED cur
    /\ KeepTargets

OpenParenthesis ==
    /\ At("primary", "(")
    /\ pos' = pos + 1
    /\ stack' = Below \o <<[pc |-> "parenthesis"]>> \o Expression
    /\ UNCHANGED <<cur, def>>
    /\ KeepTargets

CloseParenthesis ==
    /\ At("parenthesis", ")")
    /\ pos' = pos + 1
    /\ stack' = ReturnTo(Below, TokAt(pos + 1))
    /\ UNCHANGED <<cur, def>>
    /\ KeepTargets

(* logical_and_expression and logical_or_expression, up to the right operand *)
LogicalOperator ==
    /\ \/ At("and", "&&") /\ stack' = Below \o <<[pc |-> "logical", op |-> "&&", left |-> cur,
                                                   top |-> Allocated(1)]>> \o Tail(Logical)
       \/ At("or", "||") /\ stack' = Below \o <<[pc |-> "logical", op |-> "||", left |-> cur,
                                                  top |-> Allocated(1)]>> \o Logical
    /\ def' = Blocks(def, 1)
    /\ cur' = Allocated(1)
    /\ pos' = pos + 1
    /\ KeepTargets

LogicalDone ==
    /\ Running("logical")
    /\ LET res == eval_logical(def, Top.op, Top.left, Top.top, cur)
       IN  def' = res.def /\ cur' = res.last
    /\ stack' = ReturnTo(Below, Tok)
    /\ UNCHANGED pos
    /\ KeepTargets

(* conditional_expression: with a constant condition one branch goes on in *)
(* the same block and the other one into an orphan.                        *)
Question ==
    /\ At("conditional", "?")
    /\ pos' = pos + 1
    /\ LET Then(kind, block, right) ==
               Below \o <<[pc |-> "then", kind |-> kind, block |-> block,
                           right |-> right]>> \o Expression
       IN  \/ /\ is_immediate_true(ExprOf(def, cur))
              /\ stack' = Then("true", cur, Null)
              /\ UNCHANGED <<cur, def>>
           \/ /\ is_immediate_false(ExprOf(def, cur))
              /\ stack' = Then("false", cur, Null)
              /\ def' = Blocks(def, 1)
              /\ cur' = Allocated(1)
           \/ /\ ExprOf(def, cur).k # "imm"
              /\ stack' = Then("open", Allocated(3), Allocated(2))
              /\ def' = BranchAlways(Blocks(def, 3), cur, Allocated(2), Allocated(1))
              /\ cur' = Allocated(1)
    /\ KeepTargets

Colon ==
    /\ At("then", ":")
    /\ pos' = pos + 1
    /\ LET Else(block) ==
               Below \o <<[pc |-> "else", kind |-> Top.kind, block |-> block,
                           left |-> cur]>> \o Conditional
       IN  stack' = IF Top.kind = "true" THEN Else(cur) ELSE Else(Top.block)
    /\ \/ Top.kind = "true" /\ def' = Blocks(def, 1) /\ cur' = Allocated(1)
       \/ Top.kind = "false" /\ cur' = Top.block /\ UNCHANGED def
       \/ /\ Top.kind = "open"
          /\ def' = Next0(def, cur, Top.block)
          /\ cur' = Top.right
    /\ KeepTargets

(* Both values are evaluated where they are; if the condition is open they *)
(* are also assigned to one temporary.                                     *)
ConditionalDone ==
    /\ Running("else")
    /\ LET d == Evaluated(Evaluated(def, Top.left), cur)
           temp == d.temps + 1
           Assigned(e, b) == SetExpr(EmitIR(e, b, temp, ExprOf(e, b)), b, Temp(temp))
       IN  \/ Top.kind = "true" /\ def' = d /\ cur' = Top.left
           \/ Top.kind = "false" /\ def' = d /\ UNCHANGED cur
           \/ /\ Top.kind = "open"
              /\ def' = SetExpr(Assigned(Assigned([Next0(d, cur, Top.block) EXCEPT !.temps = temp],
                                                  Top.left), cur), Top.block, Temp(temp))
              /\ cur' = Top.block
    /\ stack' = ReturnTo(Below, Tok)
    /\ UNCHANGED pos
    /\ KeepTargets

(* expression: the value before a comma is kept only for its effects *)
Comma ==
    /\ At("comma", ",")
    /\ pos' = pos + 1
    /\ def' = IF has_side_effects(ExprOf(def, cur)) THEN eval(def, cur) ELSE def
    /\ stack' = stack \o Conditional
    /\ UNCHANGED cur
    /\ KeepTargets

-----------------------------------------------------------------------------
(* Statements without a statement inside. *)

EmptyStatementUnread ==
    /\ At("statement", ";")
    /\ stack' = Below
    /\ UNCHANGED <<pos, cur, def>>
    /\ KeepTargets

EmptyStatement ==
    /\ At("statement", ";")
    /\ pos' = pos + 1
    /\ stack' = Below
    /\ UNCHANGED <<cur, def>>
    /\ KeepTargets

ExpressionStatement ==
    /\ Running("statement") /\ Tok \in {"atom", "imm", "assign", "("}
    /\ stack' = Below \o <<[pc |-> "discard"]>> \o Expression
    /\ UNCHANGED <<pos, cur, def>>
    /\ KeepTargets

(* eval_expression_statement *)
ExpressionDone ==
    /\ At("discard", ";")
    /\ pos' = pos + 1
    /\ stack' = Below
    /\ def' = SetExpr(IF has_side_effects(ExprOf(def, cur))
                      THEN EmitIR(def, cur, Null, ExprOf(def, cur)) ELSE def, cur, Void)
    /\ UNCHANGED cur
    /\ KeepTargets

(* The block behind a jump: an orphan, unless it is labeled. *)
JumpTo(to) ==
    /\ def' = Next0(Blocks(def, 1), cur, to)
    /\ cur' = Allocated(1)

(* Outside of a loop the target is the one of the caller, none: the block  *)
(* then ends the function.                                                 *)
BreakOrContinue ==
    /\ Running("statement") /\ Tok \in {"break", "continue"}
    /\ JumpTo(targets[Tok])
    /\ pos' = pos + 1
    /\ stack' = Below
    /\ KeepTargets

(* The label may be behind: then its symbol is tentative. *)
GotoStatement ==
    /\ At("statement", "goto")
    /\ LET name == tokens[pos].v
       IN  IF labels[name].block # Null
           THEN JumpTo(labels[name].block) /\ UNCHANGED labels
           ELSE /\ labels' = [labels EXCEPT ![name] = [block |-> Allocated(1), defined |-> FALSE]]
                /\ def' = Next0(Blocks(def, 2), cur, Allocated(1))
                /\ cur' = Allocated(2)
    /\ pos' = pos + 1
    /\ stack' = Below
    /\ UNCHANGED <<targets, ctx, errors, phase, tokens>>

(* A label is followed by a statement, which statement() returns. *)
LabeledStatement ==
    /\ At("statement", "label")
    /\ LET name == tokens[pos].v
           known == labels[name].block # Null
           block == IF known THEN labels[name].block ELSE Allocated(1)
       IN  IF labels[name].defined
           THEN errors' = errors + 1 /\ UNCHANGED <<labels, def, cur>>
           ELSE /\ labels' = [labels EXCEPT ![name] = [block |-> block, defined |-> TRUE]]
                /\ def' = Next0(IF known THEN def ELSE Blocks(def, 1), cur, block)
                /\ cur' = block
                /\ UNCHANGED errors
    /\ pos' = pos + 1
    /\ UNCHANGED <<stack, targets, ctx, phase, tokens>>

(* A function without a value has no expression behind "return". *)
ReturnsValue == TokAt(1) = "function"

ReturnStatement ==
    /\ At("statement", "return")
    /\ \/ /\ ReturnsValue
          /\ stack' = Below \o <<[pc |-> "return"]>> \o Expression
          /\ pos' = pos + 1
          /\ UNCHANGED <<cur, def>>
       \/ /\ ~ReturnsValue
          /\ stack' = Below
          /\ pos' = pos + 2
          /\ def' = Blocks(def, 1)
          /\ cur' = Allocated(1)
    /\ KeepTargets

(* eval_return *)
ReturnDone ==
    /\ At("return", ";")
    /\ def' = Blocks([def EXCEPT !.blocks[cur].ret = TRUE], 1)
    /\ cur' = Allocated(1)
    /\ pos' = pos + 1
    /\ stack' = Below
    /\ KeepTargets

-----------------------------------------------------------------------------
(* Compound statements and if. *)

OpenBlock ==
    /\ At("statement", "{")
    /\ pos' = pos + 1
    /\ stack' = Append(Below, [pc |-> "block"])
    /\ UNCHANGED <<cur, def>>
    /\ KeepTargets

NextInBlock ==
    /\ Running("block")
    /\ IF Tok = "}" THEN pos' = pos + 1 /\ stack' = Below
                    ELSE pos' = pos /\ stack' = stack \o Statement
    /\ UNCHANGED <<cur, def>>
    /\ KeepTargets

IfStatement ==
    /\ At("statement", "if")
    /\ pos' = pos + 1
    /\ def' = Blocks(def, 2)
    /\ stack' = Below \o <<[pc |-> "if", right |-> Allocated(1), next |-> Allocated(2)]>> \o Expression
    /\ UNCHANGED cur
    /\ KeepTargets

IfCondition ==
    /\ Running("if")
    /\ def' = Branch(def, cur, Top.right, Top.next)
    /\ stack' = Below \o <<[pc |-> "if_then", parent |-> cur, next |-> Top.next]>> \o Statement
    /\ cur' = Top.right
    /\ UNCHANGED pos
    /\ KeepTargets

IfThen ==
    /\ Running("if_then")
    /\ LET linked == Next0(def, cur, Top.next)
           left == Allocated(1)
       IN  IF Tok = "else"
           THEN /\ def' = IF is_immediate_true(ExprOf(def, Top.parent))
                          THEN Blocks(linked, 1)
                          ELSE Next0(Blocks(linked, 1), Top.parent, left)
                /\ stack' = Below \o <<[pc |-> "if_else", next |-> Top.next]>> \o Statement
                /\ cur' = left
                /\ pos' = pos + 1
           ELSE def' = linked /\ stack' = Below /\ cur' = Top.next /\ pos' = pos
    /\ KeepTargets

IfElse ==
    /\ Running("if_else")
    /\ def' = Next0(def, cur, Top.next)
    /\ stack' = Below
    /\ cur' = Top.next
    /\ UNCHANGED pos
    /\ KeepTargets

-----------------------------------------------------------------------------
(* Loops.  The old targets are kept in the frame. *)

Targets(brk, cnt) == [break |-> brk, continue |-> cnt]

(* The first block of a loop whose condition is laid out behind its body. *)
LoopHead(d, from, head, top, body) ==
    [Next0(Next0(d, from, head), head, top) EXCEPT !.blocks[head].body = body]

DoStatement ==
    /\ At("statement", "do")
    /\ LET top == Allocated(1)
           cond == Allocated(2)
           next == Allocated(3)
       IN  /\ def' = Next0(Blocks(def, 3), cur, top)
           /\ targets' = Targets(next, cond)
           /\ stack' = Below \o <<[pc |-> "do", top |-> top, cond |-> cond, next |-> next,
                                   old |-> targets]>> \o Statement
           /\ cur' = top
    /\ pos' = pos + 1
    /\ KeepRest

DoBody ==
    /\ At("do", "while")
    /\ def' = Next0(def, cur, Top.cond)
    /\ cur' = Top.cond
    /\ stack' = Below \o <<[Top EXCEPT !.pc = "do_condition"]>> \o Expression
    /\ pos' = pos + 1
    /\ KeepTargets

DoCondition ==
    /\ At("do_condition", ";")
    /\ def' = Branch(def, cur, Top.top, Top.next)
    /\ targets' = Top.old
    /\ cur' = Top.next
    /\ stack' = Below
    /\ pos' = pos + 1
    /\ KeepRest

WhileStatement ==
    /\ At("statement", "while")
    /\ LET head == Allocated(1)
           top == Allocated(2)
           body == Allocated(3)
           next == Allocated(4)
       IN  /\ def' = LoopHead(Blocks(def, 4), cur, head, top, body)
           /\ targets' = Targets(next, top)
           /\ stack' = Below \o <<[pc |-> "while", back |-> top, body |-> body, next |-> next,
                                   old |-> targets]>> \o Expression
           /\ cur' = top
    /\ pos' = pos + 1
    /\ KeepRest

WhileCondition ==
    /\ Running("while")
    /\ def' = Branch(def, cur, Top.body, Top.next)
    /\ cur' = Top.body
    /\ stack' = Below \o <<[Top EXCEPT !.pc = "loop_body"]>> \o Statement
    /\ UNCHANGED pos
    /\ KeepTargets

(* The end of the body of a while or for loop *)
LoopBody ==
    /\ Running("loop_body")
    /\ def' = Next0(def, cur, Top.back)
    /\ targets' = Top.old
    /\ cur' = Top.next
    /\ stack' = Below
    /\ UNCHANGED pos
    /\ KeepRest

(* The first expression of a for loop is evaluated with the new break      *)
(* target, the last one before the new continue target is set.             *)
ForStatement ==
    /\ At("statement", "for")
    /\ LET frame == [pc |-> "for", top |-> Allocated(2), head |-> Allocated(1), body |-> Allocated(3),
                     increment |-> Allocated(4), next |-> Allocated(5), old |-> targets]
       IN  /\ stack' = Append(Below, frame) \o (IF TokAt(pos + 1) = ";" THEN <<>> ELSE Expression)
           /\ targets' = [targets EXCEPT !.break = frame.next]
    /\ def' = Blocks(def, 5)
    /\ pos' = pos + 1
    /\ UNCHANGED cur
    /\ KeepRest

(* Without a condition the loop starts with its body and has no head. *)
ForInit ==
    /\ At("for", ";")
    /\ pos' = pos + 1
    /\ IF TokAt(pos + 1) # ";"
       THEN /\ def' = LoopHead(def, cur, Top.head, Top.top, Top.body)
            /\ stack' = Below \o <<[Top EXCEPT !.pc = "for_condition"]>> \o Expression
            /\ cur' = Top.top
       ELSE /\ def' = Next0(def, cur, Top.body)
            /\ stack' = Append(Below, [Top EXCEPT !.pc = "for_increment", !.top = Top.body])
            /\ UNCHANGED cur
    /\ KeepTargets

ForCondition ==
    /\ Running("for_condition")
    /\ def' = Branch(def, cur, Top.body, Top.next)
    /\ stack' = Append(Below, [Top EXCEPT !.pc = "for_increment"])
    /\ UNCHANGED <<pos, cur>>
    /\ KeepTargets

ForBodyFrame(back) ==
    [pc |-> "loop_body", back |-> back, next |-> Top.next, old |-> Top.old]

ForIncrement ==
    /\ At("for_increment", ";")
    /\ IF TokAt(pos + 1) # ")"
       THEN /\ stack' = Below \o <<[Top EXCEPT !.pc = "for_step"]>> \o Expression
            /\ cur' = Top.increment
            /\ pos' = pos + 1
            /\ UNCHANGED targets
       ELSE /\ stack' = Below \o <<ForBodyFrame(Top.top)>> \o Statement
            /\ cur' = Top.body
            /\ pos' = pos + 2
            /\ targets' = [targets EXCEPT !.continue = Top.top]
    /\ UNCHANGED def
    /\ KeepRest

ForStepSkipped ==
    /\ At("for_step", ")")
    /\ def' = Next0(def, cur, Top.top)
    /\ targets' = [targets EXCEPT !.continue = Top.top]
    /\ stack' = Below \o <<ForBodyFrame(Top.increment)>> \o Statement
    /\ cur' = Top.body
    /\ pos' = pos + 1
    /\ KeepRest

ForStep ==
    /\ At("for_step", ")")
    /\ def' = Next0(def, cur, Top.top)
    /\ targets' = [targets EXCEPT !.continue = Top.increment]
    /\ stack' = Below \o <<ForBodyFrame(Top.increment)>> \o Statement
    /\ cur' = Top.body
    /\ pos' = pos + 1
    /\ KeepRest

-----------------------------------------------------------------------------
(* switch, case and default, for at most four cases; the lowering of       *)
(* larger ones is the subject of SwitchLowering.                           *)

MaxCompared == 4

SwitchStatement ==
    /\ At("statement", "switch")
    /\ stack' = Below \o <<[pc |-> "switch", body |-> Allocated(1), next |-> Allocated(2),
                            old |-> targets, outer |-> ctx]>> \o Expression
    /\ targets' = [targets EXCEPT !.break = Allocated(2)]
    /\ ctx' = <<[default |-> Null, cases |-> <<>>]>>
    /\ def' = Blocks(def, 2)
    /\ pos' = pos + 1
    /\ UNCHANGED <<cur, labels, errors, phase, tokens>>

SwitchBody ==
    /\ Running("switch")
    /\ stack' = Below \o <<[pc |-> "switch_body", parent |-> cur, next |-> Top.next,
                            old |-> Top.old, outer |-> Top.outer]>> \o Statement
    /\ cur' = Top.body
    /\ UNCHANGED <<pos, def>>
    /\ KeepTargets

(* One step of link_switch_context: the value is evaluated in the parent,  *)
(* the comparison is in a block of its own, behind the previous one.       *)
LinkCase(state, case) ==
    LET d == eval(Blocks(state.def, 1), state.parent)
        cond == Len(d.blocks)
        Equal == [k |-> "eq", v |-> case.value, of |-> EvalVar(state.def, state.parent)]
    IN  [state EXCEPT !.def = Next0(Next1(SetExpr(d, cond, Equal), cond, case.label), state.cond, cond),
                      !.cond = cond]

link_switch_context(d, parent, next) ==
    LET linked == FoldLeft(LinkCase, [def |-> d, parent |-> parent, cond |-> parent],
                           ctx[1].cases)
    IN  Next0(linked.def, linked.cond, IF ctx[1].default # Null THEN ctx[1].default ELSE next)

SwitchDone ==
    /\ Running("switch_body")
    /\ LET d == Next0(def, cur, Top.next)
       IN  def' = IF ctx[1].cases = <<>> /\ ctx[1].default = Null
                  THEN Next0(d, Top.parent, Top.next)
                  ELSE link_switch_context(d, Top.parent, Top.next)
    /\ targets' = [targets EXCEPT !.break = Top.old.break]
    /\ ctx' = Top.outer
    /\ cur' = Top.next
    /\ stack' = Below
    /\ UNCHANGED <<pos, labels, errors, phase, tokens>>

(* A stray "case" leaves its value unread, which is no statement. *)
CaseLabel ==
    /\ At("statement", "case")
    /\ IF ctx = <<>>
       THEN errors' = errors + 1 /\ phase' = "rejected" /\ UNCHANGED <<ctx, def, cur, pos>>
       ELSE /\ Len(ctx[1].cases) < MaxCompared
            /\ ctx' = <<[ctx[1] EXCEPT !.cases = Append(@, [label |-> Allocated(1), value |-> tokens[pos].v])]>>
            /\ def' = Next0(Blocks(def, 1), cur, Allocated(1))
            /\ cur' = Allocated(1)
            /\ pos' = pos + 1
            /\ UNCHANGED <<errors, phase>>
    /\ UNCHANGED <<stack, targets, labels, tokens>>

(* After an error "default" is over, and what it labels is the next        *)
(* statement of the block.                                                 *)
DefaultLabel ==
    /\ At("statement", "default")
    /\ IF ctx = <<>> \/ ctx[1].default # Null
       THEN errors' = errors + 1 /\ stack' = Below /\ UNCHANGED <<ctx, def, cur>>
       ELSE /\ ctx' = <<[ctx[1] EXCEPT !.default = Allocated(1)]>>
            /\ def' = Next0(Blocks(def, 1), cur, Allocated(1))
            /\ cur' = Allocated(1)
            /\ UNCHANGED <<errors, stack>>
    /\ pos' = pos + 1
    /\ UNCHANGED <<targets, labels, phase, tokens>>

-----------------------------------------------------------------------------
(* The function. *)

UndefinedUnlessKnown == {n \in LabelNames : labels[n].block = Null /\ labels[n].defined}
Undefined == {n \in LabelNames : labels[n].block # Null /\ ~labels[n].defined}

(* pop_scope of ns_label reports what is still tentative; a definition is  *)
(* compiled only if there was no error.                                    *)
EndOfFunction ==
    /\ At("function", "eof")
    /\ errors' = errors + Cardinality(Undefined)
    /\ phase' = IF errors' = 0 THEN "built" ELSE "rejected"
    /\ UNCHANGED <<tokens, pos, stack, cur, def, targets, ctx, labels>>

ParseInit(texts) ==
    /\ tokens \in texts
    /\ pos = 2
    /\ stack = <<[pc |-> "function"], [pc |-> "statement"]>>
    /\ cur = 1
    /\ def = [blocks |-> <<NewBlock>>, temps |-> 0]
    /\ targets = Targets(Null, Null)
    /\ ctx = <<>>
    /\ labels = [n \in LabelNames |-> [block |-> Null, defined |-> FALSE]]
    /\ errors = 0
    /\ phase = "parse"

ParseNext ==
    \/ Operand \/ OpenParenthesis \/ CloseParenthesis
    \/ LogicalOperator \/ LogicalDone \/ Question \/ Colon \/ ConditionalDone \/ Comma
    \/ EmptyStatement \/ ExpressionStatement \/ ExpressionDone
    \/ BreakOrContinue \/ GotoStatement \/ LabeledStatement
    \/ ReturnStatement \/ ReturnDone
    \/ OpenBlock \/ NextInBlock
    \/ IfStatement \/ IfCondition \/ IfThen \/ IfElse
    \/ DoStatement \/ DoBody \/ DoCondition
    \/ WhileStatement \/ WhileCondition \/ LoopBody
    \/ ForStatement \/ ForInit \/ ForCondition \/ ForIncrement \/ ForStep
    \/ SwitchStatement \/ SwitchBody \/ SwitchDone \/ CaseLabel \/ DefaultLabel
    \/ EndOfFunction
=============================================================================
