--------------------------- MODULE FlowExecution ---------------------------
(***************************************************************************)
(* Functions are parsed, and then the blocks are executed beside the       *)
(* reference: whenever both wait for the result of a call it must be the   *)
(* same call, and both must return the same value.                         *)
(***************************************************************************)
EXTENDS StatementFlow, FlowReference

CONSTANTS
    Functions,   \* the functions, as trees
    Results,     \* what a call may return
    MaxSteps     \* the steps between two calls

ASSUME ExecutionAssumption == Results \subseteq Int /\ MaxSteps \in Nat

VARIABLES
    ast,     \* the function
    graph,   \* where the execution of the blocks is
    ref      \* where the execution of the reference is

execution == <<ast, graph, ref>>

(***************************************************************************)
(* The meaning of blocks: the statements in order, then the return, the    *)
(* branch or the jump.                                                     *)
(***************************************************************************)
Undefinedness == -1
At0(b) == [b |-> b, i |-> 1, env |-> [t \in 1..def.temps |-> Undefinedness], out |-> Enter(<<>>)]

ValueOf(e, env) ==
    LET Plain(x) == IF x.k = "temp" THEN env[x.v] ELSE x.v
    IN  CASE e.k = "ne" -> Truth(env[e.v] # 0)
          [] e.k = "eq" -> Truth(Plain(e.of) = e.v)
          [] OTHER -> Plain(e)

InCode(g) == g.i <= Len(def.blocks[g.b].code)
IsBranch(g) == ~InCode(g) /\ def.blocks[g.b].jump[2] # Null
IsReturn(g) == ~InCode(g) /\ def.blocks[g.b].jump = <<Null, Null>>

(* The expression that the next step needs. *)
Needed(g) ==
    IF InCode(g) THEN def.blocks[g.b].code[g.i].e
    ELSE IF IsBranch(g) \/ (IsReturn(g) /\ def.blocks[g.b].ret) THEN def.blocks[g.b].expr
    ELSE Imm(0)

GraphAtRest(g) == g.out.do # "enter" \/ Needed(g).k = "atom"

(* A step, with the value of the expression that it needs. *)
GraphStep(g, v) ==
    LET block == def.blocks[g.b]
        GoTo(to) == [g EXCEPT !.b = to, !.i = 1]
    IN  IF InCode(g)
        THEN [g EXCEPT !.i = @ + 1,
                       !.env = IF block.code[g.i].t = Null THEN @ ELSE [@ EXCEPT ![block.code[g.i].t] = v]]
        ELSE IF IsReturn(g) THEN [g EXCEPT !.out = IF block.ret THEN Returned(v) ELSE Ended]
        ELSE IF IsBranch(g) THEN GoTo(block.jump[IF v # 0 THEN 2 ELSE 1])
        ELSE GoTo(block.jump[1])

RECURSIVE RunGraph(_, _)
RunGraph(g, bound) ==
    IF GraphAtRest(g) THEN g
    ELSE IF bound = 0 THEN [g EXCEPT !.out = Diverges]
    ELSE RunGraph(GraphStep(g, ValueOf(Needed(g), g.env)), bound - 1)

-----------------------------------------------------------------------------
Idle == [b |-> 0, i |-> 0, env |-> <<>>, out |-> Enter(<<>>)]

Init ==
    /\ ast \in Functions
    /\ ParseInit({Text(ast, <<>>)})
    /\ graph = Idle
    /\ ref = Enter(<<>>)

Parse == ParseNext /\ UNCHANGED execution

Start ==
    /\ phase = "built"
    /\ phase' = "run"
    /\ graph' = RunGraph(At0(1), MaxSteps)
    /\ ref' = RunFrom(ast, Enter(<<>>), MaxSteps)
    /\ UNCHANGED <<parser, ast>>

(* The result of a call. *)
Result ==
    /\ phase = "run"
    /\ graph.out.do = "enter" /\ ref.do = "enter"
    /\ \E v \in Results :
          /\ graph' = RunGraph(GraphStep(graph, v), MaxSteps)
          /\ ref' = RunFrom(ast, Value(ref.at, v), MaxSteps)
    /\ UNCHANGED <<parser, ast, phase>>

Next == Parse \/ Start \/ Result

Spec == Init /\ [][Next]_<<parser, execution, phase>> /\ WF_<<parser, execution, phase>>(Parse)

-----------------------------------------------------------------------------
(* The blocks that statement() and the functions below it build make the   *)
(* calls of the function in the order in which C evaluates them, with the  *)
(* same values, and return what the function returns.                      *)
FlowAsWritten ==
    phase = "run" =>
        IF graph.out.do = "enter"
        THEN ref = Enter(tokens[Needed(graph).v].at)
        ELSE ref = graph.out

(* The parser reports an error exactly for the functions with a repeated   *)
(* label or default, a goto without its label, or a case or default that   *)
(* is in no switch.                                                        *)
ErrorsAsInC ==
    /\ phase = "rejected" => ~WellFormed(ast)
    /\ phase \in {"built", "run"} => WellFormed(ast)

(* The text is read to its end and never read again: the descent ends.     *)
ParsingEnds == <>(phase # "parse")
=============================================================================
