----------------------------- MODULE Optimizer -----------------------------
(***************************************************************************)
(* optimize() on the body of one function: serialize the flow graph, skip  *)
(* empty blocks, number the symbols, then solve live variable analysis,    *)
(* remove dead stores and merge chained assignments until nothing is       *)
(* removed any more.  Every traversal goes over `list', one block a step.  *)
(***************************************************************************)
EXTENDS IR

CONSTANTS
    Programs,  \* function bodies as the parser delivers them
    Limit      \* symbols a 64 bit liveness set has room for

ASSUME LimitAssumption == Limit \in Nat
ASSUME ProgramsAssumption ==
    \A q \in Programs : q.jump \in [Blocks -> Seq(Blocks)]

VARIABLES
    prog,      \* the body before optimization
    code,      \* block->code: statements, each with its liveness `out'
    jump,      \* block->jump: at most two targets, without the NULLs
    phase,     \* what optimize() is doing
    stack,     \* blocks serialize_basic_blocks has yet to look at
    black,     \* blocks of color BLACK
    list,      \* blocklist
    idx,       \* position of the current traversal in the list
    branch,    \* i of skip_empty_blocks
    symbols,   \* symbols with an index
    in,        \* block->in
    changes,   \* blocks that changed in this round of the dataflow problem
    n          \* stores removed in this round

vars == <<prog, code, jump, phase, stack, black, list, idx, branch, symbols, in,
          changes, n>>

Init ==
    /\ prog \in Programs
    /\ code = [b \in Blocks |-> [i \in DOMAIN prog.code[b] |->
                                    [st |-> prog.code[b][i], out |-> {}]]]
    /\ jump = prog.jump
    /\ phase = "serialize" /\ stack = <<body>> /\ black = {} /\ list = <<>>
    /\ idx = 1 /\ branch = 1 /\ symbols = {}
    /\ in \in {[b \in Blocks |-> S] : S \in {{}, Syms}}  \* of a new or a recycled block
    /\ changes = 0 /\ n = 0

---------------------------------------------------------------------------
(* serialize_basic_blocks, skip_empty_blocks, enumerate_used_symbols.      *)

\* Mutant: only the first branch is followed.
VisitFirstBranch ==
    /\ phase = "serialize" /\ stack # <<>>
    /\ IF Head(stack) \in black
       THEN /\ stack' = Tail(stack)
            /\ UNCHANGED <<black, list>>
       ELSE /\ black' = black \cup {Head(stack)}
            /\ list' = Append(list, Head(stack))
            /\ stack' = (IF jump[Head(stack)] = <<>> THEN <<>>
                         ELSE <<jump[Head(stack)][1]>>) \o Tail(stack)
    /\ UNCHANGED <<prog, code, jump, phase, idx, branch, symbols, in, changes, n>>

\* One call of serialize_basic_blocks; the calls it makes follow.
Visit ==
    /\ phase = "serialize" /\ stack # <<>>
    /\ IF Head(stack) \in black
       THEN /\ stack' = Tail(stack)
            /\ UNCHANGED <<black, list>>
       ELSE /\ black' = black \cup {Head(stack)}
            /\ list' = Append(list, Head(stack))
            /\ stack' = jump[Head(stack)] \o Tail(stack)
    /\ UNCHANGED <<prog, code, jump, phase, idx, branch, symbols, in, changes, n>>

Serialized ==
    /\ phase = "serialize" /\ stack = <<>>
    /\ phase' = "skip" /\ idx' = 1 /\ branch' = 1
    /\ UNCHANGED <<prog, code, jump, stack, black, list, symbols, in, changes, n>>

\* The block a traversal is at.
block == list[idx]

\* A block that only jumps on.
Empty(b) == code[b] = <<>> /\ Len(jump[b]) = 1

\* The branch leads to an empty block: forward it.
Forward ==
    /\ phase = "skip" /\ idx <= Len(list) /\ branch <= Len(jump[block])
    /\ Empty(jump[block][branch])
    /\ jump' = [jump EXCEPT ![block][branch] = jump[jump[block][branch]][1]]
    /\ UNCHANGED <<prog, code, phase, stack, black, list, idx, branch, symbols, in, changes, n>>

NextBranch ==
    /\ phase = "skip" /\ idx <= Len(list) /\ branch <= Len(jump[block])
    /\ ~ Empty(jump[block][branch])
    /\ branch' = branch + 1
    /\ UNCHANGED <<prog, code, jump, phase, stack, black, list, idx, symbols, in, changes, n>>

SkipDone ==
    /\ phase = "skip" /\ idx <= Len(list) /\ branch > Len(jump[block])
    /\ branch' = 1 /\ idx' = idx + 1
    /\ UNCHANGED <<prog, code, jump, phase, stack, black, list, symbols, in, changes, n>>

Skipped ==
    /\ phase = "skip" /\ idx > Len(list)
    /\ phase' = "enumerate" /\ idx' = 1
    /\ UNCHANGED <<prog, code, jump, stack, black, list, branch, symbols, in, changes, n>>

\* The operands of an expression: a cast and a call have no right one.
Operands(e) == IF e.op = "xor" THEN {e.l, e.r} ELSE {e.l}

\* The expression at the end of b is evaluated: it is a condition or returned.
\* (The index of a jump table is neither, as far as the optimizer can tell.)
HasExpr(b) == Len(jump[b]) = 2 \/ prog.ret[b]

\* The symbols enumerate_used_symbols looks at in b.
Referenced(b) ==
    ({v.sym : v \in UNION {Operands(code[b][i].st.expr) : i \in DOMAIN code[b]}}
        \cup {code[b][i].st.t.sym : i \in {j \in DOMAIN code[b] : code[b][j].st.st = "assign"}}
        \cup {v.sym : v \in IF HasExpr(b) THEN Operands(prog.expr[b]) ELSE {}}) \ {NULL}

\* Number the symbols of a block, as many as there are indexes left.
Enumerate ==
    /\ phase = "enumerate" /\ idx <= Len(list)
    /\ \E S \in SUBSET Referenced(block) :
          /\ symbols' = symbols \cup S
          /\ Cardinality(symbols \cup S) <= Limit
          /\ Cardinality(symbols \cup S) = Limit \/ Referenced(block) \subseteq symbols \cup S
    /\ idx' = idx + 1
    /\ UNCHANGED <<prog, code, jump, phase, stack, black, list, branch, in, changes, n>>

\* initialize_dataflow: all sets start out empty.
Enumerated ==
    /\ phase = "enumerate" /\ idx > Len(list) /\ Cardinality(symbols) < Limit
    /\ phase' = "analyse" /\ idx' = 1 /\ changes' = 0 /\ n' = 0
    /\ in' = [b \in Blocks |-> IF b \in ToSet(list) THEN {} ELSE in[b]]
    /\ UNCHANGED <<prog, code, jump, stack, black, list, branch, symbols>>

\* Too many symbols: nothing is optimized.
TooManySymbols ==
    /\ phase = "enumerate" /\ idx > Len(list) /\ Cardinality(symbols) >= Limit
    /\ phase' = "finish" /\ idx' = 1
    /\ UNCHANGED <<prog, code, jump, stack, black, list, branch, symbols, in, changes, n>>

---------------------------------------------------------------------------
(* liveness.c.                                                             *)

\* set_use_bit: a pointer can point to anything.
UseOf(v) == CASE v.kind = "deref" -> Syms
              [] v.kind \in {"direct", "address"} -> {v.sym}
              [] v.kind = "immediate" -> {}

\* set_def_bit: only a scalar is known to be overwritten.
DefOf(v) == IF v.kind = "direct" /\ v.sym \notin Structs THEN {v.sym} ELSE {}

\* use
use(e) == UNION {UseOf(v) : v \in Operands(e)}

\* Mutant: an assignment through a pointer does not use the pointer.
usesIgnoresTarget(s) ==
    use(s.expr) \cup (IF s.st = "param" /\ s.expr.type = "ptr" THEN Syms ELSE {})

\* uses: an assignment through a pointer uses the pointer; a pointer passed to
\* a function makes everything used.
uses(s) ==
    use(s.expr)
        \cup (IF s.st = "assign" /\ s.t.kind = "deref" THEN {s.t.sym} ELSE {})
        \cup (IF s.st = "param" /\ s.expr.type = "ptr" THEN Syms ELSE {})

\* def
defs(s) == IF s.st = "assign" THEN DefOf(s.t) ELSE {}

\* What is live before s, given what is live after it.
LiveBefore(s, live) == (live \ defs(s)) \cup uses(s)

\* What is live after the last statement of b.
LiveAtEnd(b) ==
    UNION {in[jump[b][k]] : k \in DOMAIN jump[b]}
        \cup (IF HasExpr(b) THEN use(prog.expr[b]) ELSE {})

Statements(b) == [i \in DOMAIN code[b] |-> code[b][i].st]

\* What is live after the first i statements of b.
LiveAfter(b, i) ==
    FoldRight(LiveBefore, SubSeq(Statements(b), i + 1, Len(Statements(b))), LiveAtEnd(b))

\* What is live at the start of b, given what is live at the start of the
\* blocks it jumps to.
LiveIn(b) == LiveAfter(b, 0)

\* Mutant: only the last block of the traversal is looked at for changes.
AnalyseLastChange ==
    /\ phase = "analyse" /\ idx <= Len(list)
    /\ in' = [in EXCEPT ![block] = LiveIn(block)]
    /\ code' = [code EXCEPT ![block] =
                   [i \in DOMAIN code[block] |->
                       [st |-> code[block][i].st, out |-> LiveAfter(block, i)]]]
    /\ changes' = IF in[block] # LiveIn(block) THEN 1 ELSE 0
    /\ idx' = idx + 1
    /\ UNCHANGED <<prog, jump, phase, stack, black, list, branch, symbols, n>>

\* live_variable_analysis on one block.
Analyse ==
    /\ phase = "analyse" /\ idx <= Len(list)
    /\ in' = [in EXCEPT ![block] = LiveIn(block)]
    /\ code' = [code EXCEPT ![block] =
                   [i \in DOMAIN code[block] |->
                       [st |-> code[block][i].st, out |-> LiveAfter(block, i)]]]
    /\ changes' = changes + (IF in[block] # LiveIn(block) THEN 1 ELSE 0)
    /\ idx' = idx + 1
    /\ UNCHANGED <<prog, jump, phase, stack, black, list, branch, symbols, n>>

\* execute_iterative_dataflow: again, unless nothing has changed.
Analysed ==
    /\ phase = "analyse" /\ idx > Len(list)
    /\ phase' = IF changes = 0 THEN "eliminate" ELSE "analyse"
    /\ idx' = 1 /\ changes' = 0
    /\ UNCHANGED <<prog, code, jump, stack, black, list, branch, symbols, in, n>>

---------------------------------------------------------------------------
(* transform.c.                                                            *)

\* A store whose value is never read.
DeadStore(c) ==
    /\ c.st.st = "assign" /\ c.st.t.kind = "direct"
    /\ c.st.t.sym \notin c.out /\ c.st.t.sym \notin Globals

\* A dead store of a call still has to make the call.
Demoted(c) == IF DeadStore(c) THEN [c EXCEPT !.st.st = "expr"] ELSE c

\* Mutant: every statement that is looked at is counted.
EliminateForever ==
    /\ phase = "eliminate" /\ idx <= Len(list)
    /\ LET kept == SelectSeq(code[block], LAMBDA c :
                       ~ (DeadStore(c) /\ ~ has_side_effects(c.st.expr)))
       IN  code' = [code EXCEPT ![block] = [i \in DOMAIN kept |-> Demoted(kept[i])]]
    /\ n' = n + Len(code[block])
    /\ idx' = idx + 1
    /\ UNCHANGED <<prog, jump, phase, stack, black, list, branch, symbols, in, changes>>

\* dead_store_elimination on one block.
Eliminate ==
    /\ phase = "eliminate" /\ idx <= Len(list)
    /\ LET kept == SelectSeq(code[block], LAMBDA c :
                       ~ (DeadStore(c) /\ ~ has_side_effects(c.st.expr)))
       IN  code' = [code EXCEPT ![block] = [i \in DOMAIN kept |-> Demoted(kept[i])]]
    /\ n' = n + Cardinality({i \in DOMAIN code[block] : DeadStore(code[block][i])})
    /\ idx' = idx + 1
    /\ UNCHANGED <<prog, jump, phase, stack, black, list, branch, symbols, in, changes>>

Eliminated ==
    /\ phase = "eliminate" /\ idx > Len(list)
    /\ phase' = "merge" /\ idx' = 1
    /\ UNCHANGED <<prog, code, jump, stack, black, list, branch, symbols, in, changes, n>>

\* var_equal
var_equal(a, b) ==
    a.type = b.type /\ a.sym = b.sym /\ a.kind = b.kind /\ a.field = b.field

\* can_merge: t1 = a + b, t2 = t1 where t1 is not read again.
can_merge(c1, c2) ==
    /\ c1.st.st = "assign" /\ c2.st.st = "assign"
    /\ is_identity(c2.st.expr) /\ var_equal(c1.st.t, c2.st.expr.l)
    /\ c1.st.t.type = c2.st.t.type
    /\ c1.st.t.kind = "direct" /\ c1.st.t.sym \notin Globals
    /\ c1.st.t.sym \notin c2.out

\* One more statement c behind the statements s, merged with the last if it can.
MergeInto(s, c) ==
    IF s # <<>> /\ can_merge(Last(s), c)
    THEN Append(Front(s), [Last(s) EXCEPT !.st.t = c.st.t])
    ELSE Append(s, c)

\* merge_chained_assignment on one block.  It always returns 0.
Merge ==
    /\ phase = "merge" /\ idx <= Len(list)
    /\ code' = [code EXCEPT ![block] = FoldLeft(MergeInto, <<>>, code[block])]
    /\ idx' = idx + 1
    /\ UNCHANGED <<prog, jump, phase, stack, black, list, branch, symbols, in, changes, n>>

\* Another round if stores have been removed.  The sets of the last round are
\* where the next one starts.
Merged ==
    /\ phase = "merge" /\ idx > Len(list)
    /\ phase' = IF n > 0 THEN "analyse" ELSE "finish"
    /\ idx' = 1 /\ n' = 0
    /\ UNCHANGED <<prog, code, jump, stack, black, list, branch, symbols, in, changes>>

\* reset_symbol_indexes and color_white.
Finish ==
    /\ phase = "finish"
    /\ phase' = "done" /\ symbols' = {} /\ black' = black \ ToSet(list)
    /\ UNCHANGED <<prog, code, jump, stack, list, idx, branch, in, changes, n>>

Done == phase = "done" /\ UNCHANGED vars

Next ==
    \/ Visit \/ Serialized
    \/ Forward \/ NextBranch \/ SkipDone \/ Skipped
    \/ Enumerate \/ Enumerated \/ TooManySymbols
    \/ Analyse \/ Analysed
    \/ Eliminate \/ Eliminated
    \/ Merge \/ Merged
    \/ Finish \/ Done

Spec == Init /\ [][Next]_vars

\* optimize() runs on its own until it returns.
FairSpec == Spec /\ WF_vars(Next)

---------------------------------------------------------------------------
(* Properties.                                                             *)

\* The traversals see every block that can be reached, and each of them once
\* (comment on traverse): the list starts at the body, goes with every block
\* to its targets, also after jumps have been forwarded, and repeats no block.
\* Liveness is only read from blocks the analysis has initialized.
ReachableListed ==
    phase # "serialize" =>
        /\ body \in ToSet(list)
        /\ \A i \in 1 .. Len(list) : \A k \in 1 .. Len(jump[list[i]]) :
              \E j \in 1 .. Len(list) : list[j] = jump[list[i]][k]
        /\ \A i, j \in 1 .. Len(list) : list[i] = list[j] => i = j

\* When stores are removed the analysis is complete: another visit of any
\* block would not change its set.
DataflowSolved ==
    phase = "eliminate" /\ idx = 1 =>
        \A i \in 1 .. Len(list) : in[list[i]] = LiveIn(list[i])

\* The function as it is now.
Current == [prog EXCEPT !.code = [b \in Blocks |-> Statements(b)], !.jump = jump]

\* The definition is left in a semantically equivalent state (optimize.h).
Equivalent == phase = "done" => SameMeaning(prog, Current)

\* optimize() returns.
Terminates == <>(phase = "done")
===========================================================================
