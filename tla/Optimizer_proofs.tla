-------------------------- MODULE Optimizer_proofs --------------------------
(***************************************************************************)
(* Proofs about Optimizer: the traversals see every block that jumps lead  *)
(* to, dead stores are looked for in a solved dataflow problem only, and   *)
(* what is live is enough for removing a store or merging two.             *)
(***************************************************************************)
EXTENDS Optimizer, TLAPS

---------------------------------------------------------------------------
(* The list of blocks.                                                     *)

\* b is in the sequence q.
Within(b, q) == \E i \in 1 .. Len(q) : q[i] = b

\* The types of the variables that the list and the traversals depend on.
ListType ==
    /\ jump \in [Blocks -> Seq(Blocks)]
    /\ list \in Seq(Blocks) /\ stack \in Seq(Blocks)
    /\ idx \in Nat \ {0} /\ branch \in Nat \ {0}

\* While blocks are being visited, whatever a jump leads to is listed or is
\* still on the stack.
Visiting ==
    phase = "serialize" =>
        /\ \A b \in Blocks : b \in black <=> Within(b, list)
        /\ Within(body, list) \/ Within(body, stack)
        /\ \A i \in 1 .. Len(list) : \A k \in 1 .. Len(jump[list[i]]) :
              Within(jump[list[i]][k], list) \/ Within(jump[list[i]][k], stack)

\* No block is listed twice.
NoRepeat == \A i, j \in 1 .. Len(list) : list[i] = list[j] => i = j

\* The list is closed under jumps.
Closed ==
    phase # "serialize" =>
        /\ Within(body, list)
        /\ \A i \in 1 .. Len(list) : \A k \in 1 .. Len(jump[list[i]]) :
              Within(jump[list[i]][k], list)

ListInv == ListType /\ Visiting /\ NoRepeat /\ Closed

\* An element of a concatenation is in one of the parts, and the other way
\* round.
LEMMA WithinConcat ==
    ASSUME NEW q \in Seq(Blocks), NEW r \in Seq(Blocks), NEW b
    PROVE  Within(b, q \o r) <=> Within(b, q) \/ Within(b, r)
<1>1. ASSUME Within(b, q) PROVE Within(b, q \o r)
  BY <1>1 DEF Within
<1>2. ASSUME Within(b, r) PROVE Within(b, q \o r)
  <2>1. PICK i \in 1 .. Len(r) : r[i] = b
    BY <1>2 DEF Within
  <2>2. Len(q) + i \in 1 .. Len(q \o r) /\ (q \o r)[Len(q) + i] = b
    BY <2>1
  <2> QED BY <2>2 DEF Within
<1>3. ASSUME Within(b, q \o r) PROVE Within(b, q) \/ Within(b, r)
  <2>1. PICK i \in 1 .. Len(q \o r) : (q \o r)[i] = b
    BY <1>3 DEF Within
  <2>2. CASE i <= Len(q)
    BY <2>1, <2>2 DEF Within
  <2>3. CASE i > Len(q)
    <3>1. i - Len(q) \in 1 .. Len(r) /\ r[i - Len(q)] = b
      BY <2>1, <2>3
    <3> QED BY <3>1 DEF Within
  <2> QED BY <2>2, <2>3
<1> QED BY <1>1, <1>2, <1>3

\* An element of q is its head or in its tail.
LEMMA WithinTail ==
    ASSUME NEW q \in Seq(Blocks), q # <<>>, NEW b
    PROVE  /\ Head(q) \in Blocks /\ Tail(q) \in Seq(Blocks)
           /\ Within(b, q) => b = Head(q) \/ Within(b, Tail(q))
<1>1. Head(q) \in Blocks /\ Tail(q) \in Seq(Blocks)
  OBVIOUS
<1>2. ASSUME Within(b, q), b # Head(q) PROVE Within(b, Tail(q))
  <2>1. PICK i \in 1 .. Len(q) : q[i] = b
    BY <1>2 DEF Within
  <2>2. i # 1
    BY <2>1, <1>2
  <2>3. i - 1 \in 1 .. Len(Tail(q)) /\ Tail(q)[i - 1] = b
    BY <2>1, <2>2
  <2> QED BY <2>3 DEF Within
<1> QED BY <1>1, <1>2

\* Appending c adds c and nothing else.
LEMMA WithinAppend ==
    ASSUME NEW q \in Seq(Blocks), NEW c \in Blocks, NEW b
    PROVE  Within(b, Append(q, c)) <=> Within(b, q) \/ b = c
<1>1. Append(q, c) \in Seq(Blocks) /\ Len(Append(q, c)) = Len(q) + 1
  OBVIOUS
<1>2. \A i \in 1 .. Len(q) : Append(q, c)[i] = q[i]
  OBVIOUS
<1>3. Append(q, c)[Len(q) + 1] = c
  OBVIOUS
<1>4. ASSUME Within(b, Append(q, c)) PROVE Within(b, q) \/ b = c
  <2>1. PICK i \in 1 .. Len(q) + 1 : Append(q, c)[i] = b
    BY <1>1, <1>4 DEF Within
  <2>2. CASE i \in 1 .. Len(q)
    BY <2>1, <2>2, <1>2 DEF Within
  <2>3. CASE i = Len(q) + 1
    BY <2>1, <2>3, <1>3
  <2> QED BY <2>2, <2>3
<1>5. ASSUME Within(b, q) PROVE Within(b, Append(q, c))
  BY <1>1, <1>2, <1>5 DEF Within
<1>6. ASSUME b = c PROVE Within(b, Append(q, c))
  BY <1>1, <1>3, <1>6 DEF Within
<1> QED BY <1>4, <1>5, <1>6

\* The list is empty and the body is on the stack when optimize() starts.
THEOREM ListInvInit == Init => ListInv
<1> SUFFICES ASSUME Init PROVE ListInv
  OBVIOUS
<1>1. jump \in [Blocks -> Seq(Blocks)]
  BY ProgramsAssumption DEF Init
<1>2. stack \in Seq(Blocks) /\ list \in Seq(Blocks) /\ Len(list) = 0
  BY BodyAssumption DEF Init
<1>3. Within(body, stack)
  <2>1. 1 \in 1 .. Len(stack) /\ stack[1] = body
    BY DEF Init
  <2> QED BY <2>1 DEF Within
<1>4. \A b : ~ Within(b, list)
  BY <1>2 DEF Within
<1> QED BY <1>1, <1>2, <1>3, <1>4 DEF Init, ListInv, ListType, Visiting, NoRepeat, Closed

\* Visit lists the block on top of the stack unless it is listed already, and
\* puts what it jumps to on the stack.
LEMMA VisitKeepsList == ASSUME ListInv, Visit PROVE ListInv'
<1> DEFINE h == Head(stack)
<1>1. /\ phase = "serialize" /\ phase' = "serialize" /\ stack # <<>>
      /\ jump' = jump /\ idx' = idx /\ branch' = branch
  BY DEF Visit
<1>2. /\ jump \in [Blocks -> Seq(Blocks)] /\ list \in Seq(Blocks) /\ stack \in Seq(Blocks)
      /\ idx \in Nat \ {0} /\ branch \in Nat \ {0}
  BY DEF ListInv, ListType
<1>3. h \in Blocks /\ Tail(stack) \in Seq(Blocks)
  BY <1>1, <1>2
<1>4. \A b : Within(b, stack) => b = h \/ Within(b, Tail(stack))
  BY <1>1, <1>2, WithinTail
<1>5. /\ \A b \in Blocks : b \in black <=> Within(b, list)
      /\ Within(body, list) \/ Within(body, stack)
      /\ \A i \in 1 .. Len(list) : \A k \in 1 .. Len(jump[list[i]]) :
            Within(jump[list[i]][k], list) \/ Within(jump[list[i]][k], stack)
      /\ NoRepeat
  BY <1>1 DEF ListInv, Visiting
<1>6. CASE h \in black
  <2>1. stack' = Tail(stack) /\ black' = black /\ list' = list
    BY <1>6 DEF Visit
  <2>2. Within(h, list)
    BY <1>3, <1>5, <1>6
  <2> HIDE DEF h
  <2>3. \A b : Within(b, list) \/ Within(b, stack) => Within(b, list') \/ Within(b, stack')
    BY <1>4, <2>1, <2>2
  <2>4. \A b : Within(b, list') <=> Within(b, list)
    BY <2>1
  <2>5. Visiting'
    BY <1>1, <1>5, <2>1, <2>3, <2>4 DEF Visiting
  <2> QED BY <1>1, <1>2, <1>3, <1>5, <2>1, <2>5 DEF ListInv, ListType, NoRepeat, Closed
<1>7. CASE h \notin black
  <2>1. /\ stack' = jump[h] \o Tail(stack)
        /\ black' = black \cup {h} /\ list' = Append(list, h)
    BY <1>7 DEF Visit
  <2>2. ~ Within(h, list)
    BY <1>3, <1>5, <1>7
  <2> HIDE DEF h
  <2>3. jump[h] \in Seq(Blocks)
    BY <1>2, <1>3
  <2>4. \A b : Within(b, list') <=> Within(b, list) \/ b = h
    BY <1>2, <1>3, <2>1, WithinAppend
  <2>5. \A b : Within(b, stack') <=> Within(b, jump[h]) \/ Within(b, Tail(stack))
    BY <1>3, <2>1, <2>3, WithinConcat
  <2>6. list' \in Seq(Blocks) /\ stack' \in Seq(Blocks) /\ Len(list') = Len(list) + 1
    BY <1>2, <1>3, <2>1, <2>3
  <2>7. /\ \A i \in 1 .. Len(list) : list'[i] = list[i]
        /\ list'[Len(list) + 1] = h
    BY <1>2, <1>3, <2>1
  <2>8. NoRepeat'
    <3>1. \A i \in 1 .. Len(list) : list[i] # h
      BY <2>2 DEF Within
    <3>2. Len(list) \in Nat /\ \A i \in 1 .. Len(list') : i \in 1 .. Len(list) \/ i = Len(list) + 1
      BY <1>2, <2>6
    <3> QED BY <1>5, <2>6, <2>7, <3>1, <3>2 DEF NoRepeat
  <2>9. ASSUME NEW i \in 1 .. Len(list'), NEW k \in 1 .. Len(jump[list'[i]])
        PROVE  Within(jump[list'[i]][k], list') \/ Within(jump[list'[i]][k], stack')
    <3>1. CASE i \in 1 .. Len(list)
      BY <1>4, <1>5, <2>4, <2>5, <2>7, <3>1
    <3>2. CASE i = Len(list) + 1
      <4>1. Within(jump[h][k], jump[h])
        BY <2>7, <3>2, <2>9 DEF Within
      <4> QED BY <2>5, <2>7, <3>2, <4>1
    <3>3. i \in 1 .. Len(list) \/ i = Len(list) + 1
      BY <1>2, <2>6
    <3> QED BY <3>1, <3>2, <3>3
  <2>10. Visiting'
    <3>1. \A b \in Blocks : b \in black' <=> Within(b, list')
      BY <1>5, <2>1, <2>4
    <3>2. Within(body, list') \/ Within(body, stack')
      BY <1>4, <1>5, <2>4, <2>5
    <3> QED BY <1>1, <2>9, <3>1, <3>2 DEF Visiting, Within
  <2> QED BY <1>1, <1>2, <2>6, <2>8, <2>10 DEF ListInv, ListType, Closed
<1> QED BY <1>6, <1>7

\* Replacing one target of a block leaves sequences of blocks.
LEMMA ForwardType ==
    ASSUME NEW J \in [Blocks -> Seq(Blocks)], NEW b \in Blocks, NEW k \in 1 .. Len(J[b]),
           NEW c \in Blocks
    PROVE  LET N == [J EXCEPT ![b][k] = c] IN
           /\ N \in [Blocks -> Seq(Blocks)]
           /\ \A d \in Blocks : Len(N[d]) = Len(J[d])
           /\ \A d \in Blocks : \A m \in 1 .. Len(J[d]) :
                 N[d][m] = IF d = b /\ m = k THEN c ELSE J[d][m]
<1> DEFINE N == [J EXCEPT ![b][k] = c]
<1>1. J[b] \in Seq(Blocks) /\ [J[b] EXCEPT ![k] = c] \in Seq(Blocks)
  OBVIOUS
<1>2. Len([J[b] EXCEPT ![k] = c]) = Len(J[b])
  BY <1>1
<1>3. N \in [Blocks -> Seq(Blocks)]
  BY <1>1
<1>4. \A d \in Blocks : N[d] = IF d = b THEN [J[b] EXCEPT ![k] = c] ELSE J[d]
  OBVIOUS
<1>5. \A m \in 1 .. Len(J[b]) : [J[b] EXCEPT ![k] = c][m] = IF m = k THEN c ELSE J[b][m]
  BY <1>1
<1> HIDE DEF N
<1>6. \A d \in Blocks : Len(N[d]) = Len(J[d])
  BY <1>2, <1>4
<1>7. \A d \in Blocks : \A m \in 1 .. Len(J[d]) :
          N[d][m] = IF d = b /\ m = k THEN c ELSE J[d][m]
  BY <1>4, <1>5
<1>8. N = [J EXCEPT ![b][k] = c]
  BY DEF N
<1> QED BY <1>3, <1>6, <1>7, <1>8

\* Forward replaces a target by the target of a listed block.
LEMMA ForwardKeepsList == ASSUME ListInv, Forward PROVE ListInv'
<1> DEFINE b == list[idx]
           e == jump[b][branch]
           c == jump[e][1]
<1>1. /\ phase = "skip" /\ phase' = "skip" /\ idx <= Len(list) /\ branch <= Len(jump[b])
      /\ Len(jump[e]) = 1 /\ jump' = [jump EXCEPT ![b][branch] = c]
      /\ list' = list /\ stack' = stack /\ idx' = idx /\ branch' = branch
  BY DEF Forward, block, Empty
<1>2. /\ jump \in [Blocks -> Seq(Blocks)] /\ list \in Seq(Blocks) /\ stack \in Seq(Blocks)
      /\ idx \in Nat \ {0} /\ branch \in Nat \ {0}
  BY DEF ListInv, ListType
<1>3. /\ Within(body, list) /\ NoRepeat
      /\ \A i \in 1 .. Len(list) : \A k \in 1 .. Len(jump[list[i]]) :
            Within(jump[list[i]][k], list)
  BY <1>1 DEF ListInv, Closed
<1>4. idx \in 1 .. Len(list) /\ b \in Blocks
  BY <1>1, <1>2
<1>5. branch \in 1 .. Len(jump[b]) /\ e \in Blocks
  BY <1>1, <1>2, <1>4
<1>6. Within(e, list)
  BY <1>3, <1>4, <1>5
<1>7. 1 \in 1 .. Len(jump[e]) /\ c \in Blocks
  BY <1>1, <1>2, <1>5
<1>8. PICK m \in 1 .. Len(list) : list[m] = e
  BY <1>6 DEF Within
<1>9. Within(c, list)
  BY <1>3, <1>7, <1>8
<1> HIDE DEF b, e, c
<1>10. /\ jump' \in [Blocks -> Seq(Blocks)]
       /\ \A d \in Blocks : Len(jump'[d]) = Len(jump[d])
       /\ \A d \in Blocks : \A k \in 1 .. Len(jump[d]) :
             jump'[d][k] = IF d = b /\ k = branch THEN c ELSE jump[d][k]
  BY <1>1, <1>2, <1>4, <1>5, <1>7, ForwardType
<1>11. ASSUME NEW i \in 1 .. Len(list), NEW k \in 1 .. Len(jump'[list[i]])
       PROVE  Within(jump'[list[i]][k], list)
  <2>1. list[i] \in Blocks /\ k \in 1 .. Len(jump[list[i]])
    BY <1>2, <1>10
  <2> QED BY <1>3, <1>9, <1>10, <2>1
<1>12. Closed'
  BY <1>1, <1>3, <1>11 DEF Closed, Within
<1> QED BY <1>1, <1>2, <1>3, <1>10, <1>12 DEF ListInv, ListType, Visiting, NoRepeat

\* Every step keeps the invariant: all but Visit and Forward leave the list
\* and the jumps alone.
THEOREM ListInvNext == ListInv /\ [Next]_vars => ListInv'
<1> SUFFICES ASSUME ListInv, [Next]_vars PROVE ListInv'
  OBVIOUS
<1>1. CASE Visit
  BY <1>1, VisitKeepsList
<1>2. CASE Forward
  BY <1>2, ForwardKeepsList
<1>3. CASE Serialized
  <2>1. /\ phase = "serialize" /\ stack = <<>> /\ phase' = "skip" /\ idx' = 1 /\ branch' = 1
        /\ jump' = jump /\ list' = list /\ stack' = stack
    BY <1>3 DEF Serialized
  <2>2. \A b : ~ Within(b, stack)
    BY <2>1 DEF Within
  <2> QED BY <2>1, <2>2 DEF ListInv, ListType, Visiting, NoRepeat, Closed, Within
<1>4. CASE \/ NextBranch \/ SkipDone \/ Skipped \/ Enumerate \/ Enumerated \/ TooManySymbols
           \/ Analyse \/ Analysed \/ Eliminate \/ Eliminated \/ Merge \/ Merged \/ Finish
           \/ Done \/ UNCHANGED vars
  <2>1. /\ jump' = jump /\ list' = list /\ stack' = stack
        /\ (phase # "serialize" /\ phase' # "serialize") \/ (phase' = phase /\ black' = black)
    BY <1>4 DEF NextBranch, SkipDone, Skipped, Enumerate, Enumerated, TooManySymbols, Analyse,
                Analysed, Eliminate, Eliminated, Merge, Merged, Finish, Done, vars
  <2>2. /\ idx' \in {idx, idx + 1, 1} /\ branch' \in {branch, branch + 1, 1}
    BY <1>4 DEF NextBranch, SkipDone, Skipped, Enumerate, Enumerated, TooManySymbols, Analyse,
                Analysed, Eliminate, Eliminated, Merge, Merged, Finish, Done, vars
  <2>3. ListType'
    BY <2>1, <2>2 DEF ListInv, ListType
  <2>4. NoRepeat'
    BY <2>1 DEF ListInv, NoRepeat
  <2>5. Visiting'
    BY <2>1 DEF ListInv, Visiting, Within
  <2>6. Closed'
    <3> SUFFICES ASSUME phase' # "serialize" PROVE Closed'
      BY DEF Closed
    <3>1. /\ \E j \in 1 .. Len(list) : list[j] = body
          /\ \A i \in 1 .. Len(list) : \A k \in 1 .. Len(jump[list[i]]) :
                \E j \in 1 .. Len(list) : list[j] = jump[list[i]][k]
      BY <2>1 DEF ListInv, Closed, Within
    <3> QED
      BY <3>1, <2>1 DEF Closed, Within
  <2> QED BY <2>3, <2>4, <2>5, <2>6 DEF ListInv
<1> QED BY <1>1, <1>2, <1>3, <1>4 DEF Next

\* In every run of optimize() the traversals see all the blocks that jumps
\* lead to from the body, each of them once, also after skip_empty_blocks.
THEOREM ListComplete == Spec => []ReachableListed
<1>1. ASSUME ListInv PROVE ReachableListed
  <2>1. DOMAIN list = 1 .. Len(list)
    BY <1>1 DEF ListInv, ListType
  <2>2. ASSUME Within(body, list) PROVE body \in ToSet(list)
    BY <2>1, <2>2 DEF Within, ToSet
  <2> QED BY <1>1, <2>2 DEF ListInv, NoRepeat, Closed, ReachableListed, Within
<1> QED BY <1>1, ListInvInit, ListInvNext, PTL DEF Spec

---------------------------------------------------------------------------
(* The dataflow problem.                                                   *)

\* The statements, the sets at the start of blocks and the count of changes.
FlowType ==
    /\ code = [b \in Blocks |-> code[b]]
    /\ in = [b \in Blocks |-> in[b]]
    /\ changes \in Nat

\* Another visit of b would change nothing.
Solved(b) == in[b] = LiveIn(b)

\* As long as no block has changed in this round, all the blocks visited in it
\* are solved, for the sets they were computed from are still the same.
FlowInv ==
    /\ FlowType
    /\ phase = "analyse" /\ changes = 0 => \A j \in 1 .. Len(list) : j < idx => Solved(list[j])
    /\ phase = "eliminate" /\ idx = 1 => \A j \in 1 .. Len(list) : Solved(list[j])

\* LiveIn depends on the statements and not on the sets kept with them.
LEMMA SameLiveIn ==
    ASSUME NEW b, jump' = jump, prog' = prog, in' = in, Statements(b)' = Statements(b)
    PROVE  LiveIn(b)' = LiveIn(b)
<1>1. HasExpr(b)' = HasExpr(b)
  BY DEF HasExpr
<1>2. LiveAtEnd(b)' = LiveAtEnd(b)
  BY <1>1 DEF LiveAtEnd
<1> QED BY <1>2 DEF LiveIn, LiveAfter

\* The analysis writes the sets kept with the statements of the block, and
\* leaves the statements as they are.
LEMMA AnalyseStatements ==
    ASSUME ListType, FlowType, Analyse, NEW b \in Blocks
    PROVE  Statements(b)' = Statements(b)
<1>1. idx \in 1 .. Len(list) /\ list[idx] \in Blocks
  BY DEF Analyse, ListType
<1> DEFINE c == list[idx]
           C == [i \in DOMAIN code[c] |-> [st |-> code[c][i].st, out |-> LiveAfter(c, i)]]
<1>2. code' = [code EXCEPT ![c] = C]
  BY DEF Analyse, block
<1>3. DOMAIN code = Blocks
  BY DEF FlowType
<1>4. CASE b = c
  <2>1. code'[b] = C
    BY <1>1, <1>2, <1>3, <1>4
  <2>2. DOMAIN C = DOMAIN code[b] /\ \A i \in DOMAIN C : C[i].st = code[b][i].st
    BY <1>4
  <2> QED BY <2>1, <2>2 DEF Statements
<1>5. CASE b # c
  <2>1. code'[b] = code[b]
    BY <1>2, <1>3, <1>5
  <2> QED BY <2>1 DEF Statements
<1> QED BY <1>4, <1>5

\* One visit keeps the invariant: it counts a change, or it finds its block
\* solved and leaves every set as it is.
LEMMA AnalyseKeepsFlow ==
    ASSUME ListType, FlowInv, Analyse PROVE FlowInv'
<1>1. /\ phase = "analyse" /\ phase' = "analyse" /\ idx <= Len(list) /\ idx' = idx + 1
      /\ in' = [in EXCEPT ![list[idx]] = LiveIn(list[idx])]
      /\ changes' = changes + (IF in[list[idx]] # LiveIn(list[idx]) THEN 1 ELSE 0)
      /\ prog' = prog /\ jump' = jump /\ list' = list
      /\ code' = [code EXCEPT ![list[idx]] = code'[list[idx]]]
  <2>1. DOMAIN code = Blocks /\ list[idx] \in Blocks
    BY DEF Analyse, ListType, FlowInv, FlowType
  <2> QED BY <2>1 DEF Analyse, block
<1>2. idx \in 1 .. Len(list) /\ list[idx] \in Blocks /\ list \in Seq(Blocks)
  BY <1>1 DEF ListType
<1>3. FlowType'
  <2>1. code' = [b \in Blocks |-> code'[b]]
    BY <1>1, <1>2 DEF FlowInv, FlowType
  <2>2. in' = [b \in Blocks |-> in'[b]]
    BY <1>1, <1>2 DEF FlowInv, FlowType
  <2>3. changes' \in Nat
    BY <1>1 DEF FlowInv, FlowType
  <2> QED BY <2>1, <2>2, <2>3 DEF FlowType
<1>4. ASSUME changes' = 0, NEW j \in 1 .. Len(list), j < idx + 1
      PROVE  Solved(list[j])'
  <2>1. changes = 0 /\ in[list[idx]] = LiveIn(list[idx])
    BY <1>1, <1>4 DEF FlowInv, FlowType
  <2>2. in' = in
    BY <1>1, <1>2, <2>1 DEF FlowInv, FlowType
  <2>3. list[j] \in Blocks
    BY <1>2
  <2>4. Solved(list[j])
    <3>1. CASE j = idx
      BY <2>1, <3>1 DEF Solved
    <3>2. CASE j < idx
      BY <1>1, <2>1, <3>2 DEF FlowInv
    <3> QED BY <1>2, <1>4, <3>1, <3>2
  <2>5. \A b \in Blocks : LiveIn(b)' = LiveIn(b)
    <3> SUFFICES ASSUME NEW b \in Blocks PROVE LiveIn(b)' = LiveIn(b)
      OBVIOUS
    <3>1. Statements(b)' = Statements(b)
      BY AnalyseStatements DEF FlowInv
    <3> QED BY <1>1, <2>2, <3>1, SameLiveIn
  <2>6. \A b \in Blocks : Solved(b) => Solved(b)'
    BY <2>2, <2>5 DEF Solved
  <2> QED BY <1>1, <2>3, <2>4, <2>6
<1> QED BY <1>1, <1>3, <1>4 DEF FlowInv

\* The dataflow problem is not being solved when optimize() starts.
THEOREM FlowInvInit == Init => FlowInv
BY DEF Init, FlowInv, FlowType

\* Every step keeps the invariant.
THEOREM FlowInvNext == ListType /\ FlowInv /\ [Next]_vars => FlowInv'
<1> SUFFICES ASSUME ListType, FlowInv, [Next]_vars PROVE FlowInv'
  OBVIOUS
<1>1. CASE Analyse
  BY <1>1, AnalyseKeepsFlow
<1>2. CASE Analysed
  <2>1. /\ phase = "analyse" /\ idx > Len(list) /\ idx' = 1 /\ changes' = 0
        /\ phase' = IF changes = 0 THEN "eliminate" ELSE "analyse"
        /\ prog' = prog /\ code' = code /\ jump' = jump /\ list' = list /\ in' = in
    BY <1>2 DEF Analysed
  <2>2. FlowType'
    BY <2>1 DEF FlowInv, FlowType
  <2>3. \A b : Solved(b) => Solved(b)'
    BY <2>1 DEF Solved, LiveIn, LiveAfter, LiveAtEnd, HasExpr, Statements
  <2>4. ASSUME changes = 0, NEW j \in 1 .. Len(list) PROVE Solved(list[j])'
    <3>1. j < idx
      BY <2>1 DEF ListType
    <3>2. Solved(list[j])
      BY <2>1, <2>4, <3>1 DEF FlowInv
    <3> QED BY <2>1, <2>3, <3>2
  <2>5. \A j \in 1 .. Len(list) : ~ (j < 1)
    OBVIOUS
  <2> QED BY <2>1, <2>2, <2>4, <2>5 DEF FlowInv
<1>3. CASE Enumerated \/ Merged
  <2>1. /\ phase' # "eliminate" /\ idx' = 1
        /\ changes' \in {0, changes} /\ code' = code
        /\ in' = in \/ in' = [b \in Blocks |-> IF b \in ToSet(list) THEN {} ELSE in[b]]
    BY <1>3 DEF Enumerated, Merged
  <2>2. FlowType'
    BY <2>1 DEF FlowInv, FlowType
  <2>3. \A j \in 1 .. Len(list)' : ~ (j < 1)
    OBVIOUS
  <2> QED BY <2>1, <2>2, <2>3 DEF FlowInv
<1>4. CASE Eliminate \/ Merge
  <2>1. /\ phase' # "analyse" /\ idx' = idx + 1
        /\ changes' = changes /\ in' = in
        /\ \E C : code' = [code EXCEPT ![list[idx]] = C]
    BY <1>4 DEF Eliminate, Merge, block
  <2>2. idx' # 1
    BY <2>1 DEF ListType
  <2>3. FlowType'
    BY <2>1 DEF FlowInv, FlowType
  <2> QED BY <2>1, <2>2, <2>3 DEF FlowInv
<1>5. CASE \/ Visit \/ Serialized \/ Forward \/ NextBranch \/ SkipDone \/ Skipped
           \/ Enumerate \/ TooManySymbols \/ Eliminated \/ Finish
  <2>1. /\ phase' \notin {"analyse", "eliminate"}
        /\ code' = code /\ in' = in /\ changes' = changes
    BY <1>5 DEF Visit, Serialized, Forward, NextBranch, SkipDone, Skipped, Enumerate,
                TooManySymbols, Eliminated, Finish
  <2> QED BY <2>1 DEF FlowInv, FlowType
<1>6. CASE Done \/ UNCHANGED vars
  <2>1. UNCHANGED vars
    BY <1>6 DEF Done
  <2>2. FlowType'
    BY <2>1 DEF vars, FlowInv, FlowType
  <2>3. \A b : Solved(b) => Solved(b)'
    BY <2>1 DEF vars, Solved, LiveIn, LiveAfter, LiveAtEnd, HasExpr, Statements
  <2> QED BY <2>1, <2>2, <2>3 DEF vars, FlowInv
<1> QED BY <1>1, <1>2, <1>3, <1>4, <1>5, <1>6 DEF Next

\* execute_iterative_dataflow leaves its loop with a solution only: when dead
\* stores are looked for, no visit of any block would change its set.
THEOREM FlowSolved == Spec => []DataflowSolved
<1>1. FlowInv => DataflowSolved
  BY DEF FlowInv, DataflowSolved, Solved
<1>2. ListInv => ListType
  BY DEF ListInv
<1> QED BY <1>1, <1>2, ListInvInit, ListInvNext, FlowInvInit, FlowInvNext, PTL DEF Spec

---------------------------------------------------------------------------
(* What one statement may be replaced by.  H is a set of halves, to speak  *)
(* about the values that memory holds.                                     *)

\* Operands, statements and machines as the compiler makes them.
IsVar(H, v) ==
    /\ v.kind \in {"immediate", "direct", "address", "deref"}
    /\ v.kind = "immediate" => v.imm \in H \X H
    /\ v.kind # "immediate" => v.sym \in Syms

IsStatement(H, s) ==
    /\ s.st \in {"expr", "param", "assign"}
    /\ s.expr.op \in {"cast", "xor", "call"}
    /\ IsVar(H, s.expr.l) /\ IsVar(H, s.expr.r)
    /\ s.st = "assign" => IsVar(H, s.t) /\ s.t.kind \in {"direct", "deref"}

\* What a callee is given and gets to see.
Calls(H) == [args : Seq(H \X H), seen : UNION {[S -> H \X H] : S \in SUBSET Syms}]

Machines(H) ==
    [at : SUBSET Blocks, args : Seq(H \X H), log : Seq(Calls(H)),
     ret : H \X H, defined : BOOLEAN, mem : [Syms -> H \X H]]

\* The halves include the numbers, the objects and what was never written.
IsHalves(H) == {0, 1, U} \cup Syms \subseteq H

\* The machines differ in objects outside S only.
Alike(m, k, S) ==
    /\ m.at = k.at /\ m.args = k.args /\ m.log = k.log /\ m.ret = k.ret
    /\ m.defined = k.defined
    /\ \A o \in S : m.mem[o] = k.mem[o]

\* Operands that are used have the same value where what they use is the same.
LEMMA OperandAlike ==
    ASSUME NEW H, NEW m \in [Syms -> H \X H], NEW k \in [Syms -> H \X H], NEW v, IsVar(H, v),
           \A o \in UseOf(v) : m[o] = k[o]
    PROVE  Operand(m, v) = Operand(k, v)
<1>1. CASE v.kind = "immediate" \/ v.kind = "address"
  BY <1>1 DEF Operand
<1>2. CASE v.kind = "direct"
  BY <1>2 DEF Operand, Object, UseOf, IsVar
<1>3. CASE v.kind = "deref"
  <2>1. m = k
    BY <1>3 DEF UseOf
  <2> QED BY <2>1
<1> QED BY <1>1, <1>2, <1>3 DEF IsVar

\* Operands and expressions have values.
LEMMA OperandType ==
    ASSUME NEW H, IsHalves(H), NEW m \in [Syms -> H \X H], NEW v, IsVar(H, v)
    PROVE  Operand(m, v) \in H \X H
<1> DEFINE o == Object(m, v)
<1>1. CASE v.kind = "immediate"
  BY <1>1 DEF Operand, IsVar
<1>2. CASE v.kind = "address"
  BY <1>2 DEF Operand, IsVar, IsHalves
<1>3. CASE v.kind \notin {"immediate", "address"} /\ o \notin Syms
  BY <1>3 DEF Operand, IsHalves
<1>4. CASE v.kind \notin {"immediate", "address"} /\ o \in Syms
  <2>1. m[o] \in H \X H /\ m[o][1] \in H /\ 0 \in H
    BY <1>4 DEF IsHalves
  <2>2. Operand(m, v) = m[o] \/ Operand(m, v) = <<m[o][1], 0>>
    BY <1>4 DEF Operand
  <2> QED BY <2>1, <2>2
<1> QED BY <1>1, <1>2, <1>3, <1>4

LEMMA ValueType ==
    ASSUME NEW H, IsHalves(H), NEW m \in Machines(H), NEW s, IsStatement(H, s)
    PROVE  Value(m, s.expr) \in H \X H
<1> DEFINE l == Operand(m.mem, s.expr.l)
           r == Operand(m.mem, s.expr.r)
<1>1. m.mem \in [Syms -> H \X H]
  BY DEF Machines
<1>2. l \in H \X H /\ r \in H \X H
  BY <1>1, OperandType DEF IsStatement
<1>3. 0 \in H /\ 1 \in H /\ U \in H
  BY DEF IsHalves
<1>4. \A a, b : XorHalf(a, b) \in H
  <2>1. \A a, b : {a, b} \subseteq {0, 1} => (a + b) % 2 \in {0, 1}
    OBVIOUS
  <2> QED BY <2>1, <1>3 DEF XorHalf
<1>5. CASE s.expr.op = "cast"
  <2>1. Value(m, s.expr) = l \/ Value(m, s.expr) = <<l[1], 0>>
    BY <1>5 DEF Value
  <2> QED BY <2>1, <1>2, <1>3
<1>6. CASE s.expr.op = "xor"
  <2>1. Value(m, s.expr) = <<XorHalf(l[1], r[1]), XorHalf(l[2], r[2])>>
    BY <1>6 DEF Value
  <2> QED BY <2>1, <1>4
<1>7. CASE s.expr.op = "call"
  BY <1>7, <1>3 DEF Value, One
<1> QED BY <1>5, <1>6, <1>7 DEF IsStatement

\* What a call leaves behind is a machine.
LEMMA EvaluatedType ==
    ASSUME NEW H, IsHalves(H), NEW m \in Machines(H), NEW s, IsStatement(H, s)
    PROVE  Evaluated(m, s.expr) \in Machines(H) /\ Evaluated(m, s.expr).mem = m.mem
<1> DEFINE R == Reach(m.mem, m.args)
           c == [args |-> m.args, seen |-> [o \in R |-> m.mem[o]]]
<1>1. m.mem \in [Syms -> H \X H] /\ m.args \in Seq(H \X H) /\ m.log \in Seq(Calls(H))
  BY DEF Machines
<1>2. R \in SUBSET Syms
  BY SymsAssumption DEF Reach
<1> HIDE DEF R
<1>3. [o \in R |-> m.mem[o]] \in [R -> H \X H]
  BY <1>1, <1>2
<1>4. c \in Calls(H)
  BY <1>1, <1>2, <1>3 DEF Calls
<1>5. <<>> \in Seq(H \X H)
  OBVIOUS
<1>6. CASE s.expr.op # "call"
  BY <1>6 DEF Evaluated
<1>7. CASE s.expr.op = "call"
  <2>1. Evaluated(m, s.expr) = [m EXCEPT !.log = Append(@, c), !.args = <<>>]
    BY <1>7 DEF Evaluated, R
  <2> HIDE DEF c
  <2>2. Append(m.log, c) \in Seq(Calls(H))
    BY <1>1, <1>4
  <2> QED BY <2>1, <2>2, <1>5 DEF Machines
<1> QED BY <1>6, <1>7

\* x is what m is after the statement s: evaluating the expression makes it e
\* and gives the value v, and o is the object to be written.
After(s, m, e, v, o, x) ==
    /\ x.log = e.log /\ x.ret = e.ret
    /\ x.args = IF s.st = "param" THEN Append(e.args, v) ELSE e.args
    /\ x.at = IF s.st = "assign" /\ o \notin Syms THEN {} ELSE e.at
    /\ x.defined = IF s.st = "assign" /\ o \notin Syms THEN FALSE ELSE e.defined
    /\ \A q \in Syms : x.mem[q] =
          IF s.st = "assign" /\ q = o
          THEN IF Partial(s.t) THEN <<v[1], m.mem[q][2]>> ELSE v
          ELSE m.mem[q]

\* The fields of a machine after a statement.
LEMMA ExecuteShape ==
    ASSUME NEW H, IsHalves(H), NEW m \in Machines(H), NEW s, IsStatement(H, s)
    PROVE  /\ Execute(m, s) \in Machines(H)
           /\ After(s, m, Evaluated(m, s.expr), Value(m, s.expr), Object(m.mem, s.t), Execute(m, s))
<1> DEFINE e == Evaluated(m, s.expr)
           v == Value(m, s.expr)
           o == Object(m.mem, s.t)
           x == Execute(m, s)
<1>1. e \in Machines(H) /\ e.mem = m.mem
  BY EvaluatedType
<1>2. v \in H \X H
  BY ValueType
<1> SUFFICES x \in Machines(H) /\ After(s, m, e, v, o, x)
  OBVIOUS
<1>3. CASE s.st = "expr"
  <2>1. x = e
    BY <1>3 DEF Execute
  <2> HIDE DEF e, v, x, o
  <2> QED BY <2>1, <1>1, <1>3 DEF After
<1>4. CASE s.st = "param"
  <2>1. x = [e EXCEPT !.args = Append(@, v)]
    BY <1>4 DEF Execute
  <2> HIDE DEF e, v, x
  <2>2. Append(e.args, v) \in Seq(H \X H)
    BY <1>1, <1>2 DEF Machines
  <2> QED BY <2>1, <2>2, <1>1, <1>4 DEF Machines, After
<1>5. CASE s.st = "assign" /\ o \notin Syms
  <2>1. x = [e EXCEPT !.at = {}, !.defined = FALSE]
    BY <1>5 DEF Execute
  <2> HIDE DEF e, v, x, o
  <2> QED BY <2>1, <1>1, <1>5 DEF Machines, After
<1>6. CASE s.st = "assign" /\ o \in Syms /\ Partial(s.t)
  <2>1. x = [e EXCEPT !.mem[o][1] = v[1]]
    BY <1>6 DEF Execute
  <2> HIDE DEF e, v, x, o
  <2>2. e.mem \in [Syms -> H \X H] /\ e.mem[o] \in H \X H
    BY <1>1, <1>6 DEF Machines
  <2>3. [e.mem[o] EXCEPT ![1] = v[1]] = <<v[1], e.mem[o][2]>>
    BY <2>2
  <2>4. <<v[1], e.mem[o][2]>> \in H \X H
    BY <2>2, <1>2
  <2>5. x = [e EXCEPT !.mem = [e.mem EXCEPT ![o] = <<v[1], e.mem[o][2]>>]]
    BY <2>1, <2>3
  <2>6. [e.mem EXCEPT ![o] = <<v[1], e.mem[o][2]>>] \in [Syms -> H \X H]
    BY <2>2, <2>4
  <2> QED BY <2>2, <2>5, <2>6, <1>1, <1>6 DEF Machines, After
<1>7. CASE s.st = "assign" /\ o \in Syms /\ ~ Partial(s.t)
  <2>1. x = [e EXCEPT !.mem[o] = v]
    BY <1>7 DEF Execute
  <2> HIDE DEF e, v, x, o
  <2>2. e.mem \in [Syms -> H \X H]
    BY <1>1 DEF Machines
  <2>3. [e.mem EXCEPT ![o] = v] \in [Syms -> H \X H]
    BY <2>2, <1>2
  <2> QED BY <2>1, <2>2, <2>3, <1>1, <1>2, <1>7 DEF Machines, After
<1> HIDE DEF e, v, x, o
<1> QED BY <1>3, <1>4, <1>5, <1>6, <1>7 DEF IsStatement

\* Where all it uses is the same, an expression has the same value.
LEMMA ValueAlike ==
    ASSUME NEW H, NEW m \in Machines(H), NEW k \in Machines(H), NEW s, IsStatement(H, s),
           \A o \in use(s.expr) : m.mem[o] = k.mem[o]
    PROVE  Value(m, s.expr) = Value(k, s.expr)
<1>1. m.mem \in [Syms -> H \X H] /\ k.mem \in [Syms -> H \X H]
  BY DEF Machines
<1>2. \A v \in Operands(s.expr) : UseOf(v) \subseteq use(s.expr)
  BY DEF use
<1>3. \A v : v \in Operands(s.expr) /\ IsVar(H, v) => Operand(m.mem, v) = Operand(k.mem, v)
  <2> SUFFICES ASSUME NEW v \in Operands(s.expr), IsVar(H, v)
               PROVE  Operand(m.mem, v) = Operand(k.mem, v)
    OBVIOUS
  <2>1. \A o \in UseOf(v) : m.mem[o] = k.mem[o]
    BY <1>2
  <2> QED BY <1>1, <2>1, OperandAlike
<1>4. IsVar(H, s.expr.l) /\ IsVar(H, s.expr.r)
  BY DEF IsStatement
<1>5. CASE s.expr.op = "cast"
  <2>1. Operand(m.mem, s.expr.l) = Operand(k.mem, s.expr.l)
    BY <1>3, <1>4, <1>5 DEF Operands
  <2> QED BY <2>1, <1>5 DEF Value
<1>6. CASE s.expr.op = "xor"
  <2>1. /\ Operand(m.mem, s.expr.l) = Operand(k.mem, s.expr.l)
        /\ Operand(m.mem, s.expr.r) = Operand(k.mem, s.expr.r)
    BY <1>3, <1>4, <1>6 DEF Operands
  <2> QED BY <2>1, <1>6 DEF Value
<1>7. CASE s.expr.op = "call"
  BY <1>7 DEF Value
<1> QED BY <1>5, <1>6, <1>7 DEF IsStatement

\* A callee sees the same if all the objects it can get at are the same.
LEMMA EvaluatedAlike ==
    ASSUME NEW H, NEW m \in Machines(H), NEW k \in Machines(H), NEW e, NEW S,
           Alike(m, k, S), e.op = "call" => Reach(m.mem, m.args) \subseteq S
    PROVE  /\ Alike(Evaluated(m, e), Evaluated(k, e), S)
           /\ Evaluated(m, e).mem = m.mem /\ Evaluated(k, e).mem = k.mem
<1>1. CASE e.op # "call"
  BY <1>1 DEF Evaluated
<1>2. CASE e.op = "call"
  <2>1. m.args = k.args /\ m.log = k.log
    BY DEF Alike
  <2> DEFINE first == Globals \cup (Syms \cap {m.args[i][1] : i \in DOMAIN m.args})
  <2>2. /\ Reach(m.mem, m.args) = first \cup UNION {Syms \cap {m.mem[o][1]} : o \in first}
        /\ Reach(k.mem, k.args) = first \cup UNION {Syms \cap {k.mem[o][1]} : o \in first}
    BY <2>1 DEF Reach
  <2>3. first \subseteq S
    BY <1>2, <2>2
  <2>4. \A o \in first : m.mem[o] = k.mem[o]
    BY <2>3 DEF Alike
  <2> HIDE DEF first
  <2>5. Reach(m.mem, m.args) = Reach(k.mem, k.args)
    BY <2>2, <2>4
  <2>6. [o \in Reach(m.mem, m.args) |-> m.mem[o]] = [o \in Reach(k.mem, k.args) |-> k.mem[o]]
    BY <2>5, <1>2 DEF Alike
  <2> DEFINE c == [args |-> m.args, seen |-> [o \in Reach(m.mem, m.args) |-> m.mem[o]]]
  <2>7. /\ Evaluated(m, e) = [m EXCEPT !.log = Append(@, c), !.args = <<>>]
        /\ Evaluated(k, e) = [k EXCEPT !.log = Append(@, c), !.args = <<>>]
    BY <1>2, <2>1, <2>6 DEF Evaluated
  <2> HIDE DEF c
  <2> QED BY <2>7, <2>1 DEF Alike, Machines
<1> QED BY <1>1, <1>2

\* What the analysis takes for live is enough (uses, def): two machines that
\* agree on the globals and on what is live before a statement do the same
\* with it, and agree on the globals and on what is live after it.  A write to
\* a part of an object has to be one through a pointer or to a struct, and the
\* locals a callee can get at have to be live.
THEOREM LiveIsEnough ==
    ASSUME NEW H, IsHalves(H), NEW m \in Machines(H), NEW k \in Machines(H),
           NEW s, IsStatement(H, s), NEW live \in SUBSET Syms,
           defs(s) # {} => ~ Partial(s.t),
           s.expr.op = "call" => Reach(m.mem, m.args) \subseteq LiveBefore(s, live) \cup Globals,
           Alike(m, k, LiveBefore(s, live) \cup Globals)
    PROVE  /\ Execute(m, s) \in Machines(H) /\ Execute(k, s) \in Machines(H)
           /\ Alike(Execute(m, s), Execute(k, s), live \cup Globals)
<1> DEFINE S == LiveBefore(s, live) \cup Globals
           e == Evaluated(m, s.expr)
           f == Evaluated(k, s.expr)
           v == Value(m, s.expr)
           o == Object(m.mem, s.t)
           x == Execute(m, s)
           y == Execute(k, s)
<1>1. Alike(e, f, S) /\ e.mem = m.mem /\ f.mem = k.mem
  BY EvaluatedAlike
<1>2. use(s.expr) \subseteq S
  BY DEF LiveBefore, uses
<1>3. Value(k, s.expr) = v
  <2>1. \A q \in use(s.expr) : m.mem[q] = k.mem[q]
    BY <1>2 DEF Alike
  <2> QED BY <2>1, ValueAlike
<1>4. s.st = "assign" => Object(k.mem, s.t) = o
  BY DEF Object, Alike, LiveBefore, uses
<1>5. /\ x \in Machines(H) /\ After(s, m, e, v, o, x)
      /\ y \in Machines(H) /\ After(s, k, f, Value(k, s.expr), Object(k.mem, s.t), y)
  BY ExecuteShape
<1>6. After(s, k, f, v, o, y)
  <2>1. CASE s.st = "assign"
    BY <1>3, <1>4, <1>5, <2>1
  <2>2. CASE s.st # "assign"
    <3> HIDE DEF e, f, v, o, x, y
    <3> QED BY <1>3, <1>5, <2>2 DEF After
  <2> QED BY <2>1, <2>2
<1>7. ASSUME NEW q \in live \cup Globals PROVE x.mem[q] = y.mem[q]
  <2>1. q \in Syms
    BY SymsAssumption
  <2>2. q \in S \/ q \in defs(s)
    BY DEF LiveBefore
  <2>3. CASE q \in S
    <3>1. m.mem[q] = k.mem[q]
      BY <2>3 DEF Alike
    <3> HIDE DEF e, f, v, o, x, y, S
    <3> QED BY <3>1, <2>1, <1>5, <1>6 DEF After
  <2>4. CASE q \in defs(s)
    <3>1. s.st = "assign" /\ q = o /\ ~ Partial(s.t)
      BY <2>4 DEF defs, DefOf, Object
    <3> HIDE DEF e, f, v, o, x, y, S
    <3> QED BY <3>1, <2>1, <1>5, <1>6 DEF After
  <2> QED BY <2>2, <2>3, <2>4
<1> HIDE DEF e, f, v, o, x, y, S
<1>8. /\ x.at = y.at /\ x.args = y.args /\ x.log = y.log /\ x.ret = y.ret
      /\ x.defined = y.defined
  BY <1>1, <1>5, <1>6 DEF After, Alike
<1>9. Alike(x, y, live \cup Globals)
  BY <1>7, <1>8 DEF Alike
<1> QED BY <1>5, <1>9 DEF x, y

\* Nobody sees a dead store go (dead_store_elimination): neither removing it
\* nor, when its value comes from a call, keeping only the call changes the
\* globals, what is live, or anything a callee was given.
THEOREM DeadStoreUnseen ==
    ASSUME NEW H, IsHalves(H), NEW m \in Machines(H), NEW c, IsStatement(H, c.st),
           c = [st |-> c.st, out |-> c.out],
           c.st = Statement(c.st.st, c.st.t, c.st.expr),
           c.out \in SUBSET Syms, DeadStore(c)
    PROVE  /\ ~ has_side_effects(c.st.expr) => Alike(Execute(m, c.st), m, c.out \cup Globals)
           /\ Alike(Execute(m, c.st), Execute(m, Demoted(c).st), c.out \cup Globals)
<1> DEFINE s == c.st
           e == Evaluated(m, s.expr)
           o == Object(m.mem, s.t)
           x == Execute(m, s)
<1>1. s.st = "assign" /\ s.t.kind = "direct" /\ o = s.t.sym
  BY DEF DeadStore, Object
<1>2. o \in Syms /\ o \notin c.out \cup Globals
  BY <1>1 DEF DeadStore, IsStatement, IsVar
<1>3. After(s, m, e, Value(m, s.expr), o, x)
  BY ExecuteShape
<1>4. e.mem = m.mem
  BY EvaluatedType
<1>5. Alike(x, e, c.out \cup Globals)
  <2>1. c.out \cup Globals \subseteq Syms
    BY SymsAssumption
  <2> HIDE DEF s, e, o, x
  <2> QED BY <2>1, <1>1, <1>2, <1>3, <1>4 DEF After, Alike
<1>6. Demoted(c).st.st = "expr" /\ Demoted(c).st.expr = s.expr
  BY DEF Demoted, Statement
<1>7. Execute(m, Demoted(c).st) = e
  BY <1>6 DEF Execute
<1>8. ~ has_side_effects(s.expr) => e = m
  BY DEF has_side_effects, Evaluated
<1> QED BY <1>5, <1>7, <1>8

\* Nobody sees two assignments merged (can_merge): t1 = e, t2 = t1 leaves the
\* globals and what is live as t2 = e does.  t2 must not be an object that t1
\* points to, and must not be wider than t1.
THEOREM MergeUnseen ==
    ASSUME NEW H, IsHalves(H), NEW m \in Machines(H),
           NEW c1, IsStatement(H, c1.st), NEW c2, IsStatement(H, c2.st),
           c1 = [st |-> c1.st, out |-> c1.out],
           c1.st = Statement(c1.st.st, c1.st.t, c1.st.expr),
           c2.out \in SUBSET Syms, can_merge(c1, c2),
           c2.st.t.kind = "deref" => c2.st.t.sym # c1.st.t.sym,
           c1.st.t.field => c2.st.t.field
    PROVE  Alike(Execute(Execute(m, c1.st), c2.st),
                 Execute(m, [c1 EXCEPT !.st.t = c2.st.t].st), c2.out \cup Globals)
<1> DEFINE s1 == c1.st
           s2 == c2.st
           s == [c1 EXCEPT !.st.t = c2.st.t].st
           t1 == s1.t.sym
           e == Evaluated(m, s1.expr)
           v == Value(m, s1.expr)
           o == Object(m.mem, s2.t)
           x == Execute(m, s1)
           w == Value(x, s2.expr)
           y == Execute(x, s2)
           z == Execute(m, s)
<1>1. /\ s1.st = "assign" /\ s2.st = "assign"
      /\ s1.t.kind = "direct" /\ t1 \notin Globals /\ t1 \notin c2.out
      /\ s2.expr.op = "cast" /\ s2.expr.type = s2.expr.l.type
      /\ s2.expr.l.type = s1.t.type /\ s2.expr.l.sym = t1
      /\ s2.expr.l.kind = "direct" /\ s2.expr.l.field = s1.t.field
      /\ s2.t.type = s1.t.type
  BY DEF can_merge, is_identity, var_equal
<1>2. t1 \in Syms /\ IsVar(H, s2.t) /\ s2.t.kind \in {"direct", "deref"}
  BY <1>1 DEF IsStatement, IsVar
<1>3. s.st = "assign" /\ s.t = s2.t /\ s.expr = s1.expr
  BY <1>1 DEF Statement
<1>4. IsStatement(H, s)
  BY <1>1, <1>2, <1>3 DEF IsStatement
<1>5. x \in Machines(H) /\ After(s1, m, e, v, t1, x)
  <2>1. Object(m.mem, s1.t) = t1
    BY <1>1 DEF Object
  <2> QED BY <2>1, ExecuteShape
<1>6. z \in Machines(H) /\ After(s, m, e, v, o, z)
  BY <1>3, <1>4, ExecuteShape
<1>7. Evaluated(x, s2.expr) = x
  BY <1>1 DEF Evaluated
<1>8. Object(x.mem, s2.t) = o
  <2>1. CASE s2.t.kind = "direct"
    BY <2>1 DEF Object
  <2>2. CASE s2.t.kind = "deref"
    <3>1. s2.t.sym \in Syms /\ s2.t.sym # t1
      BY <2>2, <1>2 DEF IsVar
    <3>2. x.mem[s2.t.sym] = m.mem[s2.t.sym]
      BY <3>1, <1>5 DEF After
    <3> QED BY <3>2, <2>2 DEF Object
  <2> QED BY <2>1, <2>2, <1>2
<1>9. After(s2, x, x, w, o, y)
  <2>1. After(s2, x, Evaluated(x, s2.expr), w, Object(x.mem, s2.t), y)
    BY <1>5, ExecuteShape
  <2> QED BY <2>1, <1>7, <1>8
<1>10. w[1] = v[1] /\ (~ Partial(s2.t) => w = v)
  <2>1. Partial(s2.expr.l) <=> Partial(s1.t)
    BY <1>1 DEF Partial
  <2>2. Partial(s1.t) => Partial(s2.t)
    BY <1>1 DEF Partial
  <2>3. Operand(x.mem, s2.expr.l) = IF Partial(s1.t) THEN <<x.mem[t1][1], 0>> ELSE x.mem[t1]
    BY <1>1, <1>2, <2>1 DEF Operand, Object
  <2>4. x.mem[t1] = IF Partial(s1.t) THEN <<v[1], m.mem[t1][2]>> ELSE v
    <3> HIDE DEF x, e, v, s1, t1
    <3> QED BY <1>1, <1>2, <1>5 DEF After
  <2>5. s2.expr.type = "char" => Partial(s1.t)
    BY <1>1 DEF Partial
  <2>6. w = IF s2.expr.type = "char" THEN <<Operand(x.mem, s2.expr.l)[1], 0>>
            ELSE Operand(x.mem, s2.expr.l)
    BY <1>1 DEF Value
  <2> HIDE DEF w, v, x, s1, s2, t1
  <2> QED BY <2>2, <2>3, <2>4, <2>5, <2>6
<1> HIDE DEF s1, s2, s, t1, e, v, o, x, w, y, z
<1>11. ASSUME NEW q \in c2.out \cup Globals PROVE y.mem[q] = z.mem[q]
  <2>1. q \in Syms /\ q # t1
    BY <1>1, SymsAssumption
  <2>2. x.mem[q] = m.mem[q]
    BY <2>1, <1>5 DEF After
  <2>3. y.mem[q] = IF q = o THEN IF Partial(s2.t) THEN <<w[1], x.mem[q][2]>> ELSE w
                   ELSE x.mem[q]
    BY <2>1, <1>1, <1>9 DEF After
  <2>4. z.mem[q] = IF q = o THEN IF Partial(s.t) THEN <<v[1], m.mem[q][2]>> ELSE v
                   ELSE m.mem[q]
    BY <2>1, <1>3, <1>6 DEF After
  <2>5. Partial(s.t) <=> Partial(s2.t)
    BY <1>3
  <2> QED BY <2>2, <2>3, <2>4, <2>5, <1>10
<1>12. /\ y.at = z.at /\ y.args = z.args /\ y.log = z.log /\ y.ret = z.ret
       /\ y.defined = z.defined
  BY <1>1, <1>2, <1>3, <1>5, <1>6, <1>9 DEF After
<1>13. Alike(y, z, c2.out \cup Globals)
  BY <1>11, <1>12 DEF Alike
<1> QED BY <1>13 DEF y, z, x, s, s1, s2
===========================================================================
