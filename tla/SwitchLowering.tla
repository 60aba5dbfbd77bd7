-------------------------- MODULE SwitchLowering --------------------------
(***************************************************************************)
(* How statement.c turns a switch statement into basic blocks, and what    *)
(* the blocks do when they run.                                            *)
(*                                                                         *)
(* The body of the switch is read label by label (case / default).  At its *)
(* end at most LinearMax cases become a chain of comparisons; more than    *)
(* that are sorted and become either a jump table or a binary search.      *)
(* The dispatch code is then run on one value x of the switch expression,  *)
(* one basic block per step, until control reaches a case label, the       *)
(* default label (or the end of the switch), or leaves the jump table.     *)
(*                                                                         *)
(* A block of the binary search is named by the arguments [lo, hi) of the  *)
(* call of link_switch_case_bsearch_item that made it, so the graph is     *)
(* walked without being built first.                                       *)
(***************************************************************************)
EXTENDS Integers, Sequences

CONSTANTS
    Half,        \* INT_MAX + 1: int is -Half .. Half - 1
    Threshold,   \* JUMPTABLE_THRESHOLD
    LinearMax,   \* the most cases that are compared one by one
    Default,     \* the label "default:" in a body
    Switches     \* switch statements: the body, a sequence of case values and
                 \* Default, and whether the expression is unsigned int

IntValues == -Half .. Half - 1

CaseValues(s) == {s[k] : k \in {j \in 1 .. Len(s) : s[j] # Default}}

Neighbours(V, a, b) == a < b /\ \A c \in V : ~ (a < c /\ c < b)

\* No difference that is computed from the cases V overflows: those between
\* neighbours, and the one from the least to the greatest case if the former
\* are all below the threshold.
NoOverflow(V) ==
    /\ \A a, b \in V : Neighbours(V, a, b) => b - a < Half
    /\ (\A a, b \in V : Neighbours(V, a, b) => b - a < Threshold)
          => \A a, b \in V : b - a < Half

ASSUME HalfAssumption == Half \in Nat \ {0}
\* Cases are different and of type int, and an overflow, which is undefined,
\* does not happen (a chain of comparisons computes no difference).
ASSUME SwitchesAssumption ==
    \A sw \in Switches :
        /\ sw.unsigned \in BOOLEAN /\ sw.body \in Seq(IntValues \cup {Default})
        /\ \A i, j \in {k \in 1 .. Len(sw.body) : sw.body[k] # Default} :
              /\ sw.body[i] = sw.body[j] => i = j
              /\ sw.unsigned => sw.body[i] >= 0
        /\ Len(sw.body) > LinearMax => NoOverflow(CaseValues(sw.body))
ASSUME ThresholdAssumption == Threshold \in Nat \ {0}
ASSUME LinearMaxAssumption == LinearMax \in Nat \ {0}

VARIABLES
    unsigned,  \* the switch expression is unsigned int, else int
    body,      \* labels of the switch body not read yet
    cases,     \* switch_context->cases: the case values, in source order
    dflt,      \* switch_context->default_label is set
    sorted,    \* switch_context->sorted: positions in cases, by value
    mode,      \* "none", or the lowering chosen: "linear" "bsearch" "table"
    table,     \* jtbl->jump_table: the label at each position
    nextv,     \* the next value the table has an entry for (v)
    x,         \* run-time value of the switch expression
    at         \* where control is

vars == <<unsigned, body, cases, dflt, sorted, mode, table, nextv, x, at>>

---------------------------------------------------------------------------
(* Machine arithmetic.                                                     *)

Modulus == 2 * Half

\* The value of v after conversion to int.
ToInt(v) == LET m == v % Modulus
            IN  IF 2 * m >= Modulus THEN m - Modulus ELSE m

\* The value of v after conversion to the type of the switch expression.
Conv(v) == IF unsigned THEN v % Modulus ELSE ToInt(v)

ExprValues == IF unsigned THEN 0 .. Modulus - 1
                          ELSE IntValues

---------------------------------------------------------------------------
(* Program locations.  Labels are terminal: control leaves the dispatch.   *)

Loc(kind, lo, hi) == [kind |-> kind, lo |-> lo, hi |-> hi]
Parsing     == Loc("parsing", 0, 0)
Sorting(i)  == Loc("sorting", i, 0)
Filling(i)  == Loc("filling", i, 0)
CaseAt(i)   == Loc("case", i, 0)
LastLabel   == Loc("last", 0, 0)
Wild        == Loc("wild", 0, 0)
Terminal    == at.kind \in {"case", "last", "wild"}

Count     == Len(sorted)
Sorted(k) == cases[sorted[k + 1]]     \* array_get(&sorted, k)->value.imm.i
minv      == ToInt(Sorted(0))
maxv      == ToInt(Sorted(Count - 1))

---------------------------------------------------------------------------
(* Parsing the body.                                                       *)

Init ==
    /\ \E sw \in Switches : unsigned = sw.unsigned /\ body = sw.body
    /\ cases = <<>> /\ dflt = FALSE /\ sorted = <<>> /\ mode = "none"
    /\ table = <<>> /\ nextv = 0
    /\ x \in ExprValues
    /\ at = Parsing

\* case CASE of statement(): add_switch_case.
CaseLabel ==
    /\ at = Parsing /\ body # <<>> /\ Head(body) # Default
    /\ cases' = Append(cases, Head(body))
    /\ body' = Tail(body)
    /\ UNCHANGED <<unsigned, dflt, sorted, mode, table, nextv, x, at>>

\* case DEFAULT of statement().  A second default is an error that is
\* reported and otherwise ignored.
DefaultLabel ==
    /\ at = Parsing /\ body # <<>> /\ Head(body) = Default
    /\ dflt' = TRUE
    /\ body' = Tail(body)
    /\ UNCHANGED <<unsigned, cases, sorted, mode, table, nextv, x, at>>

\* The end of switch_statement() and the choice made by link_switch_context.
EndBody ==
    /\ at = Parsing /\ body = <<>>
    /\ IF Len(cases) > LinearMax
       THEN at' = Sorting(1) /\ UNCHANGED mode
       ELSE /\ mode' = "linear"
            /\ at' = IF cases = <<>> THEN LastLabel ELSE Loc("linear", 1, 0)
    /\ UNCHANGED <<unsigned, body, cases, dflt, sorted, table, nextv, x>>

---------------------------------------------------------------------------
(* link_switch_context_bsearch_or_jump_table.                              *)

\* Insertion into the sorted list, before the first greater value.
InsertSorted(s, i) ==
    LET stop == {k \in 1 .. Len(s) : cases[i] < cases[s[k]]}
        p == IF stop = {} THEN Len(s) + 1
             ELSE CHOOSE k \in stop : \A j \in stop : k <= j
    IN  SubSeq(s, 1, p - 1) \o <<i>> \o SubSeq(s, p, Len(s))

SortCase ==
    /\ at.kind = "sorting" /\ at.lo <= Len(cases)
    /\ sorted' = InsertSorted(sorted, at.lo)
    /\ at' = Sorting(at.lo + 1)
    /\ UNCHANGED <<unsigned, body, cases, dflt, mode, table, nextv, x>>

\* The differences are computed in int; one that overflows wraps around.
UseJumpTable ==
    \A k \in 1 .. Count - 1 :
        ToInt(ToInt(Sorted(k)) - ToInt(Sorted(k - 1))) < Threshold

\* What link_switch_case_bsearch_item(lo, hi) returns: the fall-back label,
\* a case label with no comparison when both neighbours are one away, or
\* the comparison block of the middle case.
BsearchItem(lo, hi) ==
    IF lo >= hi THEN LastLabel
    ELSE IF /\ hi - lo = 1 /\ 0 < lo /\ hi < Count
            /\ ToInt(Sorted(lo - 1)) = ToInt(ToInt(Sorted(hi)) - 2)
         THEN CaseAt(sorted[((lo + hi) \div 2) + 1])
         ELSE Loc("comp", lo, hi)

ChooseLowering ==
    /\ at.kind = "sorting" /\ at.lo > Len(cases)
    /\ IF UseJumpTable
       THEN mode' = "table" /\ at' = Filling(0) /\ nextv' = minv
       ELSE mode' = "bsearch" /\ at' = BsearchItem(0, Count) /\ UNCHANGED nextv
    /\ UNCHANGED <<unsigned, body, cases, dflt, sorted, table, x>>

\* Mutant: a gap is filled with the label of the case behind it.
FillTableGapIsCase ==
    /\ at.kind = "filling" /\ at.lo < Count
    /\ LET v == ToInt(Sorted(at.lo))
       IN  /\ table' = table \o [k \in 1 .. v - nextv + 1 |-> CaseAt(sorted[at.lo + 1])]
           /\ nextv' = v + 1
    /\ at' = Filling(at.lo + 1)
    /\ UNCHANGED <<unsigned, body, cases, dflt, sorted, mode, x>>

\* One turn of the loop of link_switch_context_jump_table: entries for the
\* values in the gap, then the entry of the case.
FillTable ==
    /\ at.kind = "filling" /\ at.lo < Count
    /\ LET v == ToInt(Sorted(at.lo))
           gap == IF nextv < v THEN v - nextv ELSE 0
       IN  /\ table' = table \o [k \in 1 .. gap |-> LastLabel]
                             \o <<CaseAt(sorted[at.lo + 1])>>
           /\ nextv' = nextv + gap + 1
    /\ at' = Filling(at.lo + 1)
    /\ UNCHANGED <<unsigned, body, cases, dflt, sorted, mode, x>>

TableDone ==
    /\ at.kind = "filling" /\ at.lo >= Count
    /\ at' = Loc("comp1", 0, 0)
    /\ UNCHANGED <<unsigned, body, cases, dflt, sorted, mode, table, nextv, x>>

---------------------------------------------------------------------------
(* Running the dispatch code, one basic block per step.                    *)

Goto(loc) ==
    /\ at' = loc
    /\ UNCHANGED <<unsigned, body, cases, dflt, sorted, mode, table, nextv, x>>

\* Mutant: the chain of comparisons is linked to its own first block.
LinearCompareCircular ==
    /\ at.kind = "linear"
    /\ Goto(IF Conv(cases[at.lo]) = x THEN CaseAt(at.lo)
            ELSE IF at.lo = Len(cases) THEN Loc("linear", 1, 0)
            ELSE Loc("linear", at.lo + 1, 0))

\* A block of the chain of link_switch_context.
LinearCompare ==
    /\ at.kind = "linear"
    /\ Goto(IF Conv(cases[at.lo]) = x THEN CaseAt(at.lo)
            ELSE IF at.lo = Len(cases) THEN LastLabel
            ELSE Loc("linear", at.lo + 1, 0))

\* The block comp of link_switch_case_bsearch_item.
BsearchCompare ==
    /\ at.kind = "comp"
    /\ LET lo == at.lo  hi == at.hi
           center == (lo + hi) \div 2
       IN  Goto(IF Conv(Sorted(center)) = x THEN CaseAt(sorted[center + 1])
                ELSE IF hi - lo = 1 THEN LastLabel
                ELSE IF hi - lo = 2 THEN BsearchItem(lo, center)
                ELSE Loc("left", lo, hi))

\* Mutant: the two halves are exchanged.
BsearchLeftSwapped ==
    /\ at.kind = "left"
    /\ LET center == (at.lo + at.hi) \div 2
       IN  Goto(IF Conv(Sorted(center)) < x THEN BsearchItem(at.lo, center)
                                            ELSE BsearchItem(center + 1, at.hi))

\* The block left of link_switch_case_bsearch_item.
BsearchLeft ==
    /\ at.kind = "left"
    /\ LET center == (at.lo + at.hi) \div 2
       IN  Goto(IF Conv(Sorted(center)) > x THEN BsearchItem(at.lo, center)
                                            ELSE BsearchItem(center + 1, at.hi))

\* The jump-table index, and its largest value as an int constant.
check  == IF minv > 0 THEN Conv(x - minv)
          ELSE IF minv < 0 THEN Conv(x + ToInt(-minv)) ELSE x
\* Mutant: one index too many.
maxvalOffByOne == ToInt(maxv - minv + 1)
maxval == ToInt(maxv - minv)

CompareLow ==
    /\ at.kind = "comp1"
    /\ Goto(IF 0 > check THEN LastLabel ELSE Loc("comp2", 0, 0))

CompareHigh ==
    /\ at.kind = "comp2"
    /\ Goto(IF check > Conv(maxval) THEN LastLabel ELSE Loc("jtbl", 0, 0))

\* VM_JMPTBL: the entry at that position, with no further test.
JumpTable ==
    /\ at.kind = "jtbl"
    /\ Goto(IF check + 1 \in DOMAIN table THEN table[check + 1] ELSE Wild)

Lower == CaseLabel \/ DefaultLabel \/ EndBody \/ SortCase \/ ChooseLowering
            \/ FillTable \/ TableDone
Run == LinearCompare \/ BsearchCompare \/ BsearchLeft
            \/ CompareLow \/ CompareHigh \/ JumpTable
Next == Lower \/ Run

Spec == Init /\ [][Next]_vars
FairSpec == Spec /\ WF_vars(Next)

---------------------------------------------------------------------------
(* Properties.                                                             *)

\* A switch on the value of one of its cases continues at that case,
\* whichever of the three lowerings link_switch_context chose.
CaseReachesItsLabel ==
    Terminal => \A i \in 1 .. Len(cases) :
                    Conv(cases[i]) = x => at = CaseAt(i)

\* A switch on any other value continues at the default label, or after the
\* switch when there is none (the label called last in the code).
OtherValuesReachDefault ==
    Terminal /\ (\A i \in 1 .. Len(cases) : Conv(cases[i]) # x)
        => at = LastLabel

\* The chain of comparisons and the jump table send every other value to the
\* default label: values below, above and in the gaps between the cases.
ExactWithoutSearch == mode \in {"linear", "table"} => OtherValuesReachDefault

\* The indirect jump never reads an entry outside of the jump table: the two
\* range tests before it are enough, VM_JMPTBL makes none.
NoWildJump == at # Wild

\* Every switch is lowered and its dispatch code reaches a label: the halving
\* of link_switch_case_bsearch_item leaves no block that jumps in a circle.
DispatchEnds == <>Terminal
===========================================================================
