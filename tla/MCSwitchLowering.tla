------------------------- MODULE MCSwitchLowering -------------------------
(***************************************************************************)
(* Small instances of SwitchLowering: int has 4 bits (-8 .. 7) and the     *)
(* threshold is 3 instead of 16, so five or six cases can be dense, sparse *)
(* or spread over more than half of the range of int.                      *)
(*                                                                         *)
(* A set of cases is given by its least value and the gaps between         *)
(* neighbours.                                                             *)
(***************************************************************************)
EXTENDS SwitchLowering, FiniteSetsExt, SequencesExt

CONSTANTS
    MaxCases,   \* cases in a body
    Bases       \* least case values

SignedBases == {-8, -3, 0, 1}

IntMax == Half - 1

\* The ascending cases from base on with these gaps.
Ascending(base, gaps) ==
    FoldLeft(LAMBDA s, g : Append(s, s[Len(s)] + g), <<base>>, gaps)

\* Cases of type int and, unless they are compared one by one, without an
\* overflow in their differences.
Fits(s) ==
    /\ s[Len(s)] <= IntMax
    /\ Len(s) < LinearMax \/ NoOverflow(CaseValues(s))

CaseLists(sizes, gapValues) ==
    {s \in {Ascending(b, g) : b \in Bases,
                g \in UNION {[1 .. n - 1 -> gapValues] : n \in sizes}} : Fits(s)}

\* The default label first, last or absent.
WithDefault(s) == {s, Append(s, Default), <<Default>> \o s}

\* Ascending, descending and with the first two exchanged.
Orders(s) ==
    {s, Reverse(s)} \cup
        (IF Len(s) >= 2 THEN {<<s[2], s[1]>> \o SubSeq(s, 3, Len(s))} ELSE {})

\* Up to LinearMax cases with any gaps, and more with gaps below Threshold.
DenseBodies ==
    WithDefault(<<>>) \cup
    UNION {UNION {WithDefault(t) : t \in Orders(s)} :
             s \in CaseLists(1 .. LinearMax, {1, Threshold, Modulus - 1})
                       \cup CaseLists(LinearMax + 1 .. MaxCases, 1 .. Threshold - 1)}

\* More than LinearMax cases, with gaps on both sides of Threshold.
SparseBodies ==
    UNION {Orders(s) : s \in CaseLists(LinearMax + 1 .. MaxCases, 1 .. Threshold)}

\* No case is negative.
Natural(s) == \A i \in 1 .. Len(s) : s[i] = Default \/ s[i] >= 0

\* An unsigned switch has cases that an int can hold, too.
AllSwitches ==
    {sw \in [unsigned : BOOLEAN, body : DenseBodies \cup SparseBodies] :
        sw.unsigned => Natural(sw.body)}
===========================================================================
