------------------------ MODULE Preprocessor_proofs ------------------------
(***************************************************************************)
(* Proofs about Preprocessor: the type invariant and the nesting of        *)
(* conditionals, for all programs, however deep files and groups nest.     *)
(***************************************************************************)
EXTENDS Preprocessor, StackLemmas, TLAPS

---------------------------------------------------------------------------
(* Sequences.                                                              *)

\* Append adds one entry behind the others.
LEMMA AppendLemma ==
    ASSUME NEW S, NEW b \in Seq(S), NEW e \in S
    PROVE  /\ Append(b, e) \in Seq(S)
           /\ Len(Append(b, e)) = Len(b) + 1
           /\ \A i \in 1 .. Len(b) : Append(b, e)[i] = b[i]
           /\ Append(b, e)[Len(b) + 1] = e
           /\ DOMAIN Append(b, e) = 1 .. Len(b) + 1
           /\ DOMAIN b = 1 .. Len(b)
           /\ Len(b) \in Nat
  OBVIOUS

\* pop_state keeps the nesting.
LEMMA FrontNests ==
    ASSUME NEW b \in Seq(States), b # <<>>, Nest(b)
    PROVE  Front(b) \in Seq(States) /\ Nest(Front(b))
  <1>1. Front(b) \in Seq(States) /\ DOMAIN Front(b) = 1 .. Len(b) - 1
    BY FrontLast
  <1>2. DOMAIN b = 1 .. Len(b) /\ Len(b) \in Nat
    OBVIOUS
  <1>3. ASSUME NEW i \in DOMAIN Front(b), NEW j \in DOMAIN Front(b), i < j, Front(b)[i] # "LIVE"
        PROVE  Front(b)[j] = "DISABLED"
    <2>1. i \in DOMAIN b /\ j \in DOMAIN b /\ Front(b)[i] = b[i] /\ Front(b)[j] = b[j]
      BY <1>1, <1>2, FrontLast
    <2> QED BY <2>1, <1>3 DEF Nest
  <1> QED BY <1>1, <1>3 DEF Nest

\* push_state keeps it when the new entry is disabled or the block is active.
LEMMA PushNests ==
    ASSUME NEW b \in Seq(States), NEW s \in States, Nest(b),
           s = "DISABLED" \/ Active(b)
    PROVE  Append(b, s) \in Seq(States) /\ Nest(Append(b, s))
  <1> DEFINE c == Append(b, s)
  <1>1. /\ c \in Seq(States) /\ DOMAIN c = 1 .. Len(b) + 1 /\ Len(b) \in Nat
        /\ DOMAIN b = 1 .. Len(b)
        /\ \A i \in 1 .. Len(b) : c[i] = b[i]
        /\ c[Len(b) + 1] = s
    BY AppendLemma
  <1>2. ASSUME NEW i \in DOMAIN c, NEW j \in DOMAIN c, i < j, c[i] # "LIVE"
        PROVE  c[j] = "DISABLED"
    <2>1. CASE j <= Len(b)
      <3>1. i \in DOMAIN b /\ j \in DOMAIN b /\ c[i] = b[i] /\ c[j] = b[j]
        BY <1>1, <1>2, <2>1
      <3> QED BY <3>1, <1>2 DEF Nest
    <2>2. CASE j = Len(b) + 1
      <3>1. i \in DOMAIN b /\ c[i] = b[i] /\ c[j] = s
        BY <1>1, <1>2, <2>2
      <3>2. CASE Active(b)
        <4>1. b # <<>> /\ Len(b) \in DOMAIN b /\ b[Len(b)] = "LIVE"
          BY <1>1, <3>1, <3>2 DEF Active, Last
        <4>2. i = Len(b)
          BY <4>1, <3>1, <1>1, <1>2 DEF Nest
        <4> QED BY <4>1, <4>2, <3>1, <1>2
      <3> QED BY <3>1, <3>2
    <2> QED BY <1>1, <1>2, <2>1, <2>2
  <1> HIDE DEF c
  <1>3. Nest(c)
    BY <1>2 DEF Nest
  <1> QED BY <1>1, <1>3 DEF c

---------------------------------------------------------------------------
(* Sources.                                                                *)

\* No source is read beyond its end.
Within(s) ==
    /\ s \in Seq([file : DOMAIN files, pos : Nat])
    /\ \A i \in DOMAIN s : s[i].pos <= Len(files[s[i].file])

\* A line that is read stays within its file.
LEMMA AdvancedLemma ==
    ASSUME TypeOK, source # <<>>, ~AtEnd
    PROVE  Within(Advanced)
  <1> DEFINE S == [file : DOMAIN files, pos : Nat]
             f == Front(source)
             e == [Top EXCEPT !.pos = @ + 1]
  <1>1. source \in Seq(S) /\ Len(source) \in DOMAIN source
    BY DEF TypeOK
  <1>2. Top \in S /\ Top.pos <= Len(files[Top.file]) /\ Len(files[Top.file]) \in Nat
    <2>1. Top = source[Len(source)]
      BY DEF Top, Last
    <2>2. Top \in S
      BY <1>1, FrontLast DEF Top
    <2>3. Top.pos <= Len(files[Top.file])
      BY <1>1, <2>1 DEF TypeOK
    <2>4. Top.file \in DOMAIN files
      BY <2>2
    <2> QED BY <2>2, <2>3, <2>4 DEF TypeOK
  <1>3. e \in S /\ e.file = Top.file /\ e.pos = Top.pos + 1
    BY <1>2
  <1>4. e.pos <= Len(files[e.file])
    BY <1>2, <1>3 DEF AtEnd
  <1>5. /\ f \in Seq(S) /\ Len(f) = Len(source) - 1
        /\ \A i \in 1 .. Len(f) : f[i] = source[i] /\ i \in DOMAIN source
    <2>1. /\ f \in Seq(S) /\ Len(f) = Len(source) - 1 /\ Len(source) \in Nat
          /\ \A i \in 1 .. Len(source) - 1 : f[i] = source[i]
      BY <1>1, FrontLast
    <2>2. DOMAIN source = 1 .. Len(source)
      BY <1>1
    <2> HIDE DEF f
    <2> QED BY <2>1, <2>2
  <1> HIDE DEF e, f, S
  <1>6. /\ Append(f, e) \in Seq(S) /\ DOMAIN Append(f, e) = 1 .. Len(f) + 1
        /\ \A i \in 1 .. Len(f) : Append(f, e)[i] = f[i]
        /\ Append(f, e)[Len(f) + 1] = e
        /\ Len(f) \in Nat
    BY <1>3, <1>5, AppendLemma
  <1>7. ASSUME NEW i \in DOMAIN Append(f, e)
        PROVE  Append(f, e)[i].pos <= Len(files[Append(f, e)[i].file])
    <2>1. CASE i = Len(f) + 1
      BY <2>1, <1>4, <1>6
    <2>2. CASE i \in 1 .. Len(f)
      BY <2>2, <1>5, <1>6 DEF TypeOK
    <2> QED BY <2>1, <2>2, <1>6
  <1> QED BY <1>6, <1>7 DEF Within, Advanced, e, f, S

\* A file that is opened has not been read.
LEMMA OpenedLemma ==
    ASSUME TypeOK, NEW s, Within(s), NEW f \in DOMAIN files
    PROVE  Within(Append(s, [file |-> f, pos |-> 0]))
  <1> DEFINE S == [file : DOMAIN files, pos : Nat]
             e == [file |-> f, pos |-> 0]
  <1>1. s \in Seq(S) /\ e \in S /\ e.pos <= Len(files[e.file])
    BY DEF Within, TypeOK
  <1> HIDE DEF S, e
  <1>2. /\ Append(s, e) \in Seq(S) /\ DOMAIN Append(s, e) = 1 .. Len(s) + 1
        /\ \A i \in 1 .. Len(s) : Append(s, e)[i] = s[i]
        /\ Append(s, e)[Len(s) + 1] = e
        /\ Len(s) \in Nat /\ DOMAIN s = 1 .. Len(s)
    BY <1>1, AppendLemma
  <1>3. ASSUME NEW i \in DOMAIN Append(s, e)
        PROVE  Append(s, e)[i].pos <= Len(files[Append(s, e)[i].file])
    <2>1. CASE i = Len(s) + 1
      BY <2>1, <1>1, <1>2
    <2>2. CASE i \in 1 .. Len(s)
      BY <2>2, <1>2 DEF Within
    <2> QED BY <2>1, <2>2, <1>2
  <1> QED BY <1>2, <1>3 DEF Within, S, e

\* pop_file leaves the other sources alone.
LEMMA ClosedLemma ==
    ASSUME TypeOK, source # <<>>
    PROVE  Within(Front(source))
  <1> DEFINE S == [file : DOMAIN files, pos : Nat]
  <1>1. source \in Seq(S)
    BY DEF TypeOK
  <1> HIDE DEF S
  <1>2. /\ Front(source) \in Seq(S) /\ DOMAIN Front(source) = 1 .. Len(source) - 1
        /\ \A i \in 1 .. Len(source) - 1 : Front(source)[i] = source[i] /\ i \in DOMAIN source
    BY <1>1, FrontLast
  <1>3. ASSUME NEW i \in DOMAIN Front(source)
        PROVE  Front(source)[i].pos <= Len(files[Front(source)[i].file])
    BY <1>2 DEF TypeOK
  <1> QED BY <1>2, <1>3 DEF Within, S

---------------------------------------------------------------------------
(* The invariant.                                                          *)

Inv == TypeOK /\ BranchesNest

\* Nothing is read and no group is open at the start.
LEMMA InitInv == Init => Inv
  <1> SUFFICES ASSUME Init PROVE Inv
    OBVIOUS
  <1> PICK p \in Programs : files = p.files /\ units = p.units
    BY DEF Init
  <1>1. /\ units \in Seq(DOMAIN files) /\ units # <<>>
        /\ \A f \in DOMAIN files : Len(files[f]) \in Nat
    BY ProgramsAssumption
  <1>2. 1 \in 1 .. Len(units) /\ units[1] \in DOMAIN files
    BY <1>1
  <1>3. source = <<[file |-> units[1], pos |-> 0]>>
    BY DEF Init, Start
  <1>4. source \in Seq([file : DOMAIN files, pos : Nat]) /\ DOMAIN source = {1}
    BY <1>2, <1>3
  <1>5. \A i \in DOMAIN source : source[i].pos <= Len(files[source[i].file])
    BY <1>1, <1>2, <1>3, <1>4
  <1>6. branch \in Seq(States) /\ Nest(branch)
    BY DEF Init, Nest
  <1>7. want \in 0 .. MaxPeek
    BY PeekAssumption DEF Init
  <1> QED BY <1>1, <1>2, <1>4, <1>5, <1>6, <1>7 DEF Init, Inv, TypeOK, BranchesNest, Undefined

\* What is left to show when a step changes neither files nor units.
LEMMA StepLemma ==
    ASSUME Inv, UNCHANGED <<files, units>>,
           unit' \in 1 .. Len(units), Within(source)',
           branch' \in Seq(States), Nest(branch'),
           DOMAIN macros' = Names, want' \in 0 .. MaxPeek, stale' \in BOOLEAN,
           phase' \in {"parser", "line", "done", "exit", "crash"}
    PROVE  Inv'
  <1>1. TypeOK'
    BY DEF Inv, TypeOK, Within
  <1>2. BranchesNest'
    BY DEF BranchesNest, Nest
  <1> QED BY <1>1, <1>2 DEF Inv

\* A line that is read: the branches and the macros remain to be checked.
LEMMA ReadLemma ==
    ASSUME Inv, source # <<>>, ~AtEnd, Consumed,
           branch' \in Seq(States), Nest(branch'), DOMAIN macros' = Names,
           phase' \in {"parser", "line", "done", "exit", "crash"}
    PROVE  Inv'
  <1>1. Within(source)'
    BY AdvancedLemma DEF Inv, Consumed, Within
  <1>2. /\ unit' \in 1 .. Len(units) /\ want' \in 0 .. MaxPeek /\ stale' \in BOOLEAN
        /\ UNCHANGED <<files, units>>
    BY DEF Inv, TypeOK, Consumed
  <1> QED BY <1>1, <1>2, StepLemma

\* #if and #elif with a condition, above the active entries b.
LEMMA TestLemma ==
    ASSUME Inv, NEW b \in Seq(States), Nest(b), Active(b), NEW c, Test(c, b)
    PROVE  /\ branch' \in Seq(States) /\ Nest(branch') /\ DOMAIN macros' = Names
           /\ phase' \in {"parser", "line", "exit"}
  <1>1. CASE Holds(c, macros) = "error"
    BY <1>1 DEF Test, Exit, Inv, TypeOK, BranchesNest
  <1>2. CASE Holds(c, macros) # "error"
    <2> DEFINE s == Taken(Holds(c, macros) = "true")
    <2>1. s \in States
      BY DEF Taken, States
    <2>2. Push(s, b)
      BY <1>2 DEF Test
    <2> HIDE DEF s
    <2>3. Append(b, s) \in Seq(States) /\ Nest(Append(b, s))
      BY <2>1, PushNests
    <2> QED BY <2>2, <2>3 DEF Push, Loop, LoopWith, Inv, TypeOK
  <1> QED BY <1>1, <1>2

\* Any other entry that is pushed above b.
LEMMA PushLemma ==
    ASSUME Inv, NEW b \in Seq(States), Nest(b), NEW s \in States,
           s = "DISABLED" \/ Active(b), Push(s, b)
    PROVE  /\ branch' \in Seq(States) /\ Nest(branch') /\ DOMAIN macros' = Names
           /\ phase' \in {"parser", "line", "exit"}
  BY PushNests DEF Push, Loop, LoopWith, Inv, TypeOK

---------------------------------------------------------------------------
(* One lemma for the parser's steps, one for lines, one for directives.    *)

\* What the parser asks for changes no source and no group.
LEMMA ParserSteps ==
    ASSUME Inv,
           (\E n \in 1 .. MaxPeek : Fill(n)) \/ TakeToken \/ NextUnit \/ LastUnit \/ Stopped
    PROVE  Inv'
  <1>1. ASSUME NEW n \in 1 .. MaxPeek, Fill(n) PROVE Inv'
    <2>1. n \in 0 .. MaxPeek
      BY PeekAssumption
    <2> QED BY <1>1, <2>1, StepLemma DEF Fill, Inv, TypeOK, Within, BranchesNest
  <1>2. CASE TakeToken
    BY <1>2, StepLemma DEF TakeToken, Inv, TypeOK, Within, BranchesNest
  <1>3. CASE NextUnit
    <2>1. unit' \in 1 .. Len(units) /\ units[unit'] \in DOMAIN files
      BY <1>3 DEF NextUnit, Inv, TypeOK
    <2>2. source' = <<[file |-> units[unit'], pos |-> 0]>>
      BY <1>3 DEF NextUnit, Start
    <2>3. source' \in Seq([file : DOMAIN files, pos : Nat]) /\ DOMAIN source' = {1}
      BY <2>1, <2>2
    <2>4. \A i \in DOMAIN source' : source'[i].pos <= Len(files[source'[i].file])
      BY <2>1, <2>2, <2>3 DEF Inv, TypeOK
    <2>5. Within(source)'
      BY <1>3, <2>3, <2>4 DEF NextUnit, Within
    <2> QED BY <1>3, <2>1, <2>5, StepLemma DEF NextUnit, Inv, TypeOK, BranchesNest, Undefined
  <1>4. CASE LastUnit
    BY <1>4, StepLemma DEF LastUnit, Inv, TypeOK, Within, BranchesNest
  <1>5. CASE Stopped
    BY <1>5 DEF Stopped, vars, Inv, TypeOK, BranchesNest, Nest
  <1> QED BY <1>1, <1>2, <1>3, <1>4, <1>5

\* Lines of text and the ends of sources.
LEMMA LineSteps ==
    ASSUME Inv, EndOfInput \/ EndOfInclude \/ Text \/ SkipLine
    PROVE  Inv'
  <1> USE DEF Inv, TypeOK, BranchesNest
  <1>1. CASE EndOfInput
    <2>1. Within(<<>>)'
      BY DEF Within
    <2>2. Within(source)'
      BY <1>1, <2>1 DEF EndOfInput, Within
    <2>3. stale' \in BOOLEAN
      BY <1>1 DEF EndOfInput
    <2> QED BY <1>1, <2>2, <2>3, StepLemma DEF EndOfInput
  <1>2. CASE EndOfInclude
    <2>1. source # <<>>
      BY <1>2 DEF EndOfInclude
    <2>2. Within(source)'
      BY <1>2, <2>1, ClosedLemma DEF EndOfInclude, Within
    <2> QED BY <1>2, <2>2, StepLemma DEF EndOfInclude
  <1>3. CASE Text
    BY <1>3, ReadLemma DEF Text, Reading, LoopWith
  <1>4. CASE SkipLine
    BY <1>4, ReadLemma DEF SkipLine, Reading, Loop, LoopWith
  <1> QED BY <1>1, <1>2, <1>3, <1>4

\* The directives that open, change and close a group.
LEMMA ConditionalSteps ==
    ASSUME Inv, If \/ IfDefined \/ Unmatched \/ Else \/ Elif \/ Endif
    PROVE  Inv'
  <1>0. branch \in Seq(States) /\ Nest(branch) /\ DOMAIN macros = Names
    BY DEF Inv, TypeOK, BranchesNest
  <1>f. branch # <<>> => Front(branch) \in Seq(States) /\ Nest(Front(branch))
    BY <1>0, FrontNests
  <1>d. "DISABLED" \in States /\ "LIVE" \in States /\ \A t \in BOOLEAN : Taken(t) \in States
    BY DEF States, Taken
  <1>1. CASE If
    <2>1. source # <<>> /\ ~AtEnd /\ Consumed
      BY <1>1 DEF If, Reading
    <2>2. CASE Active(branch)
      <3>1. Test(Line.cond, branch)
        BY <1>1, <2>2 DEF If
      <3> QED BY <1>0, <2>1, <2>2, <3>1, TestLemma, ReadLemma
    <2>3. CASE ~Active(branch)
      <3>1. Push("DISABLED", branch)
        BY <1>1, <2>3 DEF If
      <3> QED BY <1>0, <1>d, <2>1, <3>1, PushLemma, ReadLemma
    <2> QED BY <2>2, <2>3
  <1>2. CASE IfDefined
    <2>1. source # <<>> /\ ~AtEnd /\ Consumed
      BY <1>2 DEF IfDefined, Reading
    <2> DEFINE t == (macros[Line.name] # NULL) <=> (Line.kind = "ifdef")
               s == IF Active(branch) THEN Taken(t) ELSE "DISABLED"
    <2>2. s \in States /\ (s = "DISABLED" \/ Active(branch)) /\ Push(s, branch)
      <3>1. t \in BOOLEAN
        OBVIOUS
      <3>2. Push(s, branch)
        BY <1>2 DEF IfDefined
      <3> HIDE DEF t
      <3> QED BY <3>1, <3>2, <1>d
    <2> HIDE DEF s
    <2> QED BY <1>0, <2>1, <2>2, PushLemma, ReadLemma
  <1>3. CASE Unmatched
    BY <1>0, <1>3, ReadLemma DEF Unmatched, Reading, Exit
  <1>4. CASE Else
    <2>1. source # <<>> /\ ~AtEnd /\ Consumed /\ branch # <<>>
      BY <1>4 DEF Else, Reading
    <2> DEFINE s == IF Active(Front(branch)) /\ Last(branch) = "DEAD" THEN "LIVE" ELSE "DISABLED"
    <2>2. s \in States /\ (s = "DISABLED" \/ Active(Front(branch))) /\ Push(s, Front(branch))
      BY <1>4, <1>d DEF Else
    <2> HIDE DEF s
    <2> QED BY <1>f, <2>1, <2>2, PushLemma, ReadLemma
  <1>5. CASE Elif
    <2>1. source # <<>> /\ ~AtEnd /\ Consumed /\ branch # <<>>
      BY <1>5 DEF Elif, Reading
    <2>2. CASE Active(Front(branch)) /\ Last(branch) = "DEAD"
      <3>1. Test(Line.cond, Front(branch))
        BY <1>5, <2>2 DEF Elif
      <3> QED BY <1>f, <2>1, <2>2, <3>1, TestLemma, ReadLemma
    <2>3. CASE ~(Active(Front(branch)) /\ Last(branch) = "DEAD")
      <3>1. Push("DISABLED", Front(branch))
        BY <1>5, <2>3 DEF Elif
      <3> QED BY <1>f, <1>d, <2>1, <3>1, PushLemma, ReadLemma
    <2> QED BY <2>2, <2>3
  <1>6. CASE Endif
    BY <1>0, <1>f, <1>6, ReadLemma DEF Endif, Reading, Loop, LoopWith
  <1> QED BY <1>1, <1>2, <1>3, <1>4, <1>5, <1>6

\* The other directives.
LEMMA DirectiveSteps ==
    ASSUME Inv, Define \/ Undef \/ Include \/ LineDirective \/ NoEffect \/ Refused
    PROVE  Inv'
  <1>0. branch \in Seq(States) /\ Nest(branch) /\ DOMAIN macros = Names
    BY DEF Inv, TypeOK, BranchesNest
  <1>1. CASE Define
    <2>1. source # <<>> /\ ~AtEnd /\ Consumed
      BY <1>1 DEF Define, Reading
    <2>2. branch' = branch /\ DOMAIN macros' = Names /\ phase' \in {"parser", "line", "exit"}
      BY <1>0, <1>1 DEF Define, Exit, Loop, LoopWith
    <2> QED BY <1>0, <2>1, <2>2, ReadLemma
  <1>2. CASE Undef
    BY <1>0, <1>2, ReadLemma DEF Undef, Reading, Loop, LoopWith
  <1>3. CASE Include
    <2>1. source # <<>> /\ ~AtEnd /\ Line.path \in DOMAIN files
      BY <1>3 DEF Include, Reading
    <2>2. Within(Append(Advanced, [file |-> Line.path, pos |-> 0]))
      BY <2>1, AdvancedLemma, OpenedLemma DEF Inv
    <2>3. Within(source)'
      BY <1>3, <2>2 DEF Include, Within
    <2> QED BY <1>0, <1>3, <2>3, StepLemma DEF Include, Loop, LoopWith, Inv, TypeOK
  <1>4. CASE LineDirective
    <2>1. source # <<>> /\ ~AtEnd
      BY <1>4 DEF LineDirective, Reading
    <2>2. Within(source)'
      BY <1>4, <2>1, AdvancedLemma DEF LineDirective, Within, Inv
    <2>3. branch' = branch /\ macros' = macros /\ phase' \in {"parser", "line", "exit"}
      BY <1>4 DEF LineDirective, Exit, Loop, LoopWith
    <2>4. stale' = FALSE /\ UNCHANGED <<files, units, unit, want>>
      BY <1>4 DEF LineDirective
    <2> QED BY <1>0, <2>2, <2>3, <2>4, StepLemma DEF Inv, TypeOK
  <1>5. CASE NoEffect
    BY <1>0, <1>5, ReadLemma DEF NoEffect, Reading, Loop, LoopWith
  <1>6. CASE Refused
    BY <1>0, <1>6, ReadLemma DEF Refused, Reading, Exit
  <1> QED BY <1>1, <1>2, <1>3, <1>4, <1>5, <1>6

\* Every step preserves the invariant.
LEMMA NextInv == Inv /\ [Next]_vars => Inv'
  <1> SUFFICES ASSUME Inv, [Next]_vars PROVE Inv'
    OBVIOUS
  <1>1. CASE UNCHANGED vars
    BY <1>1 DEF vars, Inv, TypeOK, BranchesNest, Nest
  <1>2. CASE Next
    BY <1>2, ParserSteps, LineSteps, ConditionalSteps, DirectiveSteps DEF Next
  <1> QED BY <1>1, <1>2

---------------------------------------------------------------------------

\* For all programs, however deep they include, every source is read within
\* its lines, units and macros are those there are, and the fields have their
\* types: source_stack, branch_stack and the arguments of preprocess_line.
THEOREM TypeCorrect == Spec => []TypeOK
  <1>1. Inv => TypeOK
    BY DEF Inv
  <1> QED BY <1>1, InitInv, NextInv, PTL DEF Spec

\* For all programs, whatever their conditions are and however deep groups
\* nest, also across files, no group inside a dead one comes to life: #else
\* and #elif find the disabled entry their assertions ask for.
THEOREM ConditionalsNest == Spec => []BranchesNest
  <1>1. Inv => BranchesNest
    BY DEF Inv
  <1> QED BY <1>1, InitInv, NextInv, PTL DEF Spec
===========================================================================
