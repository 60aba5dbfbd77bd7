------------------------ MODULE BlockEmission_proofs ------------------------
(***************************************************************************)
(* Proofs about BlockEmission: for every flow graph and both targets, each *)
(* block is labelled at most once, no jump is left without its label, and  *)
(* the code is a layout of the graph in the sense of CodeLayout.           *)
(***************************************************************************)
EXTENDS CodeLayout, StackLemmas, SequenceTheorems, TLAPS

Ids == 1..Len(blocks)
Opcodes == {"label", "stmt", "cond", "jmp", "jcc", "jnz", "ret", "table", "entry"}
Flagged == {"", "E", "NE", "P", "A", "NA", "AE", "NAE", "G", "NG", "GE", "NGE"}
Code == [op : Opcodes, b : Ids \cup {Null}, n : Nat, cc : Flagged]
Frames == [pc : {"enter", "code", "next"}, b : Ids]

\* A call under way will enter block b.
Promises(f, b) ==
    \/ f.pc = "enter" /\ f.b = b
    \/ f.pc = "code" /\ blocks[f.b].body # Null /\ blocks[f.b].jump[1] = b
    \/ f.pc = "next" /\ blocks[f.b].jump[2] = b
Promised(w, b) == \E k \in DOMAIN w : Promises(w[k], b)

\* What the instructions c need of the colors and of the calls under way.
Covered(c, col, w) ==
    \A i \in DOMAIN c : Refers(c[i]) => c[i].b \in Ids /\ (col[c[i].b] = "black" \/ Promised(w, c[i].b))
Labelled(c, col) == \A b \in Ids : col[b] = "black" <=> HasLabel(c, b)

TypeInv ==
    /\ blocks \in Graphs
    /\ color \in [Ids -> {"white", "black"}]
    /\ code \in Seq(Code)
    /\ work \in Seq(Frames)
    /\ \A k \in DOMAIN work : work[k].pc = "next" => blocks[work[k].b].jump[2] # Null

\* The blocks that are labelled are the black ones, and what is referred to is
\* black or will be entered.
LabelInv ==
    /\ TypeInv
    /\ LabelsOnce(code)
    /\ Labelled(code, color)
    /\ Covered(code, color, work)

\* What the flow graphs are.
LEMMA GraphLemma ==
    ASSUME blocks \in Graphs
    PROVE  /\ Len(blocks) \in Nat /\ Len(blocks) > 0 /\ DOMAIN blocks = Ids
           /\ Null \notin Ids
           /\ \A b \in Ids :
                /\ blocks[b].stmts \in Nat
                /\ blocks[b].jump[1] \in Ids \cup {Null} /\ blocks[b].jump[2] \in Ids \cup {Null}
                /\ blocks[b].jump = <<blocks[b].jump[1], blocks[b].jump[2]>>
                /\ blocks[b].body \in Ids \cup {Null}
                /\ blocks[b].table \in Seq(Ids)
                /\ blocks[b].cond \in Conditions
                /\ blocks[b].jump[2] # Null \/ blocks[b].body # Null => blocks[b].jump[1] # Null
                /\ blocks[b].body # Null \/ blocks[b].table # <<>> => blocks[b].stmts = 0
  <1>1. DOMAIN blocks = 1..Len(blocks) /\ Len(blocks) \in Nat /\ IsFlowGraph(blocks)
    BY GraphsAssumption
  <1>2. Null \notin Ids
    BY <1>1, GraphsAssumption DEF Null, Ids
  <1> DEFINE Blocks == [stmts : Nat, jump : (Ids \cup {Null}) \X (Ids \cup {Null}),
                        body : Ids \cup {Null}, table : Seq(Ids), cond : Conditions]
  <1>3. /\ Len(blocks) > 0
        /\ \A b \in Ids :
             /\ blocks[b] \in Blocks
             /\ blocks[b].jump[2] # Null \/ blocks[b].body # Null => blocks[b].jump[1] # Null
             /\ blocks[b].body # Null \/ blocks[b].table # <<>> => blocks[b].stmts = 0
    BY <1>1 DEF IsFlowGraph, Ids, Null
  <1>4. ASSUME NEW r \in Blocks
        PROVE  /\ r.stmts \in Nat /\ r.jump[1] \in Ids \cup {Null} /\ r.jump[2] \in Ids \cup {Null}
               /\ r.jump = <<r.jump[1], r.jump[2]>>
               /\ r.body \in Ids \cup {Null} /\ r.table \in Seq(Ids) /\ r.cond \in Conditions
    OBVIOUS
  <1> HIDE DEF Blocks
  <1> QED BY <1>1, <1>2, <1>3, <1>4 DEF Ids

---------------------------------------------------------------------------
(* Sequences of instructions.                                              *)

\* Instructions without a label that only refer to blocks in B.
RefersTo(s, B) == \A i \in DOMAIN s : s[i].op # "label" /\ (Refers(s[i]) => s[i].b \in B)

\* The entries of two sequences behind each other.
LEMMA ConcatEntries ==
    ASSUME NEW S, NEW s \in Seq(S), NEW t \in Seq(S)
    PROVE  /\ s \o t \in Seq(S)
           /\ Len(s) \in Nat
           /\ \A i \in DOMAIN s : i \in DOMAIN (s \o t) /\ (s \o t)[i] = s[i] /\ i <= Len(s)
           /\ \A i \in DOMAIN t : Len(s) + i \in DOMAIN (s \o t) /\ (s \o t)[Len(s) + i] = t[i]
           /\ \A i \in DOMAIN (s \o t) :
                \/ i \in DOMAIN s
                \/ i - Len(s) \in DOMAIN t /\ (s \o t)[i] = t[i - Len(s)] /\ i > Len(s)
  <1> DEFINE d == s \o t
  <1>1. /\ d \in Seq(S) /\ Len(d) = Len(s) + Len(t) /\ Len(s) \in Nat /\ Len(t) \in Nat
        /\ \A i \in 1 .. Len(s) + Len(t) : d[i] = IF i <= Len(s) THEN s[i] ELSE t[i - Len(s)]
    BY ConcatProperties, LenProperties
  <1>2. DOMAIN s = 1 .. Len(s) /\ DOMAIN t = 1 .. Len(t) /\ DOMAIN d = 1 .. Len(d)
    BY <1>1, LenProperties
  <1> HIDE DEF d
  <1>3. /\ \A i \in DOMAIN s : i \in DOMAIN d /\ d[i] = s[i] /\ i <= Len(s)
        /\ \A i \in DOMAIN t : Len(s) + i \in DOMAIN d /\ d[Len(s) + i] = t[i]
        /\ \A i \in DOMAIN d : \/ i \in DOMAIN s
                               \/ i - Len(s) \in DOMAIN t /\ d[i] = t[i - Len(s)] /\ i > Len(s)
    BY <1>1, <1>2
  <1> QED BY <1>1, <1>3 DEF d

\* Two such sequences behind each other.
LEMMA RefersToConcat ==
    ASSUME NEW s \in Seq(Code), NEW t \in Seq(Code), NEW B, RefersTo(s, B), RefersTo(t, B)
    PROVE  s \o t \in Seq(Code) /\ RefersTo(s \o t, B)
  BY ConcatEntries DEF RefersTo

\* Sequences of instructions behind each other.
LEMMA CodeConcat == \A c, s \in Seq(Code) : c \o s \in Seq(Code)
  BY ConcatProperties

\* Three of them, in both groupings; four of them.
Regroups(c, s, t) == (c \o s) \o t = c \o (s \o t)
RegroupsFour(c, s, t, u) ==
    /\ (c \o s) \o (t \o u) = c \o (s \o (t \o u))
    /\ ((c \o s) \o t) \o u = c \o (s \o (t \o u))
    /\ (c \o (s \o t)) \o u = c \o (s \o (t \o u))

\* It does not matter how three sequences of instructions are grouped.
LEMMA CodeAssociative == \A c, s, t \in Seq(Code) : Regroups(c, s, t)
  BY ConcatAssociative DEF Regroups

\* The same for four.
LEMMA FourParts == \A c, s, t, u \in Seq(Code) : RegroupsFour(c, s, t, u)
  <1> SUFFICES ASSUME NEW c \in Seq(Code), NEW s \in Seq(Code), NEW t \in Seq(Code), NEW u \in Seq(Code)
               PROVE  RegroupsFour(c, s, t, u)
    OBVIOUS
  <1>1. c \o s \in Seq(Code) /\ s \o t \in Seq(Code) /\ t \o u \in Seq(Code)
    BY CodeConcat
  <1>2. Regroups(c, s, t \o u) /\ Regroups(c \o s, t, u) /\ Regroups(c, s \o t, u) /\ Regroups(s, t, u)
    BY <1>1, CodeAssociative
  <1> QED BY ONLY <1>2 DEF Regroups, RegroupsFour

\* Instructions without a label change nothing for the labels.
LEMMA ExtendPlain ==
    ASSUME NEW c \in Seq(Code), NEW s \in Seq(Code), NEW B, RefersTo(s, B), LabelsOnce(c)
    PROVE  /\ c \o s \in Seq(Code) /\ LabelsOnce(c \o s)
           /\ \A b : HasLabel(c \o s, b) <=> HasLabel(c, b)
  <1>1. \A b : Label(b).op = "label"
    BY DEF Label, Instr
  <1>2. ASSUME NEW i \in DOMAIN (c \o s), (c \o s)[i].op = "label"
        PROVE  i \in DOMAIN c /\ (c \o s)[i] = c[i]
    BY <1>2, ConcatEntries DEF RefersTo
  <1>3. LabelsOnce(c \o s)
    BY <1>2 DEF LabelsOnce
  <1>4. \A b : HasLabel(c \o s, b) <=> HasLabel(c, b)
    BY <1>1, <1>2, ConcatEntries DEF HasLabel
  <1> QED BY <1>3, <1>4, ConcatEntries

\* The label of a block that has none yet.
LEMMA ExtendLabel ==
    ASSUME NEW c \in Seq(Code), NEW b, ~HasLabel(c, b), LabelsOnce(c), Label(b) \in Code
    PROVE  /\ Append(c, Label(b)) \in Seq(Code) /\ LabelsOnce(Append(c, Label(b)))
           /\ \A x : HasLabel(Append(c, Label(b)), x) <=> x = b \/ HasLabel(c, x)
  <1> DEFINE d == Append(c, Label(b))
  <1>1. /\ d \in Seq(Code) /\ Len(c) \in Nat
        /\ DOMAIN c = 1 .. Len(c) /\ DOMAIN d = 1 .. Len(c) + 1
        /\ \A i \in 1 .. Len(c) : d[i] = c[i]
        /\ d[Len(c) + 1] = Label(b)
    OBVIOUS
  <1> HIDE DEF d
  <1>2. \A x, y : Label(x) = Label(y) => x = y
    BY DEF Label, Instr
  <1>3. \A i \in DOMAIN d : i \in DOMAIN c \/ i = Len(c) + 1
    BY <1>1
  <1>4. LabelsOnce(d)
    <2> SUFFICES ASSUME NEW i \in DOMAIN d, NEW j \in DOMAIN d, d[i].op = "label", d[i] = d[j]
                 PROVE  i = j
      BY DEF LabelsOnce
    <2>1. CASE i \in DOMAIN c /\ j \in DOMAIN c
      BY <1>1, <2>1 DEF LabelsOnce
    <2>2. CASE i = Len(c) + 1 \/ j = Len(c) + 1
      BY <1>1, <1>3, <2>2 DEF HasLabel
    <2> QED BY <1>3, <2>1, <2>2
  <1>5. \A x : HasLabel(d, x) <=> x = b \/ HasLabel(c, x)
    BY <1>1, <1>2, <1>3 DEF HasLabel
  <1> QED BY <1>1, <1>4, <1>5 DEF d

---------------------------------------------------------------------------
(* Steps.                                                                  *)

\* A promise of the caller that is replaced is kept or passed on, and the
\* promises of the others stay.
LEMMA PromiseLemma ==
    ASSUME LabelInv, work # <<>>, NEW x \in Seq(Frames)
    PROVE  /\ Below \in Seq(Frames) /\ Below \o x \in Seq(Frames)
           /\ Top \in Frames
           /\ \A b : Promised(work, b) => Promises(Top, b) \/ Promised(Below \o x, b)
           /\ \A b : Promised(x, b) => Promised(Below \o x, b)
           /\ (\A k \in DOMAIN x : x[k].pc = "next" => blocks[x[k].b].jump[2] # Null) =>
                 \A k \in DOMAIN (Below \o x) :
                    (Below \o x)[k].pc = "next" => blocks[(Below \o x)[k].b].jump[2] # Null
  <1>1. work \in Seq(Frames)
    BY DEF LabelInv, TypeInv
  <1>2. /\ Len(work) \in Nat /\ Len(work) > 0
        /\ Top = work[Len(work)] /\ Top \in Frames
        /\ Below \in Seq(Frames) /\ Len(Below) = Len(work) - 1
        /\ \A i \in 1 .. Len(work) - 1 : Below[i] = work[i]
    BY <1>1, FrontLast DEF Top, Below
  <1>3. DOMAIN work = 1 .. Len(work) /\ DOMAIN Below = 1 .. Len(work) - 1
    BY <1>1, <1>2, LenProperties
  <1>4. \A i \in DOMAIN work : i = Len(work) \/ (i \in DOMAIN Below /\ Below[i] = work[i])
    BY <1>2, <1>3
  <1>5. \A i \in DOMAIN Below : i \in DOMAIN work /\ Below[i] = work[i]
    BY <1>2, <1>3
  <1>6. \A b : Promised(work, b) => Promises(Top, b) \/ Promised(Below \o x, b)
    <2> SUFFICES ASSUME NEW b, NEW k \in DOMAIN work, Promises(work[k], b)
                 PROVE  Promises(Top, b) \/ Promised(Below \o x, b)
      BY DEF Promised
    <2>1. CASE k = Len(work)
      BY <1>2, <2>1
    <2>2. CASE k \in DOMAIN Below /\ Below[k] = work[k]
      <3>1. k \in DOMAIN (Below \o x) /\ (Below \o x)[k] = work[k]
        BY <1>2, <2>2, ConcatEntries
      <3> QED BY <3>1 DEF Promised
    <2> QED BY <1>4, <2>1, <2>2
  <1>7. \A b : Promised(x, b) => Promised(Below \o x, b)
    <2> SUFFICES ASSUME NEW b, NEW k \in DOMAIN x, Promises(x[k], b)
                 PROVE  Promised(Below \o x, b)
      BY DEF Promised
    <2>1. Len(Below) + k \in DOMAIN (Below \o x) /\ (Below \o x)[Len(Below) + k] = x[k]
      BY <1>2, ConcatEntries
    <2> QED BY <2>1 DEF Promised
  <1>8. ASSUME \A k \in DOMAIN x : x[k].pc = "next" => blocks[x[k].b].jump[2] # Null,
               NEW k \in DOMAIN (Below \o x), (Below \o x)[k].pc = "next"
        PROVE  blocks[(Below \o x)[k].b].jump[2] # Null
    <2>1. CASE k \in DOMAIN Below
      <3>1. (Below \o x)[k] = work[k] /\ k \in DOMAIN work
        BY <1>2, <1>5, <2>1, ConcatEntries
      <3> QED BY <3>1, <1>8 DEF LabelInv, TypeInv
    <2>2. CASE k - Len(Below) \in DOMAIN x /\ (Below \o x)[k] = x[k - Len(Below)]
      BY <2>2, <1>8
    <2> QED BY <1>2, <2>1, <2>2, ConcatEntries
  <1> QED BY <1>2, <1>6, <1>7, <1>8, ConcatEntries

\* The graph stays the same.
LEMMA CoveredNext ==
    ASSUME blocks' = blocks, Covered(code', color', work')
    PROVE  Covered(code, color, work)'
  BY DEF Covered, Promised, Promises, Ids

\* A step that emits s and replaces the running call by the calls x.
LEMMA StepLemma ==
    ASSUME LabelInv, work # <<>>,
           NEW s \in Seq(Code), NEW x \in Seq(Frames), NEW B \in SUBSET Ids, RefersTo(s, B),
           blocks' = blocks, color' = color, code' = code \o s, work' = Below \o x,
           \A k \in DOMAIN x : x[k].pc = "next" => blocks[x[k].b].jump[2] # Null,
           \A b \in B : color[b] = "black" \/ Promised(x, b),
           \A b \in Ids : Promises(Top, b) => color[b] = "black" \/ Promised(x, b)
    PROVE  LabelInv'
  <1>1. /\ code' \in Seq(Code) /\ LabelsOnce(code')
        /\ \A b : HasLabel(code', b) <=> HasLabel(code, b)
    BY ExtendPlain DEF LabelInv, TypeInv
  <1>2. Labelled(code', color')
    BY <1>1 DEF LabelInv, Labelled
  <1>3. ASSUME NEW b \in Ids, color[b] = "black" \/ Promised(work, b)
        PROVE  color[b] = "black" \/ Promised(work', b)
    BY <1>3, PromiseLemma
  <1>4. Covered(code', color', work')
    <2> SUFFICES ASSUME NEW i \in DOMAIN code', Refers(code'[i])
                 PROVE  code'[i].b \in Ids /\ (color[code'[i].b] = "black" \/ Promised(work', code'[i].b))
      BY DEF Covered
    <2>0. code \in Seq(Code) /\ Covered(code, color, work)
      BY DEF LabelInv, TypeInv
    <2>1. CASE i \in DOMAIN code
      <3>1. code'[i] = code[i]
        BY <2>0, <2>1, ConcatEntries
      <3>2. code[i].b \in Ids /\ (color[code[i].b] = "black" \/ Promised(work, code[i].b))
        BY <2>0, <2>1, <3>1 DEF Covered
      <3> QED BY <3>1, <3>2, <1>3
    <2>2. CASE i - Len(code) \in DOMAIN s /\ code'[i] = s[i - Len(code)]
      <3>1. code'[i].b \in B
        BY <2>2 DEF RefersTo
      <3> QED BY <3>1, PromiseLemma
    <2> QED BY <2>0, <2>1, <2>2, ConcatEntries
  <1>5. TypeInv'
    BY <1>1, PromiseLemma DEF LabelInv, TypeInv, Ids, Code, Frames
  <1>6. Labelled(code, color)'
    BY <1>2 DEF Labelled, Ids
  <1>7. Covered(code, color, work)'
    BY <1>4, CoveredNext
  <1> QED BY <1>1, <1>5, <1>6, <1>7 DEF LabelInv

\* A step that labels the block b of the running call and then does the same.
LEMMA EnterLemma ==
    ASSUME LabelInv, work # <<>>, Top.pc = "enter",
           NEW b \in Ids, b = Top.b, color[b] # "black",
           NEW s \in Seq(Code), NEW x \in Seq(Frames), NEW B \in SUBSET Ids, RefersTo(s, B),
           blocks' = blocks, color' = [color EXCEPT ![b] = "black"],
           code' = Append(code, Label(b)) \o s, work' = Below \o x,
           \A k \in DOMAIN x : x[k].pc = "next" => blocks[x[k].b].jump[2] # Null,
           \A y \in B : color'[y] = "black" \/ Promised(x, y)
    PROVE  LabelInv'
  <1> DEFINE c == Append(code, Label(b))
  <1>0. code \in Seq(Code) /\ color \in [Ids -> {"white", "black"}] /\ Covered(code, color, work)
        /\ LabelsOnce(code) /\ Labelled(code, color)
    BY DEF LabelInv, TypeInv
  <1>1. Label(b) \in Code
    BY DEF Label, Instr, Code, Opcodes, Flagged
  <1>2. ~HasLabel(code, b)
    BY <1>0 DEF Labelled
  <1>3. /\ c \in Seq(Code) /\ LabelsOnce(c)
        /\ \A y : HasLabel(c, y) <=> y = b \/ HasLabel(code, y)
    BY <1>0, <1>1, <1>2, ExtendLabel
  <1>4. \A i \in DOMAIN c : (i \in DOMAIN code /\ c[i] = code[i]) \/ c[i] = Label(b)
    BY <1>0, <1>1
  <1> HIDE DEF c
  <1>5. code' = c \o s
    BY DEF c
  <1>6. /\ code' \in Seq(Code) /\ LabelsOnce(code')
        /\ \A y : HasLabel(code', y) <=> y = b \/ HasLabel(code, y)
    BY <1>3, <1>5, ExtendPlain
  <1>7. \A y \in Ids : color'[y] = IF y = b THEN "black" ELSE color[y]
    BY <1>0
  <1>8. Labelled(code', color')
    BY <1>0, <1>6, <1>7 DEF Labelled
  <1>9. ASSUME NEW y \in Ids, color[y] = "black" \/ Promised(work, y)
        PROVE  color'[y] = "black" \/ Promised(work', y)
    <2>1. Promises(Top, y) => y = b
      BY DEF Promises
    <2> QED BY <1>7, <1>9, <2>1, PromiseLemma
  <1>10. Covered(code', color', work')
    <2> SUFFICES ASSUME NEW i \in DOMAIN code', Refers(code'[i])
                 PROVE  code'[i].b \in Ids /\ (color'[code'[i].b] = "black" \/ Promised(work', code'[i].b))
      BY DEF Covered
    <2>1. CASE i \in DOMAIN c
      <3>1. code'[i] = c[i]
        BY <1>3, <1>5, <2>1, ConcatEntries
      <3>2. c[i] # Label(b)
        <4>1. ~Refers(Label(b))
          BY DEF Refers, IsJump, Label, Instr
        <4> QED BY <3>1, <4>1
      <3>3. i \in DOMAIN code /\ code'[i] = code[i]
        BY <1>4, <2>1, <3>1, <3>2
      <3>4. code[i].b \in Ids /\ (color[code[i].b] = "black" \/ Promised(work, code[i].b))
        BY <1>0, <3>3 DEF Covered
      <3> QED BY <3>3, <3>4, <1>9
    <2>2. CASE i - Len(c) \in DOMAIN s /\ code'[i] = s[i - Len(c)]
      <3>1. code'[i].b \in B
        BY <2>2 DEF RefersTo
      <3> QED BY <3>1, PromiseLemma
    <2> QED BY <1>3, <1>5, <2>1, <2>2, ConcatEntries
  <1>11. TypeInv'
    <2>1. color' \in [Ids -> {"white", "black"}]
      BY <1>0
    <2>2. /\ work' \in Seq(Frames)
          /\ \A k \in DOMAIN work' : work'[k].pc = "next" => blocks[work'[k].b].jump[2] # Null
      BY PromiseLemma
    <2> QED BY <1>6, <2>1, <2>2 DEF LabelInv, TypeInv, Ids, Code, Frames
  <1>12. Labelled(code, color)'
    BY <1>8 DEF Labelled, Ids
  <1>13. Covered(code, color, work)'
    BY <1>10, CoveredNext
  <1> QED BY <1>6, <1>11, <1>12, <1>13 DEF LabelInv

---------------------------------------------------------------------------
(* What the actions emit.                                                  *)

\* The jumps and other instructions are instructions.
LEMMA InstructionTypes ==
    ASSUME blocks \in Graphs, NEW b \in Ids
    PROVE  /\ Jmp(b) \in Code /\ Jnz(b) \in Code /\ Entry(b) \in Code
           /\ Cond(b) \in Code /\ Table(b) \in Code /\ Ret(b) \in Code /\ Ret(Null) \in Code
           /\ \A n \in Nat : Stmt(b, n) \in Code
           /\ \A cc \in Flagged : J(cc, b) \in Code
           /\ Enter(b) \in Frames
  BY DEF Jmp, Jnz, Entry, Cond, Table, Ret, Stmt, J, Instr, Code, Opcodes, Flagged, Frames, Enter

\* A sequence of one instruction.
LEMMA InstructionReferences ==
    ASSUME NEW i, NEW B, i.op # "label", Refers(i) => i.b \in B
    PROVE  RefersTo(<<i>>, B)
  BY DEF RefersTo

\* What single instructions refer to.
LEMMA SingleReferences ==
    ASSUME NEW b, NEW B
    PROVE  /\ b \in B => /\ RefersTo(<<Jmp(b)>>, B) /\ RefersTo(<<Jnz(b)>>, B)
                         /\ RefersTo(<<Entry(b)>>, B) /\ \A cc : RefersTo(<<J(cc, b)>>, B)
           /\ RefersTo(<<Cond(b)>>, B) /\ RefersTo(<<Table(b)>>, B) /\ RefersTo(<<Ret(b)>>, B)
           /\ RefersTo(<<>>, B)
  <1>1. /\ Jmp(b).op # "label" /\ Jnz(b).op # "label" /\ Entry(b).op # "label"
        /\ Cond(b).op # "label" /\ Table(b).op # "label" /\ Ret(b).op # "label"
        /\ \A cc : J(cc, b).op # "label" /\ J(cc, b).b = b
        /\ Jmp(b).b = b /\ Jnz(b).b = b /\ Entry(b).b = b
        /\ ~Refers(Cond(b)) /\ ~Refers(Table(b)) /\ ~Refers(Ret(b))
    BY DEF Jmp, Jnz, Entry, Cond, Table, Ret, J, Instr, Refers, IsJump
  <1>2. RefersTo(<<>>, B)
    BY DEF RefersTo
  <1> QED BY <1>1, <1>2, InstructionReferences

\* emit_vm_jmp emits the jump or nothing.
LEMMA EmitJmpLemma ==
    ASSUME blocks \in Graphs, NEW c \in Seq(Code), NEW b \in Ids, NEW B, b \in B
    PROVE  \E t \in Seq(Code) : EmitJmp(c, b) = c \o t /\ RefersTo(t, B)
  <1>1. CASE EmitJmp(c, b) = c
    <2>1. c = c \o <<>> /\ <<>> \in Seq(Code)
      BY ConcatEmptySeq
    <2>2. RefersTo(<<>>, B)
      BY DEF RefersTo
    <2> QED BY <1>1, <2>1, <2>2
  <1>2. CASE EmitJmp(c, b) = Append(c, Jmp(b))
    <2>1. Jmp(b) \in Code
      BY InstructionTypes
    <2>2. Append(c, Jmp(b)) = c \o <<Jmp(b)>> /\ <<Jmp(b)>> \in Seq(Code)
      BY <2>1, AppendIsConcat
    <2> QED BY <1>2, <2>2, SingleReferences
  <1> QED BY <1>1, <1>2 DEF EmitJmp

\* Statements refer to nothing.
LEMMA StatementsLemma ==
    ASSUME blocks \in Graphs, NEW b \in Ids, NEW B
    PROVE  Statements(b) \in Seq(Code) /\ RefersTo(Statements(b), B)
  <1>1. blocks[b].stmts \in Nat
    BY GraphLemma
  <1>2. \A i \in 1..blocks[b].stmts : Stmt(b, i) \in Code
    BY InstructionTypes
  <1>3. Statements(b) \in Seq(Code)
    BY <1>1, <1>2 DEF Statements
  <1>4. RefersTo(Statements(b), B)
    BY DEF Statements, RefersTo, Refers, IsJump, Stmt, Instr
  <1> QED BY <1>3, <1>4

\* The conditions of comparisons and their negations.
LEMMA FlagsLemma ==
    ASSUME NEW c \in Conditions, c.op # "value"
    PROVE  /\ compile_compare(c) \in Flagged /\ Negated(compile_compare(c)) \in Flagged
  <1>1. compile_compare(c) \in {"E", "NE", "A", "NA", "AE", "NAE", "G", "NG", "GE", "NGE"}
    BY DEF compile_compare, Conditions, is_real, Exchanged
  <1> QED BY <1>1 DEF Negated, Flagged

\* The jumps at the end of a block lead to its two successors.
LEMMA BranchLemma ==
    ASSUME blocks \in Graphs, NEW b \in Ids, IsTwoWay(b), NEW back \in BOOLEAN
    PROVE  /\ BranchCode(b, back) \in Seq(Code)
           /\ RefersTo(BranchCode(b, back), {blocks[b].jump[1], blocks[b].jump[2]})
  <1> DEFINE c == blocks[b].cond
             j0 == blocks[b].jump[1]
             j1 == blocks[b].jump[2]
             Unless(eq, ne) == <<J("NE", ne), J("P", ne), Jmp(eq)>>
             Check(cc) == IF back THEN <<J(cc, j1)>> ELSE <<J(Negated(cc), j0)>>
  <1>1. c \in Conditions /\ j0 \in Ids /\ j1 \in Ids
    BY GraphLemma DEF IsTwoWay
  <1> HIDE DEF c, j0, j1
  <1>2. ASSUME NEW eq \in {j0, j1}, NEW ne \in {j0, j1}
        PROVE  Unless(eq, ne) \in Seq(Code) /\ RefersTo(Unless(eq, ne), {j0, j1})
    <2>1. J("NE", ne) \in Code /\ J("P", ne) \in Code /\ Jmp(eq) \in Code
      BY <1>1, <1>2, InstructionTypes DEF Flagged
    <2>2. RefersTo(<<J("NE", ne)>>, {j0, j1}) /\ RefersTo(<<J("P", ne)>>, {j0, j1})
          /\ RefersTo(<<Jmp(eq)>>, {j0, j1})
      BY <1>2, SingleReferences
    <2>3. Unless(eq, ne) = (<<J("NE", ne)>> \o <<J("P", ne)>>) \o <<Jmp(eq)>>
      BY <2>1
    <2> HIDE DEF Unless
    <2>4. <<J("NE", ne)>> \in Seq(Code) /\ <<J("P", ne)>> \in Seq(Code) /\ <<Jmp(eq)>> \in Seq(Code)
      BY <2>1
    <2>5. /\ <<J("NE", ne)>> \o <<J("P", ne)>> \in Seq(Code)
          /\ RefersTo(<<J("NE", ne)>> \o <<J("P", ne)>>, {j0, j1})
      BY <2>2, <2>4, RefersToConcat
    <2> DEFINE two == <<J("NE", ne)>> \o <<J("P", ne)>>
               one == <<Jmp(eq)>>
    <2>6. two \in Seq(Code) /\ RefersTo(two, {j0, j1}) /\ one \in Seq(Code) /\ RefersTo(one, {j0, j1})
      BY <2>2, <2>4, <2>5
    <2>7. Unless(eq, ne) = two \o one
      BY <2>3
    <2> HIDE DEF two, one
    <2> QED BY <2>6, <2>7, RefersToConcat
  <1>3. ASSUME NEW cc \in Flagged, Negated(cc) \in Flagged
        PROVE  Check(cc) \in Seq(Code) /\ RefersTo(Check(cc), {j0, j1})
    <2>1. J(cc, j1) \in Code /\ J(Negated(cc), j0) \in Code
      BY <1>1, <1>3, InstructionTypes
    <2>2. RefersTo(<<J(cc, j1)>>, {j0, j1}) /\ RefersTo(<<J(Negated(cc), j0)>>, {j0, j1})
      BY SingleReferences
    <2>3. <<J(cc, j1)>> \in Seq(Code) /\ <<J(Negated(cc), j0)>> \in Seq(Code)
      BY <2>1
    <2> QED BY <2>2, <2>3
  <1>4. "NE" \in Flagged /\ Negated("NE") \in Flagged
    BY DEF Negated, Flagged
  <1>5. c.op # "value" => /\ compile_compare(c) \in Flagged
                          /\ Negated(compile_compare(c)) \in Flagged
    BY <1>1, FlagsLemma
  <1>6. \/ BranchCode(b, back) = Unless(j0, j1)
        \/ BranchCode(b, back) = Unless(j1, j0)
        \/ BranchCode(b, back) = Check("NE")
        \/ c.op # "value" /\ BranchCode(b, back) = Check(compile_compare(c))
    BY DEF BranchCode, c, j0, j1
  <1> HIDE DEF Unless, Check
  <1>7. BranchCode(b, back) \in Seq(Code) /\ RefersTo(BranchCode(b, back), {j0, j1})
    BY <1>2, <1>3, <1>4, <1>5, <1>6
  <1> QED BY <1>7 DEF j0, j1

---------------------------------------------------------------------------
(* The actions.                                                            *)

\* The block of the running call is one of the graph.
LEMMA TopLemma ==
    ASSUME LabelInv, work # <<>>
    PROVE  /\ blocks \in Graphs /\ Top \in Frames /\ Top.b \in Ids
           /\ code \in Seq(Code) /\ Below \in Seq(Frames)
  <1>1. <<>> \in Seq(Frames)
    OBVIOUS
  <1> QED BY <1>1, PromiseLemma DEF LabelInv, TypeInv, Frames

\* A block that is met again is left alone; one that is met first is labelled,
\* and the blocks its table or the jump before its body leads to are promised.
LEMMA EnterBlockInv ==
    ASSUME LabelInv, EnterBlock
    PROVE  LabelInv'
  <1> DEFINE b == Top.b
             entries == [i \in DOMAIN blocks[b].table |-> Entry(blocks[b].table[i])]
             calls == [i \in DOMAIN blocks[b].table |-> Enter(blocks[b].table[i])]
  <1>1. /\ work # <<>> /\ Top.pc = "enter" /\ blocks' = blocks
    BY DEF EnterBlock, EmitKeep
  <1>2. /\ blocks \in Graphs /\ Top \in Frames /\ b \in Ids
        /\ code \in Seq(Code) /\ Below \in Seq(Frames)
    BY <1>1, TopLemma
  <1>3. color \in [Ids -> {"white", "black"}]
    BY DEF LabelInv, TypeInv
  <1>4. Label(b) \in Code
    BY <1>2 DEF Label, Instr, Code, Opcodes, Flagged
  <1>5. CASE Black(b)
    <2>1. color' = color /\ code' = code /\ work' = Below
      BY <1>5 DEF EnterBlock
    <2>2. <<>> \in Seq(Code) /\ <<>> \in Seq(Frames) /\ code' = code \o <<>> /\ work' = Below \o <<>>
      BY <1>2, <2>1, ConcatEmptySeq
    <2>3. RefersTo(<<>>, {})
      BY SingleReferences
    <2>4. \A y \in Ids : Promises(Top, y) => color[y] = "black"
      BY <1>1, <1>5 DEF Promises, Black
    <2>5. /\ \A k \in DOMAIN <<>> : <<>>[k].pc = "next" => blocks[<<>>[k].b].jump[2] # Null
          /\ \A y \in {} : color[y] = "black" \/ Promised(<<>>, y)
          /\ \A y \in Ids : Promises(Top, y) => color[y] = "black" \/ Promised(<<>>, y)
          /\ {} \in SUBSET Ids
      BY <2>4
    <2> QED BY <1>1, <2>1, <2>2, <2>3, <2>5, StepLemma
  <1>6. CASE ~Black(b) /\ blocks[b].table # <<>>
    <2>1. /\ color' = [color EXCEPT ![b] = "black"]
          /\ code' = code \o <<Label(b), Cond(b), Table(b)>> \o entries
          /\ work' = Below \o Reverse(calls)
      BY <1>6, Zenon DEF EnterBlock
    <2> DEFINE n == Len(blocks[b].table)
               B == {blocks[b].table[i] : i \in 1 .. n}
    <2>2. /\ blocks[b].table \in Seq(Ids) /\ n \in Nat /\ DOMAIN blocks[b].table = 1 .. n
          /\ \A i \in 1 .. n : blocks[b].table[i] \in Ids
      BY <1>2, GraphLemma
    <2>3. entries \in Seq(Code)
      BY <1>2, <2>2, InstructionTypes
    <2>4. RefersTo(entries, B)
      BY <2>2 DEF RefersTo, Refers, IsJump, Entry, Instr
    <2>5. calls \in Seq(Frames) /\ Len(calls) = n
      BY <1>2, <2>2, InstructionTypes
    <2>6. /\ Reverse(calls) \in Seq(Frames) /\ DOMAIN Reverse(calls) = 1 .. n
          /\ \A i \in 1 .. n : Reverse(calls)[i] = Enter(blocks[b].table[n - i + 1])
      <3>1. \A i \in 1 .. n : n - i + 1 \in 1 .. n
        BY <2>2
      <3>2. Reverse(calls) = [i \in 1 .. n |-> Enter(blocks[b].table[n - i + 1])]
        BY <2>2, <2>5, <3>1 DEF Reverse
      <3>3. \A i \in 1 .. n : Enter(blocks[b].table[n - i + 1]) \in Frames
        BY <1>2, <2>2, <3>1, InstructionTypes
      <3> DEFINE r == [i \in 1 .. n |-> Enter(blocks[b].table[n - i + 1])]
      <3>4. r \in [1 .. n -> Frames] /\ n \in Nat
        BY <2>2, <3>3
      <3>5. r \in Seq(Frames)
        <4> HIDE DEF r, n
        <4> QED BY ONLY <3>4, SeqDef
      <3> QED BY <3>2, <3>5
    <2>7. ASSUME NEW y \in B PROVE Promised(Reverse(calls), y)
      <3>1. PICK i \in 1 .. n : y = blocks[b].table[i]
        OBVIOUS
      <3>2. n - i + 1 \in 1 .. n /\ n - (n - i + 1) + 1 = i
        BY <2>2
      <3>3. Reverse(calls)[n - i + 1] = Enter(y)
        BY <2>6, <3>1, <3>2
      <3>4. Promises(Enter(y), y)
        BY DEF Promises, Enter
      <3> QED BY <2>6, <3>2, <3>3, <3>4 DEF Promised
    <2>8. \A k \in DOMAIN Reverse(calls) : Reverse(calls)[k].pc # "next"
      <3>1. \A y : Enter(y).pc # "next"
        BY DEF Enter
      <3> HIDE DEF calls
      <3> QED BY <2>6, <3>1
    <2>9. /\ <<Cond(b)>> \in Seq(Code) /\ <<Table(b)>> \in Seq(Code) /\ <<Label(b)>> \in Seq(Code)
          /\ RefersTo(<<Cond(b)>>, B) /\ RefersTo(<<Table(b)>>, B)
      <3>1. Cond(b) \in Code /\ Table(b) \in Code
        BY <1>2, InstructionTypes
      <3>2. <<Cond(b)>> \in Seq(Code) /\ <<Table(b)>> \in Seq(Code) /\ <<Label(b)>> \in Seq(Code)
        BY <1>4, <3>1
      <3>3. RefersTo(<<Cond(b)>>, B) /\ RefersTo(<<Table(b)>>, B)
        <4> HIDE DEF B
        <4> QED BY SingleReferences
      <3> QED BY <3>2, <3>3
    <2> DEFINE t == <<Cond(b)>> \o <<Table(b)>>
    <2>10. t \in Seq(Code) /\ RefersTo(t, B) /\ t \o entries \in Seq(Code) /\ RefersTo(t \o entries, B)
      BY <2>3, <2>4, <2>9, RefersToConcat
    <2>11. <<Label(b), Cond(b), Table(b)>> = <<Label(b)>> \o t
      BY <2>9
    <2> HIDE DEF entries, calls, t, B
    <2>12. code' = Append(code, Label(b)) \o (t \o entries)
      <3>1. (code \o <<Label(b)>>) \o t = code \o (<<Label(b)>> \o t)
        <4>1. Regroups(code, <<Label(b)>>, t)
          BY <1>2, <2>9, <2>10, CodeAssociative
        <4> QED BY <4>1 DEF Regroups
      <3>2. Append(code, Label(b)) = code \o <<Label(b)>> /\ code \o <<Label(b)>> \in Seq(Code)
        BY <1>2, <1>4, <2>9, AppendIsConcat, ConcatEntries
      <3>3. ((code \o <<Label(b)>>) \o t) \o entries = (code \o <<Label(b)>>) \o (t \o entries)
        <4>1. Regroups(code \o <<Label(b)>>, t, entries)
          BY <2>3, <2>10, <3>2, CodeAssociative
        <4> QED BY <4>1 DEF Regroups
      <3> QED BY <2>1, <2>11, <3>1, <3>2, <3>3
    <2>13. B \in SUBSET Ids
      BY <2>2 DEF B
    <2>14. color[b] # "black"
      BY <1>6 DEF Black
    <2> QED BY <1>1, <1>2, <2>1, <2>6, <2>7, <2>8, <2>10, <2>12, <2>13, <2>14, EnterLemma, Zenon
  <1>7. CASE ~Black(b) /\ blocks[b].table = <<>> /\ blocks[b].body # Null
    <2> DEFINE j0 == blocks[b].jump[1]
               x == <<[pc |-> "code", b |-> b], Enter(blocks[b].body)>>
    <2>1. /\ color' = [color EXCEPT ![b] = "black"]
          /\ code' = EmitJmp(Append(code, Label(b)), j0)
          /\ work' = Below \o x
      BY <1>7 DEF EnterBlock
    <2>2. j0 \in Ids /\ blocks[b].body \in Ids
      BY <1>2, <1>7, GraphLemma
    <2>3. Append(code, Label(b)) \in Seq(Code)
      BY <1>2, <1>4
    <2>4. PICK t \in Seq(Code) : /\ EmitJmp(Append(code, Label(b)), j0) = Append(code, Label(b)) \o t
                                 /\ RefersTo(t, {j0})
      BY <1>2, <2>2, <2>3, EmitJmpLemma
    <2>5. x \in Seq(Frames) /\ DOMAIN x = 1 .. 2 /\ x[1] = [pc |-> "code", b |-> b]
          /\ x[2] = Enter(blocks[b].body)
      BY <1>2, <2>2 DEF Frames, Enter
    <2> HIDE DEF x
    <2>6. Promised(x, j0)
      BY <1>7, <2>5 DEF Promised, Promises
    <2>7. \A k \in DOMAIN x : x[k].pc # "next"
      BY <2>5 DEF Enter
    <2>8. color[b] # "black" /\ {j0} \in SUBSET Ids
      BY <1>7, <2>2 DEF Black
    <2>9. \A y \in {j0} : color'[y] = "black" \/ Promised(x, y)
      BY <2>6
    <2>10. code' = Append(code, Label(b)) \o t
      BY <2>1, <2>4
    <2> HIDE DEF j0
    <2> QED BY <1>1, <1>2, <2>1, <2>4, <2>5, <2>7, <2>8, <2>9, <2>10, EnterLemma
  <1>8. CASE ~Black(b) /\ blocks[b].table = <<>> /\ blocks[b].body = Null
    <2> DEFINE x == <<[pc |-> "code", b |-> b]>>
    <2>1. /\ color' = [color EXCEPT ![b] = "black"]
          /\ code' = Append(code, Label(b))
          /\ work' = Append(Below, [pc |-> "code", b |-> b])
      BY <1>8 DEF EnterBlock
    <2>2. [pc |-> "code", b |-> b] \in Frames
      BY <1>2 DEF Frames
    <2>3. x \in Seq(Frames) /\ work' = Below \o x
      BY <1>2, <2>1, <2>2, AppendIsConcat
    <2>4. \A k \in DOMAIN x : x[k].pc # "next"
      OBVIOUS
    <2>5. Append(code, Label(b)) \in Seq(Code)
      BY <1>2, <1>4
    <2>6. <<>> \in Seq(Code) /\ code' = Append(code, Label(b)) \o <<>>
      BY <2>1, <2>5, ConcatEmptySeq
    <2>7. RefersTo(<<>>, {}) /\ color[b] # "black"
      BY <1>8, SingleReferences DEF Black
    <2> HIDE DEF x
    <2>8. {} \in SUBSET Ids /\ \A y \in {} : color'[y] = "black" \/ Promised(x, y)
      OBVIOUS
    <2> QED BY <1>1, <1>2, <2>1, <2>3, <2>4, <2>6, <2>7, <2>8, EnterLemma
  <1> QED BY <1>5, <1>6, <1>7, <1>8

\* One call in place of the running one.
LEMMA OneCall ==
    ASSUME NEW b \in Ids, NEW w \in Seq(Frames)
    PROVE  /\ <<Enter(b)>> \in Seq(Frames) /\ Append(w, Enter(b)) = w \o <<Enter(b)>>
           /\ Promised(<<Enter(b)>>, b)
           /\ \A k \in DOMAIN <<Enter(b)>> :
                <<Enter(b)>>[k].pc = "next" => blocks[<<Enter(b)>>[k].b].jump[2] # Null
  <1>1. Enter(b) \in Frames /\ Enter(b).pc = "enter"
    BY DEF Enter, Frames
  <1>2. Promises(Enter(b), b)
    BY DEF Promises, Enter
  <1>3. 1 \in DOMAIN <<Enter(b)>> /\ <<Enter(b)>>[1] = Enter(b)
    OBVIOUS
  <1>4. Promised(<<Enter(b)>>, b)
    BY <1>2, <1>3 DEF Promised
  <1>5. Append(w, Enter(b)) = w \o <<Enter(b)>>
    BY <1>1, AppendIsConcat
  <1>6. \A k \in DOMAIN <<Enter(b)>> : <<Enter(b)>>[k].pc = "enter"
    BY <1>1
  <1> QED BY <1>1, <1>4, <1>5, <1>6

\* No call in place of the running one.
LEMMA NoCall ==
    ASSUME NEW w \in Seq(Frames)
    PROVE  /\ <<>> \in Seq(Frames) /\ w = w \o <<>>
           /\ \A k \in DOMAIN <<>> : <<>>[k].pc = "next" => blocks[<<>>[k].b].jump[2] # Null
  BY ConcatEmptySeq

\* The statements of a block with at most one successor: that is black and
\* jumped to, or entered next.
LEMMA EmitCodeInv ==
    ASSUME LabelInv, EmitCode
    PROVE  LabelInv'
  <1> DEFINE b == Top.b
             j0 == blocks[b].jump[1]
             emitted == code \o Statements(b)
  <1>1. /\ work # <<>> /\ Top.pc = "code" /\ blocks' = blocks /\ color' = color
    BY DEF EmitCode, EmitKeep
  <1>2. /\ blocks \in Graphs /\ Top \in Frames /\ b \in Ids
        /\ code \in Seq(Code) /\ Below \in Seq(Frames)
    BY <1>1, TopLemma
  <1>3. \A B : Statements(b) \in Seq(Code) /\ RefersTo(Statements(b), B)
    BY <1>2, StatementsLemma
  <1>4. emitted \in Seq(Code)
    BY <1>2, <1>3, ConcatEntries
  <1>5. j0 \in Ids \cup {Null} /\ (blocks[b].body # Null => j0 # Null)
    BY <1>2, GraphLemma
  <1>6. blocks[b].body = Null => \A y : ~Promises(Top, y)
    BY <1>1 DEF Promises
  <1>7. \A y : Promises(Top, y) => y = j0
    BY <1>1 DEF Promises
  <1> HIDE DEF b, j0
  <1>8. CASE /\ blocks[b].body # Null
             /\ code' = emitted /\ work' = Append(Below, Enter(j0))
    <2>1. j0 \in Ids
      BY <1>5, <1>8
    <2>2. work' = Below \o <<Enter(j0)>> /\ <<Enter(j0)>> \in Seq(Frames)
      BY <1>2, <1>8, <2>1, OneCall
    <2>3. /\ \A k \in DOMAIN <<Enter(j0)>> :
               <<Enter(j0)>>[k].pc = "next" => blocks[<<Enter(j0)>>[k].b].jump[2] # Null
          /\ \A y \in {} : color[y] = "black" \/ Promised(<<Enter(j0)>>, y)
          /\ \A y \in Ids : Promises(Top, y) => color[y] = "black" \/ Promised(<<Enter(j0)>>, y)
          /\ {} \in SUBSET Ids
      BY <1>2, <1>7, <2>1, OneCall
    <2>4. RefersTo(Statements(b), {}) /\ Statements(b) \in Seq(Code)
      BY <1>3
    <2> QED BY <1>1, <1>8, <2>2, <2>3, <2>4, StepLemma
  <1>9. CASE /\ blocks[b].body = Null
             /\ code' = Append(emitted, Ret(b)) /\ work' = Below
    <2>1. Ret(b) \in Code
      BY <1>2, InstructionTypes DEF b
    <2>2. <<Ret(b)>> \in Seq(Code) /\ RefersTo(<<Ret(b)>>, {})
      <3>1. RefersTo(<<Ret(b)>>, {})
        BY SingleReferences
      <3> QED BY <2>1, <3>1
    <2>3. /\ Statements(b) \o <<Ret(b)>> \in Seq(Code)
          /\ RefersTo(Statements(b) \o <<Ret(b)>>, {})
      BY <1>3, <2>2, RefersToConcat
    <2>4. code' = code \o (Statements(b) \o <<Ret(b)>>)
      <3>1. code' = emitted \o <<Ret(b)>>
        BY <1>4, <1>9, <2>1, AppendIsConcat
      <3>2. (code \o Statements(b)) \o <<Ret(b)>> = code \o (Statements(b) \o <<Ret(b)>>)
        <4>1. Regroups(code, Statements(b), <<Ret(b)>>)
          BY <1>2, <1>3, <2>2, CodeAssociative
        <4> QED BY <4>1 DEF Regroups
      <3> QED BY <3>1, <3>2
    <2>5. work' = Below \o <<>> /\ <<>> \in Seq(Frames)
          /\ \A k \in DOMAIN <<>> : <<>>[k].pc = "next" => blocks[<<>>[k].b].jump[2] # Null
      BY <1>2, <1>9, NoCall
    <2>6. /\ \A y \in {} : color[y] = "black" \/ Promised(<<>>, y)
          /\ \A y \in Ids : Promises(Top, y) => color[y] = "black" \/ Promised(<<>>, y)
          /\ {} \in SUBSET Ids
      BY <1>6, <1>9
    <2> QED BY <1>1, <2>3, <2>4, <2>5, <2>6, StepLemma
  <1>10. CASE /\ blocks[b].body = Null /\ j0 # Null /\ Black(j0)
              /\ code' = EmitJmp(emitted, j0) /\ work' = Below
    <2>1. j0 \in Ids /\ {j0} \in SUBSET Ids
      BY <1>5, <1>10
    <2>2. PICK t \in Seq(Code) : EmitJmp(emitted, j0) = emitted \o t /\ RefersTo(t, {j0})
      BY <1>2, <1>4, <2>1, EmitJmpLemma
    <2>3. Statements(b) \o t \in Seq(Code) /\ RefersTo(Statements(b) \o t, {j0})
      BY <1>3, <2>2, RefersToConcat
    <2>4. code' = code \o (Statements(b) \o t)
      <3>1. (code \o Statements(b)) \o t = code \o (Statements(b) \o t)
        <4>1. Regroups(code, Statements(b), t)
          BY <1>2, <1>3, CodeAssociative
        <4> QED BY <4>1 DEF Regroups
      <3> QED BY <1>10, <2>2, <3>1
    <2>5. work' = Below \o <<>> /\ <<>> \in Seq(Frames)
          /\ \A k \in DOMAIN <<>> : <<>>[k].pc = "next" => blocks[<<>>[k].b].jump[2] # Null
      BY <1>2, <1>10, NoCall
    <2>6. /\ \A y \in {j0} : color[y] = "black" \/ Promised(<<>>, y)
          /\ \A y \in Ids : Promises(Top, y) => color[y] = "black" \/ Promised(<<>>, y)
      BY <1>6, <1>10 DEF Black
    <2> QED BY <1>1, <2>1, <2>3, <2>4, <2>5, <2>6, StepLemma
  <1>11. CASE /\ blocks[b].body = Null /\ j0 # Null
              /\ code' = emitted /\ work' = Append(Below, Enter(j0))
    <2>1. j0 \in Ids
      BY <1>5, <1>11
    <2>2. work' = Below \o <<Enter(j0)>> /\ <<Enter(j0)>> \in Seq(Frames)
      BY <1>2, <1>11, <2>1, OneCall
    <2>3. /\ \A k \in DOMAIN <<Enter(j0)>> :
               <<Enter(j0)>>[k].pc = "next" => blocks[<<Enter(j0)>>[k].b].jump[2] # Null
          /\ \A y \in {} : color[y] = "black" \/ Promised(<<Enter(j0)>>, y)
          /\ \A y \in Ids : Promises(Top, y) => color[y] = "black" \/ Promised(<<Enter(j0)>>, y)
          /\ {} \in SUBSET Ids
      BY <1>2, <1>7, <2>1, OneCall
    <2>4. RefersTo(Statements(b), {}) /\ Statements(b) \in Seq(Code)
      BY <1>3
    <2> QED BY <1>1, <1>11, <2>2, <2>3, <2>4, StepLemma
  <1> QED BY <1>8, <1>9, <1>10, <1>11 DEF EmitCode, b, j0

\* The statements, the condition and the jumps of a branch, and the calls for
\* those of its successors that are not emitted.
LEMMA EmitBranchInv ==
    ASSUME LabelInv, EmitBranch
    PROVE  LabelInv'
  <1> DEFINE b == Top.b
             j0 == blocks[b].jump[1]
             j1 == blocks[b].jump[2]
             back == Black(j1) /\ ~Black(j0)
             head == Statements(b) \o <<Cond(b)>>
             tail == head \o BranchCode(b, back)
             B == {j0, j1}
  <1>1. /\ work # <<>> /\ Top.pc = "code" /\ blocks' = blocks /\ color' = color /\ IsTwoWay(b)
    BY DEF EmitBranch, EmitKeep
  <1>2. /\ blocks \in Graphs /\ Top \in Frames /\ b \in Ids
        /\ code \in Seq(Code) /\ Below \in Seq(Frames)
    BY <1>1, TopLemma
  <1>3. j0 \in Ids /\ j1 \in Ids
    BY <1>1, <1>2, GraphLemma DEF IsTwoWay
  <1>4. Statements(b) \in Seq(Code) /\ RefersTo(Statements(b), B)
    BY <1>2, StatementsLemma
  <1>5. <<Cond(b)>> \in Seq(Code) /\ RefersTo(<<Cond(b)>>, B)
    <2>1. Cond(b) \in Code
      BY <1>2, InstructionTypes
    <2>2. RefersTo(<<Cond(b)>>, B)
      <3> HIDE DEF B
      <3> QED BY SingleReferences
    <2> QED BY <2>1, <2>2
  <1>6. BranchCode(b, back) \in Seq(Code) /\ RefersTo(BranchCode(b, back), B)
    BY <1>1, <1>2, BranchLemma
  <1>7. \A y : ~Promises(Top, y)
    BY <1>1 DEF Promises, IsTwoWay
  <1>8. /\ Jmp(j1) \in Code /\ <<Jmp(j1)>> \in Seq(Code) /\ RefersTo(<<Jmp(j1)>>, B)
    <2>1. Jmp(j1) \in Code
      BY <1>2, <1>3, InstructionTypes
    <2>2. RefersTo(<<Jmp(j1)>>, B)
      BY SingleReferences
    <2> QED BY <2>1, <2>2
  <1>9. B \in SUBSET Ids
    BY <1>3
  <1>10. \/ /\ Black(j1) /\ work' = Append(Below, Enter(j0))
            /\ \/ code' = code \o Statements(b) \o <<Cond(b)>> \o BranchCode(b, back)
               \/ code' = Append(code \o Statements(b) \o <<Cond(b)>> \o BranchCode(b, back), Jmp(j1))
         \/ /\ work' = Below \o <<Enter(j0), Enter(j1)>>
            /\ code' = code \o Statements(b) \o <<Cond(b)>> \o BranchCode(b, back)
    BY Zenon DEF EmitBranch
  <1>11. head \in Seq(Code) /\ RefersTo(head, B)
    BY <1>4, <1>5, RefersToConcat
  <1> HIDE DEF B, b, j0, j1, back
  <1>12. tail \in Seq(Code) /\ RefersTo(tail, B)
    <2> HIDE DEF head
    <2> QED BY <1>6, <1>11, RefersToConcat
  <1>13. code \o Statements(b) \o <<Cond(b)>> \o BranchCode(b, back) = code \o tail
    <2>1. (code \o Statements(b)) \o <<Cond(b)>> = code \o head
      <3>1. Regroups(code, Statements(b), <<Cond(b)>>)
        BY <1>2, <1>4, <1>5, CodeAssociative
      <3> QED BY <3>1 DEF Regroups
    <2> HIDE DEF head
    <2>2. (code \o head) \o BranchCode(b, back) = code \o (head \o BranchCode(b, back))
      <3>1. Regroups(code, head, BranchCode(b, back))
        BY <1>2, <1>6, <1>11, CodeAssociative
      <3> QED BY <3>1 DEF Regroups
    <2> QED BY <2>1, <2>2
  <1> HIDE DEF head, tail
  <1>14. tail \o <<Jmp(j1)>> \in Seq(Code) /\ RefersTo(tail \o <<Jmp(j1)>>, B)
    BY <1>8, <1>12, RefersToConcat
  <1>15. Append(code \o tail, Jmp(j1)) = code \o (tail \o <<Jmp(j1)>>)
    <2>1. code \o tail \in Seq(Code)
      BY <1>2, <1>12, ConcatEntries
    <2>2. Append(code \o tail, Jmp(j1)) = (code \o tail) \o <<Jmp(j1)>>
      BY <1>8, <2>1, AppendIsConcat
    <2>3. (code \o tail) \o <<Jmp(j1)>> = code \o (tail \o <<Jmp(j1)>>)
      <3>1. Regroups(code, tail, <<Jmp(j1)>>)
        BY <1>2, <1>8, <1>12, CodeAssociative
      <3> QED BY <3>1 DEF Regroups
    <2> QED BY <2>2, <2>3
  <1>16. PICK s \in Seq(Code) : RefersTo(s, B) /\ code' = code \o s
    BY <1>10, <1>12, <1>13, <1>14, <1>15
  <1>17. CASE Black(j1) /\ work' = Append(Below, Enter(j0))
    <2>1. work' = Below \o <<Enter(j0)>> /\ <<Enter(j0)>> \in Seq(Frames)
      BY <1>2, <1>3, <1>17, OneCall
    <2>2. /\ \A k \in DOMAIN <<Enter(j0)>> :
               <<Enter(j0)>>[k].pc = "next" => blocks[<<Enter(j0)>>[k].b].jump[2] # Null
          /\ \A y \in B : color[y] = "black" \/ Promised(<<Enter(j0)>>, y)
          /\ \A y \in Ids : Promises(Top, y) => color[y] = "black" \/ Promised(<<Enter(j0)>>, y)
      BY <1>2, <1>3, <1>7, <1>17, OneCall DEF B, Black
    <2> QED BY <1>1, <1>9, <1>16, <2>1, <2>2, StepLemma
  <1>18. CASE work' = Below \o <<Enter(j0), Enter(j1)>>
    <2> DEFINE x == <<Enter(j0), Enter(j1)>>
    <2>1. Enter(j0) \in Frames /\ Enter(j1) \in Frames
      BY <1>2, <1>3, InstructionTypes
    <2>2. /\ x \in Seq(Frames) /\ DOMAIN x = 1 .. 2 /\ 1 \in DOMAIN x /\ 2 \in DOMAIN x
          /\ x[1] = Enter(j0) /\ x[2] = Enter(j1)
          /\ \A k \in DOMAIN x : x[k] = Enter(j0) \/ x[k] = Enter(j1)
      BY <2>1
    <2> HIDE DEF x
    <2>3. \A y : Enter(y).pc # "next" /\ Promises(Enter(y), y)
      BY DEF Enter, Promises
    <2>4. /\ \A k \in DOMAIN x : x[k].pc = "next" => blocks[x[k].b].jump[2] # Null
          /\ \A y \in B : color[y] = "black" \/ Promised(x, y)
          /\ \A y \in Ids : Promises(Top, y) => color[y] = "black" \/ Promised(x, y)
      <3>1. Promised(x, j0) /\ Promised(x, j1)
        BY <2>2, <2>3 DEF Promised
      <3> QED BY <1>7, <2>2, <2>3, <3>1 DEF B
    <2>5. work' = Below \o x
      BY <1>18 DEF x
    <2> QED BY <1>1, <1>9, <1>16, <2>2, <2>4, <2>5, StepLemma
  <1> QED BY <1>10, <1>17, <1>18

\* The statements, the condition and the jump of a branch of the virtual
\* machine; the call that remains will see to the second successor.
LEMMA EmitVMBranchInv ==
    ASSUME LabelInv, EmitVMBranch
    PROVE  LabelInv'
  <1> DEFINE b == Top.b
             j0 == blocks[b].jump[1]
             j1 == blocks[b].jump[2]
             next == [pc |-> "next", b |-> b]
             pair == <<Cond(b), Jnz(j1)>>
             tail == Statements(b) \o pair
             B == {j0, j1}
  <1>1. /\ work # <<>> /\ Top.pc = "code" /\ blocks' = blocks /\ color' = color /\ IsTwoWay(b)
    BY DEF EmitVMBranch, EmitKeep
  <1>2. /\ blocks \in Graphs /\ Top \in Frames /\ b \in Ids
        /\ code \in Seq(Code) /\ Below \in Seq(Frames)
    BY <1>1, TopLemma
  <1>3. j0 \in Ids /\ j1 \in Ids /\ blocks[b].jump[2] # Null
    BY <1>1, <1>2, GraphLemma DEF IsTwoWay
  <1>4. Statements(b) \in Seq(Code) /\ RefersTo(Statements(b), B)
    BY <1>2, StatementsLemma
  <1>5. pair \in Seq(Code) /\ RefersTo(pair, B)
    <2>1. Cond(b) \in Code /\ Jnz(j1) \in Code
      BY <1>2, <1>3, InstructionTypes
    <2>2. RefersTo(<<Cond(b)>>, B)
      <3> HIDE DEF B
      <3> QED BY SingleReferences
    <2>3. RefersTo(<<Jnz(j1)>>, B)
      BY SingleReferences
    <2>4. <<Cond(b)>> \in Seq(Code) /\ <<Jnz(j1)>> \in Seq(Code) /\ pair = <<Cond(b)>> \o <<Jnz(j1)>>
      BY <2>1
    <2> HIDE DEF pair
    <2> QED BY <2>2, <2>3, <2>4, RefersToConcat
  <1>6. \A y : ~Promises(Top, y)
    BY <1>1 DEF Promises, IsTwoWay
  <1>7. \/ /\ Black(j0) /\ code' = EmitJmp((code \o Statements(b)) \o pair, j0)
           /\ work' = Append(Below, next)
        \/ /\ code' = (code \o Statements(b)) \o pair
           /\ work' = Append(Append(Below, next), Enter(j0))
    BY DEF EmitVMBranch
  <1>8. B \in SUBSET Ids
    BY <1>3
  <1>9. next \in Frames /\ Enter(j0) \in Frames
    BY <1>2, <1>3 DEF Frames, Enter
  <1>10. Promises(next, j1) /\ Promises(Enter(j0), j0) /\ blocks[next.b].jump[2] # Null
         /\ Enter(j0).pc # "next"
    BY <1>3 DEF Promises, Enter
  <1> HIDE DEF B, b, j0, j1, next, pair
  <1>11. tail \in Seq(Code) /\ RefersTo(tail, B)
    BY <1>4, <1>5, RefersToConcat
  <1>12. (code \o Statements(b)) \o pair = code \o tail
    <2>1. Regroups(code, Statements(b), pair)
      BY <1>2, <1>4, <1>5, CodeAssociative
    <2> QED BY <2>1 DEF Regroups
  <1> HIDE DEF tail
  <1>13. code \o tail \in Seq(Code)
    BY <1>2, <1>11, ConcatEntries
  <1>14. CASE Black(j0) /\ code' = EmitJmp(code \o tail, j0) /\ work' = Append(Below, next)
    <2> DEFINE x == <<next>>
    <2>1. PICK t \in Seq(Code) : EmitJmp(code \o tail, j0) = (code \o tail) \o t /\ RefersTo(t, B)
      <3>1. j0 \in B
        BY DEF B
      <3> QED BY <1>2, <1>3, <1>13, <3>1, EmitJmpLemma
    <2>2. tail \o t \in Seq(Code) /\ RefersTo(tail \o t, B)
      BY <1>11, <2>1, RefersToConcat
    <2>3. code' = code \o (tail \o t)
      <3>1. Regroups(code, tail, t)
        BY <1>2, <1>11, <1>14, <2>1, CodeAssociative
      <3> QED BY <1>2, <1>11, <1>14, <2>1, <3>1 DEF Regroups
    <2>4. x \in Seq(Frames) /\ DOMAIN x = {1} /\ x[1] = next
      BY <1>9
    <2>5. work' = Below \o x
      BY <1>2, <1>9, <1>14, AppendIsConcat
    <2> HIDE DEF x
    <2>6. Promised(x, j1)
      BY <1>10, <2>4 DEF Promised
    <2>7. \A y \in B : color[y] = "black" \/ Promised(x, y)
      BY <1>14, <2>6 DEF B, Black
    <2>8. \A k \in DOMAIN x : x[k].pc = "next" => blocks[x[k].b].jump[2] # Null
      BY <1>10, <2>4
    <2> QED BY <1>1, <1>6, <1>8, <2>2, <2>3, <2>4, <2>5, <2>7, <2>8, StepLemma
  <1>15. CASE code' = code \o tail /\ work' = Append(Append(Below, next), Enter(j0))
    <2> DEFINE x == <<next>> \o <<Enter(j0)>>
    <2>1. x \in Seq(Frames) /\ DOMAIN x = {1, 2} /\ x[1] = next /\ x[2] = Enter(j0)
      BY <1>9
    <2>2. work' = Below \o x
      <3>1. Append(Below, next) = Below \o <<next>> /\ Append(Below, next) \in Seq(Frames)
        BY <1>2, <1>9, AppendIsConcat
      <3>2. work' = (Below \o <<next>>) \o <<Enter(j0)>>
        BY <1>9, <1>15, <3>1, AppendIsConcat
      <3>3. <<next>> \in Seq(Frames) /\ <<Enter(j0)>> \in Seq(Frames)
        BY <1>9
      <3> QED BY <1>2, <3>2, <3>3, ConcatAssociative
    <2> HIDE DEF x
    <2>3. Promised(x, j1) /\ Promised(x, j0)
      BY <1>10, <2>1 DEF Promised
    <2>4. \A y \in B : color[y] = "black" \/ Promised(x, y)
      BY <2>3 DEF B
    <2>5. \A k \in DOMAIN x : x[k].pc = "next" => blocks[x[k].b].jump[2] # Null
      BY <1>10, <2>1
    <2> QED BY <1>1, <1>6, <1>8, <1>11, <1>15, <2>1, <2>2, <2>4, <2>5, StepLemma
  <1> QED BY <1>7, <1>12, <1>14, <1>15

\* What remains of a branch of the virtual machine: a jump to the second
\* successor, or the call that emits it.
LEMMA EmitVMNextInv ==
    ASSUME LabelInv, EmitVMNext
    PROVE  LabelInv'
  <1> DEFINE b == Top.b
             j1 == blocks[b].jump[2]
  <1>1. /\ work # <<>> /\ Top.pc = "next" /\ blocks' = blocks /\ color' = color
    BY DEF EmitVMNext, EmitKeep
  <1>2. /\ blocks \in Graphs /\ Top \in Frames /\ b \in Ids
        /\ code \in Seq(Code) /\ Below \in Seq(Frames)
    BY <1>1, TopLemma
  <1>3. j1 # Null
    <2>1. work \in Seq(Frames) /\ Top = work[Len(work)] /\ Len(work) \in DOMAIN work
      <3>1. work \in Seq(Frames)
        BY DEF LabelInv, TypeInv
      <3>2. Len(work) \in Nat /\ Len(work) > 0 /\ DOMAIN work = 1 .. Len(work)
        BY <1>1, <3>1, LenProperties, EmptySeq
      <3>3. Top = work[Len(work)]
        BY <1>1, <3>1, FrontLast DEF Top
      <3> QED BY <3>1, <3>2, <3>3
    <2> QED BY <1>1, <2>1 DEF LabelInv, TypeInv
  <1>4. j1 \in Ids
    BY <1>2, <1>3, GraphLemma
  <1>5. \A y : Promises(Top, y) => y = j1
    BY <1>1 DEF Promises
  <1>6. \/ Black(j1) /\ code' = EmitJmp(code, j1) /\ work' = Below
        \/ work' = Append(Below, Enter(j1)) /\ code' = code
    BY DEF EmitVMNext
  <1> HIDE DEF b, j1
  <1>7. CASE Black(j1) /\ code' = EmitJmp(code, j1) /\ work' = Below
    <2>1. PICK t \in Seq(Code) : EmitJmp(code, j1) = code \o t /\ RefersTo(t, {j1})
      BY <1>2, <1>4, EmitJmpLemma
    <2>2. work' = Below \o <<>> /\ <<>> \in Seq(Frames)
          /\ \A k \in DOMAIN <<>> : <<>>[k].pc = "next" => blocks[<<>>[k].b].jump[2] # Null
      BY <1>2, <1>7, NoCall
    <2>3. /\ \A y \in {j1} : color[y] = "black" \/ Promised(<<>>, y)
          /\ \A y \in Ids : Promises(Top, y) => color[y] = "black" \/ Promised(<<>>, y)
          /\ {j1} \in SUBSET Ids
      BY <1>4, <1>5, <1>7 DEF Black
    <2>4. code' = code \o t
      BY <1>7, <2>1
    <2> QED BY <1>1, <2>1, <2>2, <2>3, <2>4, StepLemma
  <1>8. CASE work' = Append(Below, Enter(j1)) /\ code' = code
    <2>1. work' = Below \o <<Enter(j1)>> /\ <<Enter(j1)>> \in Seq(Frames)
      BY <1>2, <1>4, <1>8, OneCall
    <2>2. /\ \A k \in DOMAIN <<Enter(j1)>> :
               <<Enter(j1)>>[k].pc = "next" => blocks[<<Enter(j1)>>[k].b].jump[2] # Null
          /\ \A y \in {} : color[y] = "black" \/ Promised(<<Enter(j1)>>, y)
          /\ \A y \in Ids : Promises(Top, y) => color[y] = "black" \/ Promised(<<Enter(j1)>>, y)
          /\ {} \in SUBSET Ids
      BY <1>2, <1>4, <1>5, OneCall
    <2>3. code' = code \o <<>> /\ <<>> \in Seq(Code)
      BY <1>2, <1>8, ConcatEmptySeq
    <2>4. RefersTo(<<>>, {})
      BY SingleReferences
    <2> QED BY <1>1, <2>1, <2>2, <2>3, <2>4, StepLemma
  <1> QED BY <1>6, <1>7, <1>8

\* Steps that leave the graph, the colors and the calls alone and emit at most
\* a return keep what is labelled.
LEMMA ClosedInv ==
    ASSUME LabelInv, blocks' = blocks, color' = color, work' = work,
           code' = code \/ code' = Append(code, Ret(Null))
    PROVE  LabelInv'
  <1>1. /\ blocks \in Graphs /\ code \in Seq(Code) /\ LabelsOnce(code)
        /\ Labelled(code, color) /\ Covered(code, color, work)
    BY DEF LabelInv, TypeInv
  <1>2. PICK s \in Seq(Code) : code' = code \o s /\ RefersTo(s, {})
    <2>1. CASE code' = code
      <3>1. code' = code \o <<>> /\ <<>> \in Seq(Code)
        BY <1>1, <2>1, ConcatEmptySeq
      <3>2. RefersTo(<<>>, {})
        BY SingleReferences
      <3> QED BY <3>1, <3>2
    <2>2. CASE code' = Append(code, Ret(Null))
      <3>1. Ret(Null) \in Code
        BY DEF Ret, Instr, Code, Opcodes, Flagged
      <3>2. code' = code \o <<Ret(Null)>> /\ <<Ret(Null)>> \in Seq(Code)
        BY <1>1, <2>2, <3>1, AppendIsConcat
      <3>3. RefersTo(<<Ret(Null)>>, {})
        BY SingleReferences
      <3> QED BY <3>2, <3>3
    <2> QED BY <2>1, <2>2
  <1>3. /\ code' \in Seq(Code) /\ LabelsOnce(code')
        /\ \A b : HasLabel(code', b) <=> HasLabel(code, b)
    BY <1>1, <1>2, ExtendPlain
  <1>4. Labelled(code', color')
    BY <1>1, <1>3 DEF Labelled
  <1>5. Covered(code', color', work')
    <2> SUFFICES ASSUME NEW i \in DOMAIN code', Refers(code'[i])
                 PROVE  code'[i].b \in Ids /\ (color[code'[i].b] = "black" \/ Promised(work, code'[i].b))
      BY DEF Covered
    <2>1. CASE i \in DOMAIN code
      BY <1>1, <1>2, <2>1, ConcatEntries DEF Covered
    <2>2. CASE i - Len(code) \in DOMAIN s /\ code'[i] = s[i - Len(code)]
      BY <1>2, <2>2 DEF RefersTo
    <2> QED BY <1>1, <1>2, <2>1, <2>2, ConcatEntries
  <1>6. TypeInv'
    BY <1>3 DEF LabelInv, TypeInv, Ids, Code, Frames
  <1>7. Labelled(code, color)'
    BY <1>4 DEF Labelled, Ids
  <1>8. Covered(code, color, work)'
    BY <1>5, CoveredNext
  <1> QED BY <1>3, <1>6, <1>7, <1>8 DEF LabelInv

\* Nothing is emitted at first, and the first block will be.
LEMMA InitInv ==
    ASSUME Init
    PROVE  LabelInv
  <1>1. blocks \in Graphs /\ code = <<>> /\ work = <<Enter(1)>> /\ color = [b \in DOMAIN blocks |-> "white"]
    BY DEF Init
  <1>2. DOMAIN blocks = Ids /\ 1 \in Ids
    BY <1>1, GraphLemma DEF Ids
  <1>3. color \in [Ids -> {"white", "black"}] /\ \A b \in Ids : color[b] = "white"
    BY <1>1, <1>2
  <1>4. Enter(1) \in Frames /\ Enter(1).pc = "enter"
    BY <1>2 DEF Enter, Frames
  <1>5. work \in Seq(Frames) /\ \A k \in DOMAIN work : work[k].pc = "enter"
    BY <1>1, <1>4
  <1>6. code \in Seq(Code) /\ DOMAIN code = {}
    BY <1>1
  <1>7. TypeInv
    BY <1>1, <1>3, <1>5, <1>6 DEF TypeInv
  <1>8. LabelsOnce(code) /\ Labelled(code, color) /\ Covered(code, color, work)
    BY <1>3, <1>6 DEF LabelsOnce, Labelled, HasLabel, Covered
  <1> QED BY <1>7, <1>8 DEF LabelInv

\* Every step keeps it.
LEMMA NextInv ==
    ASSUME LabelInv, [Next]_emission
    PROVE  LabelInv'
  <1>1. CASE Resolve
    <2>1. code' = code \/ code' = Append(code, Ret(Null))
      BY <1>1 DEF Resolve, Closed
    <2> QED BY <1>1, <2>1, ClosedInv DEF Resolve
  <1>2. CASE OptimizeJump
    BY <1>2, ClosedInv DEF OptimizeJump
  <1>3. CASE UNCHANGED emission
    BY <1>3, ClosedInv DEF emission
  <1> QED BY <1>1, <1>2, <1>3, EnterBlockInv, EmitCodeInv, EmitBranchInv, EmitVMBranchInv,
             EmitVMNextInv DEF Next

\* When no call is under way, nothing is promised: what is referred to is black
\* and so has its label.
LEMMA InvJumps ==
    ASSUME LabelInv
    PROVE  JumpsLabelled
  <1>1. LabelsOnce(code) /\ Labelled(code, color) /\ Covered(code, color, work)
    BY DEF LabelInv
  <1>2. Emitted => \A b : ~Promised(work, b)
    BY DEF Emitted, Promised
  <1> QED BY <1>1, <1>2 DEF JumpsLabelled, Labelled, Covered

\* For every flow graph, in the code of compile_block and of vm_gen_node: a
\* block is labelled at most once, and when the walk is over every jump and
\* every entry of a table has the label it refers to, also after vm_gen_lir
\* has closed the code and jump_optimization has shortened its jumps.
THEOREM EveryJumpLabelled == Spec => []JumpsLabelled
  <1>1. Init => LabelInv
    BY InitInv
  <1>2. LabelInv /\ [Next]_emission => LabelInv'
    BY NextInv
  <1>3. LabelInv => JumpsLabelled
    BY InvJumps
  <1> QED BY <1>1, <1>2, <1>3, PTL DEF Spec

---------------------------------------------------------------------------
(* Code that goes on.                                                      *)

\* The code d prolongs the code c: what was there stays, and where the block
\* next was to come there is now a way to it.
Prolongs(c, next, d, nx) ==
    /\ Len(c) <= Len(d)
    /\ \A p \in DOMAIN c : IsAt(d, p, c[p])
    /\ next # Null => LeadsTo(d, nx, Len(c) + 1, next)

\* What follows an instruction still follows it in code that goes on.
LEMMA ProlongLemma ==
    ASSUME NEW c \in Seq(Code), NEW d \in Seq(Code), NEW next, NEW nx,
           Prolongs(c, next, d, nx), NEW i \in DOMAIN c, Follows(c, next, i)
    PROVE  Follows(d, nx, i)
  <1>1. /\ \A p \in DOMAIN c : p \in DOMAIN d /\ d[p] = c[p]
        /\ Len(c) \in Nat /\ Len(d) \in Nat /\ Len(c) <= Len(d)
        /\ i \in Nat /\ d[i] = c[i]
    BY LenProperties DEF Prolongs, IsAt
  <1>2. \A p, x : IsAt(c, p, x) => IsAt(d, p, x)
    BY <1>1 DEF IsAt
  <1>3. \A p, b : LeadsTo(c, next, p, b) => LeadsTo(d, nx, p, b)
    BY <1>2 DEF LeadsTo, Prolongs
  <1>4. ASSUME NEW b, NEW n, NEW p, GoesOn(c, next, b, n, p)
        PROVE  GoesOn(d, nx, b, n, p)
    BY <1>2, <1>3, <1>4 DEF GoesOn
  <1>5. ASSUME NEW p \in Nat, NEW cond, NEW o, NEW b, Decides(c, next, p, cond, o, b)
        PROVE  Decides(d, nx, p, cond, o, b)
    <2>1. PICK q \in p..Len(c) + 1 :
             /\ \A m \in p..q - 1 : Passes(c, m, cond, o)
             /\ Leaves(c, q, cond, o, b) \/ LeadsTo(c, next, q, b)
      BY <1>5 DEF Decides
    <2>2. q \in p..Len(d) + 1
      BY <1>1
    <2>3. \A m \in p..q - 1 : Passes(d, m, cond, o)
      BY <1>1, <2>1 DEF Passes
    <2>4. Leaves(d, q, cond, o, b) \/ LeadsTo(d, nx, q, b)
      BY <1>1, <1>3, <2>1 DEF Leaves
    <2> QED BY <2>2, <2>3, <2>4 DEF Decides
  <1>6. i + 1 \in Nat
    BY <1>1
  <1> QED BY <1>1, <1>2, <1>4, <1>5, <1>6 DEF Follows

\* One conditional jump, and behind it a way to y.
LEMMA OneJump ==
    ASSUME NEW d \in Seq(Code), NEW nx, NEW p \in Nat, NEW cond, NEW o, NEW y,
           p \in DOMAIN d, IsConditional(d[p]), LeadsTo(d, nx, p + 1, y)
    PROVE  /\ Jumps(d[p], cond, o) => Decides(d, nx, p, cond, o, d[p].b)
           /\ ~Jumps(d[p], cond, o) => Decides(d, nx, p, cond, o, y)
  <1>1. Len(d) \in Nat /\ p \in p..Len(d) + 1 /\ p + 1 \in p..Len(d) + 1
    BY LenProperties
  <1>2. (p..p - 1) = {} /\ (p..(p + 1) - 1) = {p}
    OBVIOUS
  <1>3. ASSUME Jumps(d[p], cond, o)
        PROVE  Decides(d, nx, p, cond, o, d[p].b)
    BY <1>1, <1>2, <1>3 DEF Decides, Leaves
  <1>4. ASSUME ~Jumps(d[p], cond, o)
        PROVE  Decides(d, nx, p, cond, o, y)
    BY <1>1, <1>2, <1>4 DEF Decides, Passes
  <1> QED BY <1>3, <1>4

\* Two conditional jumps to the same block, and behind them a way to y.
LEMMA TwoJumps ==
    ASSUME NEW d \in Seq(Code), NEW nx, NEW p \in Nat, NEW cond, NEW o, NEW y,
           p \in DOMAIN d, p + 1 \in DOMAIN d, IsConditional(d[p]), IsConditional(d[p + 1]),
           d[p].b = d[p + 1].b, LeadsTo(d, nx, p + 2, y)
    PROVE  /\ Jumps(d[p], cond, o) \/ Jumps(d[p + 1], cond, o) =>
                 Decides(d, nx, p, cond, o, d[p].b)
           /\ ~Jumps(d[p], cond, o) /\ ~Jumps(d[p + 1], cond, o) => Decides(d, nx, p, cond, o, y)
  <1>1. Len(d) \in Nat /\ p \in p..Len(d) + 1 /\ p + 1 \in p..Len(d) + 1 /\ p + 2 \in p..Len(d) + 1
    BY LenProperties
  <1>2. /\ (p..p - 1) = {} /\ (p..(p + 1) - 1) = {p} /\ (p..(p + 2) - 1) = {p, p + 1}
    OBVIOUS
  <1>3. ASSUME Jumps(d[p], cond, o)
        PROVE  Decides(d, nx, p, cond, o, d[p].b)
    BY <1>1, <1>2, <1>3 DEF Decides, Leaves
  <1>4. ASSUME ~Jumps(d[p], cond, o), Jumps(d[p + 1], cond, o)
        PROVE  Decides(d, nx, p, cond, o, d[p].b)
    BY <1>1, <1>2, <1>4 DEF Decides, Leaves, Passes
  <1>5. ASSUME ~Jumps(d[p], cond, o), ~Jumps(d[p + 1], cond, o)
        PROVE  Decides(d, nx, p, cond, o, y)
    BY <1>1, <1>2, <1>5 DEF Decides, Passes
  <1> QED BY <1>3, <1>4, <1>5

---------------------------------------------------------------------------
(* What a jump decides.                                                    *)

\* Condition codes and their negations are each other's opposites.
LEMMA NegatedLemma ==
    ASSUME NEW cc \in {"E", "NE", "A", "NA", "AE", "NAE", "G", "NG", "GE", "NGE"}, NEW f
    PROVE  Taken(Negated(cc), f) <=> ~Taken(cc, f)
  <1>1. CASE cc \in {"E", "NE"}
    BY <1>1 DEF Taken, Negated
  <1>2. CASE cc \in {"A", "NA", "AE", "NAE"}
    BY <1>2 DEF Taken, Negated
  <1>3. CASE cc \in {"G", "NG", "GE", "NGE"}
    BY <1>3 DEF Taken, Negated
  <1> QED BY <1>1, <1>2, <1>3

\* What the flags say after a comparison of numbers.
LEMMA WholeFlags ==
    ASSUME NEW c \in Conditions, ~is_real(c), NEW o \in Outcomes(c)
    PROVE  LET f == Flags(c, o)
           IN  /\ f.Z <=> o.signed = "equal"
               /\ f.Z <=> o.unsigned = "equal"
               /\ ~Exchanged(c) => (f.C <=> o.unsigned = "less") /\ (f.L <=> o.signed = "less")
               /\ Exchanged(c) => (f.C <=> o.unsigned = "greater") /\ (f.L <=> o.signed = "greater")
               /\ o.signed \in Orders /\ o.unsigned \in Orders
  <1>1. /\ o.signed \in Orders /\ o.unsigned \in Orders
        /\ o.signed = "equal" <=> o.unsigned = "equal"
    BY DEF Outcomes
  <1>2. CASE Exchanged(c)
    BY <1>1, <1>2 DEF Flags, Opposite, Orders
  <1>3. CASE ~Exchanged(c)
    BY <1>1, <1>3 DEF Flags, Orders
  <1> QED BY <1>1, <1>2, <1>3

\* The same for floating point values, which are never exchanged.
LEMMA RealFlags ==
    ASSUME NEW c \in Conditions, is_real(c), NEW o \in Outcomes(c)
    PROVE  LET f == Flags(c, o)
           IN  /\ f.Z <=> o.signed \in {"equal", "unordered"}
               /\ f.C <=> o.signed \in {"less", "unordered"}
               /\ f.P <=> o.signed = "unordered"
               /\ o.signed \in Orders \cup {"unordered"}
  <1>1. o.signed \in Orders \cup {"unordered"} /\ o.unsigned = o.signed /\ ~Exchanged(c)
    BY DEF Outcomes, Exchanged
  <1> QED BY <1>1 DEF Flags, Orders

\* The condition after a comparison holds if the comparison does.
LEMMA CompareLemma ==
    ASSUME NEW c \in Conditions, NEW o \in Outcomes(c),
           c.op # "value", is_real(c) => c.op \in {"GE", "GT"}
    PROVE  /\ compile_compare(c) \in {"E", "NE", "A", "NA", "AE", "NAE", "G", "NG", "GE", "NGE"}
           /\ Taken(compile_compare(c), Flags(c, o)) <=> Holds(c, o)
  <1> DEFINE f == Flags(c, o)
  <1>0. c.op \in {"EQ", "NE", "GE", "GT"} /\ c.type \in {"int", "unsigned", "real"}
    BY DEF Conditions
  <1>1. CASE is_real(c)
    <2>1. /\ compile_compare(c) = IF c.op = "GE" THEN "AE" ELSE "A"
          /\ ~Exchanged(c)
      BY <1>1 DEF compile_compare, Exchanged
    <2>2. c.type = "real" /\ (c.op = "GE" \/ c.op = "GT")
      BY <1>1 DEF is_real
    <2>3. /\ f.Z <=> o.signed \in {"equal", "unordered"}
          /\ f.C <=> o.signed \in {"less", "unordered"}
          /\ o.signed \in Orders \cup {"unordered"}
      BY <1>1, RealFlags
    <2> HIDE DEF f
    <2>4. Taken(compile_compare(c), f) <=> Holds(c, o)
      BY <2>1, <2>2, <2>3 DEF Taken, Holds, Orders
    <2> QED BY <2>1, <2>2, <2>4 DEF f
  <1>2. CASE ~is_real(c)
    <2>1. /\ f.Z <=> o.signed = "equal"
          /\ f.Z <=> o.unsigned = "equal"
          /\ ~Exchanged(c) => (f.C <=> o.unsigned = "less") /\ (f.L <=> o.signed = "less")
          /\ Exchanged(c) => (f.C <=> o.unsigned = "greater") /\ (f.L <=> o.signed = "greater")
          /\ o.signed \in Orders /\ o.unsigned \in Orders
      BY <1>2, WholeFlags
    <2> HIDE DEF f
    <2>2. CASE c.op = "EQ" \/ c.op = "NE"
      <3>1. compile_compare(c) = IF c.op = "EQ" THEN "E" ELSE "NE"
        BY <2>2 DEF compile_compare
      <3> QED BY <2>1, <2>2, <3>1 DEF Taken, Holds, f
    <2>3. CASE c.op \in {"GE", "GT"} /\ c.type = "unsigned"
      <3>1. /\ ~Exchanged(c) => compile_compare(c) = IF c.op = "GE" THEN "AE" ELSE "A"
            /\ Exchanged(c) => compile_compare(c) = IF c.op = "GE" THEN "NA" ELSE "NAE"
        BY <2>3 DEF compile_compare
      <3>2. Taken(compile_compare(c), f) <=> Holds(c, o)
        BY <2>1, <2>3, <3>1 DEF Taken, Holds, Orders
      <3> QED BY <2>3, <3>1, <3>2 DEF f
    <2>4. CASE c.op \in {"GE", "GT"} /\ c.type = "int"
      <3>1. /\ ~Exchanged(c) => compile_compare(c) = IF c.op = "GE" THEN "GE" ELSE "G"
            /\ Exchanged(c) => compile_compare(c) = IF c.op = "GE" THEN "NG" ELSE "NGE"
        BY <2>4 DEF compile_compare, is_real
      <3>2. Taken(compile_compare(c), f) <=> Holds(c, o)
        BY <2>1, <2>4, <3>1 DEF Taken, Holds, Orders
      <3> QED BY <2>4, <3>1, <3>2 DEF f
    <2> QED BY <1>0, <1>2, <2>2, <2>3, <2>4 DEF is_real
  <1> QED BY <1>1, <1>2

\* The value of an expression is compared with zero.
LEMMA ValueLemma ==
    ASSUME NEW c \in Conditions, NEW o \in Outcomes(c), c.op = "value", ~is_real(c)
    PROVE  Taken("NE", Flags(c, o)) <=> Holds(c, o)
  BY WholeFlags DEF Taken, Holds

\* Floating point values that are not ordered are not equal.
LEMMA UnlessLemma ==
    ASSUME NEW c \in Conditions, NEW o \in Outcomes(c), is_real(c), c.op \in {"value", "EQ", "NE"}
    PROVE  /\ c.op = "EQ" => (Taken("NE", Flags(c, o)) \/ Taken("P", Flags(c, o)) <=> ~Holds(c, o))
           /\ c.op # "EQ" => (Taken("NE", Flags(c, o)) \/ Taken("P", Flags(c, o)) <=> Holds(c, o))
  <1> DEFINE f == Flags(c, o)
  <1>1. /\ f.Z <=> o.signed \in {"equal", "unordered"}
        /\ f.P <=> o.signed = "unordered"
        /\ c.type = "real"
    BY RealFlags DEF is_real
  <1> HIDE DEF f
  <1>2. Taken("NE", f) \/ Taken("P", f) <=> o.signed # "equal"
    BY <1>1 DEF Taken
  <1>3. /\ c.op = "EQ" => (Holds(c, o) <=> o.signed = "equal")
        /\ c.op # "EQ" => (Holds(c, o) <=> o.signed # "equal")
    BY <1>1 DEF Holds
  <1> QED BY <1>2, <1>3 DEF f

---------------------------------------------------------------------------
(* The layout of the code so far.                                          *)

\* The block that will be labelled next, if the running call does that.
Coming == IF work # <<>> /\ Top.pc = "enter" /\ ~Black(Top.b) THEN Top.b ELSE Null

\* The running call is behind the label of its block.
AtLabel == work # <<>> /\ Top.pc = "code" /\ blocks[Top.b].body = Null

\* A call that waits behind a label is one for the head of a loop.
FrameInv ==
    \A k \in DOMAIN work : work[k].pc = "code" =>
        /\ blocks[work[k].b].table = <<>>
        /\ k < Len(work) => blocks[work[k].b].body # Null

\* All that is emitted is followed by what the graph has there, where the end
\* of the code counts as the block that comes next; the label that the running
\* call is behind is still open.
LayoutInv ==
    /\ LabelInv
    /\ FrameInv
    /\ AtLabel => IsAt(code, Len(code), Label(Top.b))
    /\ \A i \in DOMAIN code : Follows(code, Coming, i) \/ (AtLabel /\ i = Len(code))
    /\ IF code = <<>> THEN work = <<Enter(1)>> /\ ~Black(1) ELSE code[1] = Label(1)

\* The graph stays the same.
LEMMA FollowsNext ==
    ASSUME blocks' = blocks, NEW i, Follows(code', Coming', i)
    PROVE  Follows(code, Coming, i)'
  BY DEF Follows, GoesOn, Decides, Passes, Leaves, LeadsTo, IsTwoWay

\* A step that prolongs the code and makes sure of what it adds.
LEMMA LayoutStep ==
    ASSUME LayoutInv, LabelInv', FrameInv', blocks' = blocks,
           Prolongs(code, Coming, code', Coming'),
           AtLabel' => IsAt(code', Len(code'), Label(Top'.b)),
           \A i \in DOMAIN code' :
               \/ i \in DOMAIN code /\ ~(AtLabel /\ i = Len(code))
               \/ Follows(code', Coming', i)
               \/ AtLabel' /\ i = Len(code'),
           code = <<>> => IsAt(code', 1, Label(1)) \/ (code' = <<>> /\ work' = work /\ color' = color)
    PROVE  LayoutInv'
  <1>1. code \in Seq(Code) /\ code' \in Seq(Code)
    BY DEF LayoutInv, LabelInv, TypeInv, Code, Ids
  <1>2. ASSUME NEW i \in DOMAIN code'
        PROVE  Follows(code', Coming', i) \/ (AtLabel' /\ i = Len(code'))
    <2>1. CASE i \in DOMAIN code /\ ~(AtLabel /\ i = Len(code))
      <3>1. Follows(code, Coming, i)
        BY <2>1 DEF LayoutInv
      <3> QED BY <1>1, <2>1, <3>1, ProlongLemma
    <2> QED BY <2>1
  <1>3. \A i \in DOMAIN code' : Follows(code, Coming, i)' \/ (AtLabel' /\ i = Len(code'))
    BY <1>2, FollowsNext
  <1>0. 1 \in DOMAIN code' => code' # <<>>
    <2>1. DOMAIN <<>> = {}
      OBVIOUS
    <2> QED BY <2>1
  <1>4. (IF code = <<>> THEN work = <<Enter(1)>> /\ ~Black(1) ELSE code[1] = Label(1))'
    <2>1. CASE code = <<>>
      <3>1. CASE IsAt(code', 1, Label(1))
        BY <1>0, <3>1 DEF IsAt
      <3>2. CASE code' = <<>> /\ work' = work /\ color' = color
        BY <2>1, <3>2 DEF LayoutInv, Black, Enter
      <3> QED BY <2>1, <3>1, <3>2
    <2>2. CASE code # <<>>
      <3>1. 1 \in DOMAIN code /\ code[1] = Label(1)
        BY <1>1, <2>2, EmptySeq, LenProperties DEF LayoutInv
      <3>2. 1 \in DOMAIN code' /\ code'[1] = Label(1)
        BY <3>1 DEF Prolongs, IsAt
      <3> QED BY <1>0, <3>2
    <2> QED BY <2>1, <2>2
  <1>5. (AtLabel => IsAt(code, Len(code), Label(Top.b)))'
    BY DEF IsAt, Label, Instr
  <1> QED BY <1>3, <1>4, <1>5 DEF LayoutInv

\* The calls that take the place of the running one.
LEMMA FrameStep ==
    ASSUME LayoutInv, work # <<>>, blocks' = blocks, NEW x \in Seq(Frames), work' = Below \o x,
           \A k \in DOMAIN x : x[k].pc = "code" =>
               /\ blocks[x[k].b].table = <<>>
               /\ k < Len(x) => blocks[x[k].b].body # Null
    PROVE  /\ FrameInv'
           /\ x = <<>> => ~AtLabel'
           /\ x # <<>> => work' # <<>> /\ Top' = x[Len(x)]
  <1>1. work \in Seq(Frames)
    BY DEF LayoutInv, LabelInv, TypeInv
  <1>2. /\ Len(work) \in Nat /\ Len(work) > 0
        /\ Below \in Seq(Frames) /\ Len(Below) = Len(work) - 1
        /\ \A i \in 1 .. Len(work) - 1 : Below[i] = work[i]
    BY <1>1, FrontLast DEF Below
  <1>3. DOMAIN work = 1 .. Len(work) /\ DOMAIN Below = 1 .. Len(work) - 1
        /\ DOMAIN x = 1 .. Len(x) /\ Len(x) \in Nat
    BY <1>1, <1>2, LenProperties
  <1>4. \A k \in DOMAIN Below : Below[k].pc = "code" =>
            blocks[Below[k].b].table = <<>> /\ blocks[Below[k].b].body # Null
    <2>1. \A k \in DOMAIN Below : k \in DOMAIN work /\ k < Len(work) /\ Below[k] = work[k]
      BY <1>2, <1>3
    <2> QED BY <2>1 DEF LayoutInv, FrameInv
  <1>5. work' \in Seq(Frames) /\ Len(work') = Len(Below) + Len(x) /\ Len(work') \in Nat
        /\ DOMAIN work' = 1 .. Len(work')
        /\ \A i \in 1 .. Len(Below) + Len(x) :
             work'[i] = IF i <= Len(Below) THEN Below[i] ELSE x[i - Len(Below)]
    BY <1>2, ConcatProperties, LenProperties
  <1>6. FrameInv'
    <2> SUFFICES ASSUME NEW k \in DOMAIN work', work'[k].pc = "code"
                 PROVE  /\ blocks[work'[k].b].table = <<>>
                        /\ k < Len(work') => blocks[work'[k].b].body # Null
      BY DEF FrameInv
    <2>1. CASE k <= Len(Below)
      <3>1. k \in DOMAIN Below /\ work'[k] = Below[k]
        BY <1>2, <1>3, <1>5, <2>1
      <3> QED BY <1>4, <3>1
    <2>2. CASE k > Len(Below)
      <3>1. /\ k - Len(Below) \in DOMAIN x /\ work'[k] = x[k - Len(Below)]
            /\ k < Len(work') => k - Len(Below) < Len(x)
        BY <1>2, <1>3, <1>5, <2>2
      <3> QED BY <3>1
    <2> QED BY <1>2, <1>5, <2>1, <2>2
  <1>7. ASSUME x = <<>> PROVE ~AtLabel'
    <2>1. work' = Below
      BY <1>2, <1>7, ConcatEmptySeq
    <2>2. CASE Below = <<>>
      BY <2>1, <2>2 DEF AtLabel
    <2>3. CASE Below # <<>>
      <3>1. Last(Below) = Below[Len(Below)] /\ Len(Below) \in DOMAIN Below
        <4>1. Last(Below) = Below[Len(Below)] /\ Len(Below) > 0
          BY <1>2, <2>3, FrontLast
        <4> QED BY <1>2, <1>3, <4>1
      <3>2. Top' = Below[Len(Below)]
        BY <2>1, <3>1 DEF Top
      <3> QED BY <1>4, <3>1, <3>2 DEF AtLabel
    <2> QED BY <2>2, <2>3
  <1>8. ASSUME x # <<>> PROVE work' # <<>> /\ Top' = x[Len(x)]
    <2>1. Len(x) > 0
      BY <1>3, <1>8, EmptySeq
    <2>2. work' # <<>>
      BY <1>2, <1>3, <1>5, <2>1
    <2>3. Top' = work'[Len(work')]
      BY <1>5, <2>2, FrontLast DEF Top
    <2>4. work'[Len(work')] = x[Len(x)]
      <3>0. Len(Below) \in Nat
        BY <1>2
      <3>1. /\ Len(work') \in 1 .. Len(Below) + Len(x) /\ ~(Len(work') <= Len(Below))
            /\ Len(work') - Len(Below) = Len(x)
        BY ONLY <1>3, <1>5, <2>1, <3>0
      <3> QED BY ONLY <1>5, <3>1
    <2> QED BY <2>2, <2>3, <2>4
  <1> QED BY <1>6, <1>7, <1>8

\* The entries of three sequences behind each other.
LEMMA ThreeParts ==
    ASSUME NEW S, NEW c \in Seq(S), NEW s \in Seq(S), NEW t \in Seq(S)
    PROVE  LET d == c \o (s \o t)
           IN  /\ d \in Seq(S) /\ Len(d) = (Len(c) + Len(s)) + Len(t)
               /\ \A i \in 1 .. Len(c) : d[i] = c[i]
               /\ \A k \in 1 .. Len(s) : d[Len(c) + k] = s[k]
               /\ \A k \in 1 .. Len(t) : d[(Len(c) + Len(s)) + k] = t[k]
  <1> DEFINE u == s \o t
             d == c \o u
  <1>1. Len(c) \in Nat /\ Len(s) \in Nat /\ Len(t) \in Nat
        /\ DOMAIN c = 1 .. Len(c) /\ DOMAIN s = 1 .. Len(s) /\ DOMAIN t = 1 .. Len(t)
    BY LenProperties
  <1>2. /\ u \in Seq(S)
        /\ \A i \in DOMAIN s : i \in DOMAIN u /\ u[i] = s[i]
        /\ \A i \in DOMAIN t : Len(s) + i \in DOMAIN u /\ u[Len(s) + i] = t[i]
    BY ConcatEntries
  <1>3. Len(u) = Len(s) + Len(t)
    BY ConcatProperties
  <1>4. u \in Seq(S)
    BY <1>2
  <1> HIDE DEF u
  <1>5. /\ d \in Seq(S)
        /\ \A i \in DOMAIN c : d[i] = c[i]
        /\ \A i \in DOMAIN u : d[Len(c) + i] = u[i]
    BY <1>4, ConcatEntries
  <1>6. Len(d) = Len(c) + Len(u)
    BY <1>4, ConcatProperties
  <1> HIDE DEF d
  <1>7. Len(d) = (Len(c) + Len(s)) + Len(t)
    BY <1>1, <1>3, <1>6
  <1>8. ASSUME NEW k \in DOMAIN t PROVE d[(Len(c) + Len(s)) + k] = t[k]
    <2>1. (Len(c) + Len(s)) + k = Len(c) + (Len(s) + k)
      BY <1>1
    <2> QED BY <1>2, <1>5, <2>1
  <1>9. \A k \in DOMAIN s : d[Len(c) + k] = s[k]
    BY <1>2, <1>5
  <1> QED BY <1>1, <1>5, <1>7, <1>8, <1>9 DEF d, u

\* The code d is the code c with the m statements of b and then t behind it.
Completes(c, b, m, t, d) ==
    /\ Len(c) \in Nat /\ m \in Nat /\ Len(t) \in Nat
    /\ d \in Seq(Code) /\ Len(d) = (Len(c) + m) + Len(t)
    /\ DOMAIN d = 1 .. Len(d) /\ DOMAIN c = 1 .. Len(c) /\ DOMAIN t = 1 .. Len(t)
    /\ \A i \in DOMAIN c : d[i] = c[i]
    /\ \A k \in 1 .. m : d[Len(c) + k] = Stmt(b, k)
    /\ \A k \in DOMAIN t : d[(Len(c) + m) + k] = t[k]

LEMMA CompletesLemma ==
    ASSUME blocks \in Graphs, NEW b \in Ids, NEW c \in Seq(Code), NEW t \in Seq(Code)
    PROVE  Completes(c, b, blocks[b].stmts, t, c \o (Statements(b) \o t))
  <1> DEFINE m == blocks[b].stmts
             s == Statements(b)
             d == c \o (s \o t)
  <1>1. m \in Nat /\ s \in Seq(Code)
    BY GraphLemma, StatementsLemma
  <1>2. DOMAIN s = 1 .. m /\ \A k \in 1 .. m : s[k] = Stmt(b, k)
    BY DEF Statements
  <1> HIDE DEF s, m
  <1>3. Len(s) = m
    BY <1>1, <1>2, LenProperties
  <1>4. /\ d \in Seq(Code) /\ Len(d) = (Len(c) + Len(s)) + Len(t)
        /\ \A i \in 1 .. Len(c) : d[i] = c[i]
        /\ \A k \in 1 .. Len(s) : d[Len(c) + k] = s[k]
        /\ \A k \in 1 .. Len(t) : d[(Len(c) + Len(s)) + k] = t[k]
    BY <1>1, ThreeParts
  <1> HIDE DEF d
  <1>5. /\ Len(c) \in Nat /\ Len(t) \in Nat
        /\ DOMAIN d = 1 .. Len(d) /\ DOMAIN c = 1 .. Len(c) /\ DOMAIN t = 1 .. Len(t)
    BY <1>4, LenProperties
  <1>6. Completes(c, b, m, t, d)
    BY <1>1, <1>2, <1>3, <1>4, <1>5 DEF Completes
  <1> QED BY <1>6 DEF m, s, d

\* The places in such code.
LEMMA Places ==
    ASSUME NEW n \in Nat, NEW m \in Nat, NEW l \in Nat
    PROVE  /\ \A k \in 0 .. m : k < m =>
                /\ k + 1 \in 1 .. m /\ (n + k) + 1 \in 1 .. (n + m) + l
                /\ (n + k) + 1 = n + (k + 1)
           /\ \A i \in 1 .. (n + m) + l :
                \/ i \in 1 .. n /\ i # n
                \/ i = n
                \/ i - n \in 1 .. m /\ i = n + (i - n)
                \/ i - (n + m) \in 1 .. l /\ i = (n + m) + (i - (n + m))
  OBVIOUS

\* A step that completes the block of the running call.
LEMMA BlockStep ==
    ASSUME LayoutInv, AtLabel, LabelInv', FrameInv', blocks' = blocks, ~AtLabel',
           NEW b, b = Top.b, NEW t, NEW m, m = blocks[b].stmts, Completes(code, b, m, t, code'),
           GoesOn(code', Coming', b, m + 1, (Len(code) + m) + 1),
           \A k \in DOMAIN t : Follows(code', Coming', (Len(code) + m) + k)
    PROVE  LayoutInv'
  <1>1. /\ blocks \in Graphs /\ b \in Ids /\ code \in Seq(Code)
    BY TopLemma DEF LayoutInv, AtLabel
  <1>2. /\ code' \in Seq(Code) /\ Len(code') = (Len(code) + m) + Len(t)
        /\ m \in Nat /\ Len(t) \in Nat /\ Len(code) \in Nat
        /\ DOMAIN code' = 1 .. Len(code') /\ DOMAIN code = 1 .. Len(code) /\ DOMAIN t = 1 .. Len(t)
        /\ \A i \in DOMAIN code : code'[i] = code[i]
        /\ \A k \in 1 .. m : code'[Len(code) + k] = Stmt(b, k)
    BY DEF Completes
  <1>20. m \in Nat /\ Len(t) \in Nat /\ Len(code) \in Nat
    BY <1>2
  <1>21. /\ \A k \in 0 .. m : k < m =>
              /\ k + 1 \in 1 .. m /\ (Len(code) + k) + 1 \in 1 .. (Len(code) + m) + Len(t)
              /\ (Len(code) + k) + 1 = Len(code) + (k + 1)
         /\ \A i \in 1 .. (Len(code) + m) + Len(t) :
              \/ i \in 1 .. Len(code) /\ i # Len(code)
              \/ i = Len(code)
              \/ i - Len(code) \in 1 .. m /\ i = Len(code) + (i - Len(code))
              \/ i - (Len(code) + m) \in 1 .. Len(t) /\ i = (Len(code) + m) + (i - (Len(code) + m))
    BY ONLY <1>20, Places
  <1>22. /\ DOMAIN code' = 1 .. (Len(code) + m) + Len(t) /\ DOMAIN code = 1 .. Len(code)
         /\ DOMAIN t = 1 .. Len(t)
    BY <1>2
  <1>3. /\ Len(code) \in DOMAIN code /\ code'[Len(code)] = Label(b)
    BY <1>2 DEF LayoutInv, IsAt
  <1>4. Coming = Null
    BY DEF Coming, AtLabel
  <1>5. Prolongs(code, Coming, code', Coming')
    BY <1>2, <1>4 DEF Prolongs, IsAt
  <1>6. ASSUME NEW k \in 0 .. m
        PROVE  GoesOn(code', Coming', b, k + 1, (Len(code) + k) + 1)
    <2>1. CASE k = m
      BY <2>1
    <2>2. CASE k < m
      <3>1. /\ k + 1 \in 1 .. m /\ (Len(code) + k) + 1 \in DOMAIN code'
            /\ code'[(Len(code) + k) + 1] = Stmt(b, k + 1)
        <4>1. k + 1 \in 1 .. m /\ (Len(code) + k) + 1 \in DOMAIN code'
              /\ (Len(code) + k) + 1 = Len(code) + (k + 1)
          BY <1>21, <1>22, <2>2, Zenon
        <4> QED BY <1>2, <4>1
      <3> QED BY <1>2, <3>1 DEF GoesOn, IsAt
    <2> QED BY <1>2, <2>1, <2>2
  <1>7. Follows(code', Coming', Len(code))
    <2>0. Label(b).op = "label" /\ Label(b).b = b
      BY DEF Label, Instr
    <2>1. code'[Len(code)].op = "label" /\ code'[Len(code)].b = b
      BY <1>3, <2>0
    <2>2. GoesOn(code', Coming', b, 1, Len(code) + 1)
      <3>1. 0 \in 0 .. m /\ 0 + 1 = 1 /\ (Len(code) + 0) + 1 = Len(code) + 1
        BY <1>2
      <3> QED BY <1>6, <3>1
    <2> QED BY <2>1, <2>2, Zenon DEF Follows
  <1>8. ASSUME NEW k \in 1 .. m
        PROVE  Follows(code', Coming', Len(code) + k)
    <2>0. Stmt(b, k).op = "stmt" /\ Stmt(b, k).b = b /\ Stmt(b, k).n = k
      BY DEF Stmt, Instr
    <2>1. code'[Len(code) + k].op = "stmt" /\ code'[Len(code) + k].b = b /\ code'[Len(code) + k].n = k
      BY <1>2, <2>0
    <2>2. GoesOn(code', Coming', b, k + 1, (Len(code) + k) + 1)
      BY <1>2, <1>6
    <2> QED BY <2>1, <2>2, Zenon DEF Follows
  <1>9. ASSUME NEW i \in DOMAIN code'
        PROVE  \/ i \in DOMAIN code /\ ~(AtLabel /\ i = Len(code))
               \/ Follows(code', Coming', i)
    <2>1. \/ i \in DOMAIN code /\ i # Len(code)
          \/ i = Len(code)
          \/ i - Len(code) \in 1 .. m /\ i = Len(code) + (i - Len(code))
          \/ i - (Len(code) + m) \in DOMAIN t /\ i = (Len(code) + m) + (i - (Len(code) + m))
      BY <1>21, <1>22, Zenon
    <2> QED BY <1>7, <1>8, <2>1
  <1>10. code # <<>>
    BY <1>3
  <1> QED BY <1>5, <1>9, <1>10, LayoutStep

\* emit_vm_jmp emits a jump behind anything that is not one.
LEMMA EmitJmpFull ==
    ASSUME blocks \in Graphs, NEW b \in Ids, NEW c \in Seq(Code), c # <<>>, c[Len(c)].op # "jmp"
    PROVE  EmitJmp(c, b) = c \o <<Jmp(b)>>
  <1>1. Last(c).op # "jmp"
    BY FrontLast
  <1>2. Jmp(b) \in Code
    BY InstructionTypes
  <1>3. Append(c, Jmp(b)) = c \o <<Jmp(b)>>
    BY <1>2, AppendIsConcat
  <1> QED BY <1>1, <1>3 DEF EmitJmp

---------------------------------------------------------------------------
(* Every action keeps the layout.                                          *)

\* The running call ends.
LEMMA PopCall ==
    ASSUME LayoutInv, work # <<>>, blocks' = blocks, work' = Below
    PROVE  FrameInv' /\ ~AtLabel'
  <1>1. Below \in Seq(Frames)
    BY TopLemma DEF LayoutInv
  <1>2. work' = Below \o <<>> /\ <<>> \in Seq(Frames)
    BY <1>1, ConcatEmptySeq
  <1>3. \A k \in DOMAIN <<>> : <<>>[k].pc = "code" =>
            blocks[<<>>[k].b].table = <<>> /\ (k < Len(<<>>) => blocks[<<>>[k].b].body # Null)
    OBVIOUS
  <1> QED BY <1>2, <1>3, FrameStep

\* Calls take its place, of which the one for block y is the first to run.
LEMMA PushCalls ==
    ASSUME LayoutInv, work # <<>>, blocks' = blocks, NEW x \in Seq(Frames), work' = Below \o x,
           NEW y, x # <<>>, x[Len(x)] = Enter(y),
           \A k \in DOMAIN x : x[k].pc = "code" =>
               blocks[x[k].b].table = <<>> /\ blocks[x[k].b].body # Null
    PROVE  /\ FrameInv' /\ ~AtLabel'
           /\ Coming' = IF color'[y] # "black" THEN y ELSE Null
  <1>1. FrameInv' /\ work' # <<>> /\ Top' = Enter(y)
    BY FrameStep
  <1>2. Top'.pc = "enter" /\ Top'.b = y
    BY <1>1 DEF Enter
  <1> QED BY <1>1, <1>2 DEF AtLabel, Coming, Black, Null

LEMMA PushCall ==
    ASSUME LayoutInv, work # <<>>, blocks' = blocks, NEW y \in Ids, work' = Append(Below, Enter(y))
    PROVE  /\ FrameInv' /\ ~AtLabel'
           /\ Coming' = IF color'[y] # "black" THEN y ELSE Null
  <1> DEFINE x == <<Enter(y)>>
  <1>1. Below \in Seq(Frames)
    BY TopLemma DEF LayoutInv
  <1>2. x \in Seq(Frames) /\ work' = Below \o x
    BY <1>1, OneCall
  <1>3. x # <<>> /\ x[Len(x)] = Enter(y) /\ \A k \in DOMAIN x : x[k].pc # "code"
    BY DEF Enter
  <1> HIDE DEF x
  <1> QED BY <1>2, <1>3, PushCalls

\* A block that was met before adds nothing; the label of another is what the
\* code behind which it comes leads to.
LEMMA EnterBlockLayout ==
    ASSUME LayoutInv, LabelInv', EnterBlock
    PROVE  LayoutInv'
  <1> DEFINE b == Top.b
             block == blocks[b]
  <1>1. work # <<>> /\ Top.pc = "enter" /\ blocks' = blocks /\ ~AtLabel
    BY DEF EnterBlock, EmitKeep, AtLabel
  <1>2. /\ blocks \in Graphs /\ Top \in Frames /\ b \in Ids /\ code \in Seq(Code)
        /\ Below \in Seq(Frames) /\ code' \in Seq(Code) /\ Null \notin Ids
    BY <1>1, TopLemma, GraphLemma DEF LayoutInv, LabelInv, TypeInv, Code, Ids
  <1>3. /\ Len(code) \in Nat /\ DOMAIN code = 1 .. Len(code)
        /\ Len(code') \in Nat /\ DOMAIN code' = 1 .. Len(code')
    BY <1>2, LenProperties
  <1>4. CASE Black(b)
    <2>1. color' = color /\ code' = code /\ work' = Below
      BY <1>4 DEF EnterBlock
    <2>3. FrameInv' /\ ~AtLabel'
      BY <1>1, <2>1, PopCall
    <2>4. Coming = Null
      BY <1>4 DEF Coming
    <2>5. Prolongs(code, Coming, code', Coming')
      BY <1>3, <2>1, <2>4 DEF Prolongs, IsAt
    <2>6. code # <<>>
      <3>1. Top = Enter(1) => b = 1
        BY DEF Enter
      <3>2. work = <<Enter(1)>> => Top = Enter(1)
        BY DEF Top, Last
      <3> QED BY <1>4, <3>1, <3>2 DEF LayoutInv
    <2> QED BY <1>1, <2>1, <2>3, <2>5, <2>6, LayoutStep
  <1>5. CASE ~Black(b)
    <2> DEFINE n == Len(code) + 1
    <2>1. Coming = b
      BY <1>1, <1>5 DEF Coming
    <2>2. ASSUME NEW s \in Seq(Code), code' = (code \o <<Label(b)>>) \o s
          PROVE  /\ Len(code') = n + Len(s) /\ Len(s) \in Nat /\ DOMAIN s = 1 .. Len(s)
                 /\ \A i \in DOMAIN code : code'[i] = code[i]
                 /\ code'[n] = Label(b)
                 /\ \A k \in DOMAIN s : code'[n + k] = s[k]
      <3> DEFINE l == <<Label(b)>>
      <3>1. l \in Seq(Code) /\ Len(l) = 1 /\ l[1] = Label(b)
        <4>1. Label(b) \in Code
          BY <1>2 DEF Label, Instr, Code, Opcodes, Flagged
        <4> QED BY ONLY <4>1
      <3> HIDE DEF l
      <3>2. (code \o l) \o s = code \o (l \o s)
        <4>1. Regroups(code, l, s)
          BY <1>2, <2>2, <3>1, CodeAssociative
        <4> QED BY <4>1 DEF Regroups
      <3>3. code' = code \o (l \o s)
        BY <2>2, <3>2 DEF l
      <3>4. /\ Len(code') = (Len(code) + Len(l)) + Len(s)
            /\ \A i \in 1 .. Len(code) : code'[i] = code[i]
            /\ \A k \in 1 .. Len(l) : code'[Len(code) + k] = l[k]
            /\ \A k \in 1 .. Len(s) : code'[(Len(code) + Len(l)) + k] = s[k]
        BY <1>2, <2>2, <3>1, <3>3, ThreeParts
      <3>5. Len(s) \in Nat /\ DOMAIN s = 1 .. Len(s)
        BY <2>2, LenProperties
      <3>6. 1 \in 1 .. Len(l)
        BY <3>1
      <3>7. code'[n] = Label(b)
        BY <3>1, <3>4, <3>6
      <3> QED BY <1>3, <3>1, <3>4, <3>5, <3>7
    <2>3. ASSUME NEW s \in Seq(Code), code' = (code \o <<Label(b)>>) \o s, FrameInv',
                 AtLabel' => Top'.b = b /\ s = <<>>,
                 ~AtLabel' => Follows(code', Coming', n),
                 \A k \in DOMAIN s : Follows(code', Coming', n + k)
          PROVE  LayoutInv'
      <3>1. /\ Len(code') = n + Len(s) /\ Len(s) \in Nat /\ DOMAIN s = 1 .. Len(s)
            /\ \A i \in DOMAIN code : code'[i] = code[i]
            /\ code'[n] = Label(b)
        BY <2>2, <2>3
      <3>2. n \in DOMAIN code' /\ Len(code) <= Len(code') /\ \A i \in DOMAIN code : i \in DOMAIN code'
        BY <1>3, <3>1
      <3>3. Prolongs(code, Coming, code', Coming')
        BY <2>1, <3>1, <3>2 DEF Prolongs, LeadsTo, IsAt
      <3>4. AtLabel' => Len(code') = n
        <4>1. Len(<<>>) = 0
          OBVIOUS
        <4> QED BY ONLY <1>3, <2>3, <3>1, <4>1
      <3>5. AtLabel' => IsAt(code', Len(code'), Label(Top'.b))
        BY <2>3, <3>1, <3>2, <3>4 DEF IsAt
      <3>6. ASSUME NEW i \in DOMAIN code'
            PROVE  \/ i \in DOMAIN code
                   \/ Follows(code', Coming', i)
                   \/ AtLabel' /\ i = Len(code')
        <4>1. i \in DOMAIN code \/ i = n \/ (i - n \in DOMAIN s /\ i = n + (i - n))
          BY ONLY <1>3, <3>1, <3>6
        <4> QED BY <2>3, <3>4, <4>1
      <3>7. ASSUME code = <<>> PROVE IsAt(code', 1, Label(1))
        <4>1. work = <<Enter(1)>>
          BY <3>7 DEF LayoutInv
        <4>2. b = 1
          BY <4>1 DEF Top, Last, Enter
        <4>3. n = 1
          BY <3>7
        <4> QED BY <3>1, <3>2, <4>2, <4>3 DEF IsAt
      <3> QED BY <1>1, <2>3, <3>3, <3>5, <3>6, <3>7, LayoutStep
    <2>4. /\ Label(b) \in Code /\ Cond(b) \in Code /\ Table(b) \in Code
          /\ Label(b).op = "label" /\ Label(b).b = b /\ Cond(b).op = "cond" /\ Cond(b).b = b
          /\ Table(b).op = "table"
      BY <1>2 DEF Label, Cond, Table, Instr, Code, Opcodes, Flagged
    <2>5. CASE block.table # <<>>
      <3> DEFINE tbl == block.table
                 entries == [i \in DOMAIN tbl |-> Entry(tbl[i])]
                 calls == [i \in DOMAIN tbl |-> Enter(tbl[i])]
                 l == <<Label(b)>>
                 t == <<Cond(b), Table(b)>>
                 s == t \o entries
      <3>1. /\ code' = code \o <<Label(b), Cond(b), Table(b)>> \o entries
            /\ work' = Below \o Reverse(calls)
        BY <1>5, <2>5, Zenon DEF EnterBlock
      <3>2. tbl \in Seq(Ids) /\ block.stmts = 0 /\ tbl # <<>>
        BY <1>2, <2>5, GraphLemma
      <3>3. Len(tbl) \in Nat /\ Len(tbl) > 0 /\ DOMAIN tbl = 1 .. Len(tbl)
            /\ \A i \in 1 .. Len(tbl) : tbl[i] \in Ids
        BY <3>2, EmptySeq, LenProperties, ElementOfSeq
      <3> HIDE DEF tbl
      <3>4. entries \in Seq(Code) /\ DOMAIN entries = DOMAIN tbl
        BY <1>2, <3>3, InstructionTypes
      <3>5. calls \in Seq(Frames) /\ Len(calls) = Len(tbl)
        BY <1>2, <3>3, InstructionTypes
      <3>6. l \in Seq(Code) /\ t \in Seq(Code) /\ Len(t) = 2 /\ t[1] = Cond(b) /\ t[2] = Table(b)
            /\ <<Label(b), Cond(b), Table(b)>> = l \o t /\ DOMAIN t = 1 .. 2
        BY ONLY <2>4
      <3>7. \A i \in DOMAIN entries : entries[i] = Entry(tbl[i])
        OBVIOUS
      <3> HIDE DEF entries, l, t
      <3>8. /\ s \in Seq(Code) /\ Len(s) = 2 + Len(entries)
            /\ \A i \in DOMAIN t : s[i] = t[i]
            /\ \A i \in DOMAIN entries : s[2 + i] = entries[i]
        <4>1. /\ s \in Seq(Code) /\ \A i \in DOMAIN t : s[i] = t[i]
              /\ \A i \in DOMAIN entries : s[Len(t) + i] = entries[i]
          <5>1. t \in Seq(Code) /\ entries \in Seq(Code)
            BY <3>4, <3>6
          <5> QED BY ONLY <5>1, ConcatEntries
        <4>2. Len(s) = Len(t) + Len(entries)
          BY <3>4, <3>6, ConcatProperties
        <4> QED BY ONLY <3>6, <4>1, <4>2
      <3> HIDE DEF s
      <3>9. code' = (code \o <<Label(b)>>) \o s
        <4>0. code \in Seq(Code) /\ l \in Seq(Code) /\ t \in Seq(Code) /\ entries \in Seq(Code)
          BY <1>2, <3>4, <3>6
        <4>1. (code \o (l \o t)) \o entries = (code \o l) \o (t \o entries)
          <5>1. RegroupsFour(code, l, t, entries)
            BY <4>0, FourParts
          <5> QED BY ONLY <5>1 DEF RegroupsFour
        <4> QED BY ONLY <3>1, <3>6, <4>1 DEF s, l
      <3>10. Len(entries) = Len(tbl) /\ Len(entries) \in Nat
        BY <3>3, <3>4, LenProperties
      <3>11. /\ Len(code') = n + Len(s) /\ Len(s) \in Nat /\ DOMAIN s = 1 .. Len(s)
             /\ code'[n] = Label(b)
             /\ \A k \in DOMAIN s : code'[n + k] = s[k]
        BY <2>2, <3>8, <3>9
      <3>12. n \in Nat /\ n + 1 \in DOMAIN code' /\ n + 2 \in DOMAIN code' /\ 1 \in DOMAIN s /\ 2 \in DOMAIN s
             /\ \A i \in DOMAIN tbl :
                  2 + i \in DOMAIN s /\ n + (2 + i) \in DOMAIN code' /\ n + (2 + i) = ((n + 1) + 1) + i
        BY ONLY <1>3, <3>3, <3>8, <3>10, <3>11
      <3>13. FrameInv' /\ ~AtLabel'
        <4> DEFINE x == Reverse(calls)
                   z == Len(tbl)
        <4>1. \A i \in 1 .. z : z - i + 1 \in 1 .. z
          BY <3>3
        <4>2. \A i \in 1 .. z : calls[i] = Enter(tbl[i])
          BY <3>3
        <4>3. x = [i \in 1 .. z |-> Enter(tbl[z - i + 1])]
          BY <3>3, <3>5, <4>1, <4>2 DEF Reverse
        <4>4. x \in Seq(Frames) /\ Len(x) = z
          <5>1. \A i \in 1 .. z : Enter(tbl[z - i + 1]) \in Frames
            BY <1>2, <3>3, <4>1, InstructionTypes
          <5>2. [i \in 1 .. z |-> Enter(tbl[z - i + 1])] \in [1 .. z -> Frames]
            BY ONLY <5>1
          <5>3. x \in Seq(Frames) /\ DOMAIN x = 1 .. z
            <6>1. z \in Nat /\ x \in [1 .. z -> Frames]
              BY <3>3, <4>3, <5>2
            <6> QED BY ONLY <6>1, SeqDef
          <5> QED BY <3>3, <5>3, LenProperties
        <4> HIDE DEF x, z
        <4>5. z - z + 1 = 1 /\ z \in 1 .. z
          BY ONLY <3>3 DEF z
        <4>6. x # <<>> /\ x[Len(x)] = Enter(tbl[1])
          BY <4>3, <4>4, <4>5
        <4>7. \A k \in DOMAIN x : x[k].pc # "code"
          BY <4>3 DEF Enter
        <4>8. work' = Below \o x
          BY <3>1 DEF x
        <4> QED BY <1>1, <4>4, <4>6, <4>7, <4>8, PushCalls
      <3>14. code'[n + 1] = Cond(b) /\ code'[n + 2] = Table(b)
        <4>1. s[1] = Cond(b) /\ s[2] = Table(b)
          <5>1. 1 \in DOMAIN t /\ 2 \in DOMAIN t
            BY <3>6
          <5> QED BY ONLY <3>6, <3>8, <5>1
        <4>2. code'[n + 1] = s[1] /\ code'[n + 2] = s[2]
          <5> HIDE DEF n
          <5> QED BY ONLY <3>11, <3>12
        <4> QED BY ONLY <4>1, <4>2
      <3>15. Follows(code', Coming', n)
        <4>1. GoesOn(code', Coming', b, 1, n + 1)
          BY <3>2, <3>12, <3>14 DEF GoesOn, IsAt, tbl
        <4> QED BY <2>4, <3>11, <4>1 DEF Follows
      <3>16. Follows(code', Coming', n + 1)
        <4>1. IsAt(code', (n + 1) + 1, Table(b))
          BY <3>12, <3>14 DEF IsAt
        <4>2. ASSUME NEW k \in DOMAIN tbl
              PROVE  IsAt(code', ((n + 1) + 1) + k, Entry(tbl[k]))
          BY <3>4, <3>7, <3>8, <3>11, <3>12 DEF IsAt
        <4>3. code'[n + 1].op = "cond" /\ code'[n + 1].b = b
          BY <2>4, <3>14
        <4> QED BY <2>5, <4>1, <4>2, <4>3 DEF Follows, tbl
      <3>17. ASSUME NEW k \in DOMAIN s
             PROVE  Follows(code', Coming', n + k)
        <4>1. k = 1 \/ k = 2 \/ (k - 2 \in DOMAIN entries /\ k = 2 + (k - 2))
          BY ONLY <3>3, <3>4, <3>8, <3>10, <3>11, <3>17
        <4>2. CASE k = 1
          BY <3>16, <4>2
        <4>3. CASE k = 2 \/ (k - 2 \in DOMAIN entries /\ k = 2 + (k - 2))
          <5>1. \A y : Entry(y).op = "entry"
            BY DEF Entry, Instr
          <5>2. code'[n + k].op \in {"table", "entry"}
            BY <2>4, <3>7, <3>8, <3>11, <3>14, <4>3, <5>1
          <5> QED BY <5>2 DEF Follows
        <4> QED BY <4>1, <4>2, <4>3
      <3> QED BY <2>3, <3>8, <3>9, <3>13, <3>15, <3>17, Zenon
    <2>6. CASE block.table = <<>> /\ block.body # Null
      <3> DEFINE j0 == block.jump[1]
                 x == <<[pc |-> "code", b |-> b], Enter(block.body)>>
                 c == code \o <<Label(b)>>
      <3>1. code' = EmitJmp(Append(code, Label(b)), j0) /\ work' = Below \o x
        BY <1>5, <2>6 DEF EnterBlock
      <3>2. j0 \in Ids /\ block.body \in Ids /\ block.stmts = 0
        BY <1>2, <2>6, GraphLemma
      <3>3. x \in Seq(Frames) /\ x # <<>> /\ x[Len(x)] = Enter(block.body)
            /\ \A k \in DOMAIN x : x[k].pc = "code" => x[k].b = b
        <4>1. [pc |-> "code", b |-> b] \in Frames /\ Enter(block.body) \in Frames
              /\ Enter(block.body).pc # "code"
          BY <1>2, <3>2 DEF Frames, Enter
        <4> QED BY ONLY <4>1
      <3> HIDE DEF x
      <3>4. FrameInv' /\ ~AtLabel'
        BY <1>1, <2>6, <3>1, <3>3, PushCalls
      <3>5. Append(code, Label(b)) = c /\ c \in Seq(Code) /\ c # <<>> /\ c[Len(c)] = Label(b)
        <4>1. Append(code, Label(b)) = code \o <<Label(b)>>
          BY <1>2, <2>4, AppendIsConcat
        <4> QED BY ONLY <1>2, <2>4, <4>1
      <3> HIDE DEF c
      <3>6. code' = c \o <<Jmp(j0)>>
        BY <1>2, <2>4, <3>1, <3>2, <3>5, EmitJmpFull
      <3> DEFINE s == <<Jmp(j0)>>
      <3>7. s \in Seq(Code) /\ DOMAIN s = {1} /\ s[1] = Jmp(j0) /\ Len(s) = 1
        <4>1. Jmp(j0) \in Code
          BY <1>2, <3>2, InstructionTypes
        <4> QED BY ONLY <4>1
      <3> HIDE DEF s
      <3>8. code' = (code \o <<Label(b)>>) \o s
        BY <3>6 DEF c, s
      <3>9. Len(code') = n + 1 /\ code'[n] = Label(b) /\ code'[n + 1] = Jmp(j0)
        <4> HIDE DEF n
        <4> QED BY <2>2, <3>7, <3>8
      <3>10. n + 1 \in DOMAIN code'
        BY ONLY <1>3, <3>9
      <3>11. block.jump # <<Null, Null>>
        BY <1>2, <3>2
      <3>12. Follows(code', Coming', n)
        <4>1. LeadsTo(code', Coming', n + 1, j0)
          BY <3>9, <3>10 DEF LeadsTo, IsAt
        <4>2. ~(1 <= block.stmts)
          BY <3>2
        <4>3. GoesOn(code', Coming', b, 1, n + 1)
          BY <2>6, <3>11, <4>1, <4>2 DEF GoesOn, IsTwoWay
        <4> QED BY <2>4, <3>9, <4>3 DEF Follows
      <3>13. Follows(code', Coming', n + 1)
        <4>1. Jmp(j0).op = "jmp"
          BY DEF Jmp, Instr
        <4> QED BY <3>9, <4>1 DEF Follows
      <3> QED BY <2>3, <3>4, <3>7, <3>8, <3>12, <3>13
    <2>7. CASE block.table = <<>> /\ block.body = Null
      <3> DEFINE f == [pc |-> "code", b |-> b]
                 x == <<f>>
      <3>1. code' = Append(code, Label(b)) /\ work' = Append(Below, f)
        BY <1>5, <2>7 DEF EnterBlock
      <3>2. f \in Frames /\ f.b = b
        BY <1>2 DEF Frames
      <3>3. x \in Seq(Frames) /\ x # <<>> /\ Len(x) = 1 /\ DOMAIN x = {1} /\ x[1] = f
        BY ONLY <3>2
      <3>4. work' = Below \o x
        BY <1>2, <3>1, <3>2, AppendIsConcat
      <3> HIDE DEF x, f
      <3>5. \A k \in DOMAIN x : x[k].pc = "code" =>
                blocks[x[k].b].table = <<>> /\ (k < Len(x) => blocks[x[k].b].body # Null)
        BY <2>7, <3>2, <3>3
      <3>6. FrameInv' /\ Top' = f /\ work' # <<>>
        BY <1>1, <3>3, <3>4, <3>5, FrameStep
      <3>7. AtLabel' /\ Top'.b = b
        BY <1>1, <2>7, <3>2, <3>6 DEF AtLabel, f, Null
      <3>8. code' = (code \o <<Label(b)>>) \o <<>> /\ <<>> \in Seq(Code)
        <4>1. code' = code \o <<Label(b)>>
          BY <1>2, <2>4, <3>1, AppendIsConcat
        <4> QED BY <1>2, <4>1, ConcatEmptySeq
      <3> DEFINE s == <<>>
      <3>9. s \in Seq(Code) /\ DOMAIN s = {} /\ s = <<>> /\ code' = (code \o <<Label(b)>>) \o s
        BY <3>8
      <3> HIDE DEF s
      <3> QED BY <2>3, <3>6, <3>7, <3>9
    <2> QED BY <2>5, <2>6, <2>7
  <1> QED BY <1>4, <1>5

\* The statements of a block with at most one successor, and what ends it: a
\* return, a jump to a block that was emitted before, or the next block.
LEMMA EmitCodeLayout ==
    ASSUME LayoutInv, LabelInv', EmitCode
    PROVE  LayoutInv'
  <1> DEFINE b == Top.b
             j0 == blocks[b].jump[1]
             m == blocks[b].stmts
             n == Len(code) + m
             emitted == code \o Statements(b)
  <1>1. /\ work # <<>> /\ Top.pc = "code" /\ blocks' = blocks /\ color' = color
    BY DEF EmitCode, EmitKeep
  <1>2. /\ blocks \in Graphs /\ Top \in Frames /\ b \in Ids /\ code \in Seq(Code)
        /\ Below \in Seq(Frames)
    BY <1>1, TopLemma DEF LayoutInv
  <1>3. /\ j0 \in Ids \cup {Null} /\ Null \notin Ids /\ m \in Nat
        /\ blocks[b].body # Null => m = 0 /\ j0 # Null
    BY <1>2, GraphLemma
  <1>4. Statements(b) \in Seq(Code) /\ emitted \in Seq(Code)
    BY <1>2, StatementsLemma, ConcatEntries
  <1>5. blocks[b].table = <<>>
    <2>1. work \in Seq(Frames)
      BY DEF LayoutInv, LabelInv, TypeInv
    <2>2. Len(work) \in DOMAIN work /\ Top = work[Len(work)]
      <3>1. Len(work) \in Nat /\ Len(work) > 0 /\ Top = work[Len(work)]
        BY <1>1, <2>1, FrontLast DEF Top
      <3> QED BY <2>1, <3>1, LenProperties
    <2> QED BY <1>1, <2>2 DEF LayoutInv, FrameInv
  <1>6. CASE /\ blocks[b].body # Null
             /\ code' = emitted /\ work' = Append(Below, Enter(j0))
    <2>1. Statements(b) = <<>>
      <3>1. m = 0
        BY <1>3, <1>6
      <3> QED BY <3>1 DEF Statements
    <2>2. code' = code
      BY <1>2, <1>6, <2>1, ConcatEmptySeq
    <2>3. FrameInv' /\ ~AtLabel'
      BY <1>1, <1>3, <1>6, PushCall
    <2>4. Coming = Null /\ ~AtLabel
      BY <1>1, <1>6 DEF Coming, AtLabel
    <2>5. Len(code) \in Nat
      BY <1>2, LenProperties
    <2>6. Prolongs(code, Coming, code', Coming')
      BY <2>2, <2>4, <2>5 DEF Prolongs, IsAt
    <2>7. code # <<>>
      <3>1. work = <<Enter(1)>> => Top = Enter(1)
        BY DEF Top, Last
      <3>2. Enter(1).pc # "code"
        BY DEF Enter
      <3> QED BY <1>1, <3>1, <3>2 DEF LayoutInv
    <2> QED BY <1>1, <2>2, <2>3, <2>4, <2>6, <2>7, LayoutStep
  <1>7. ASSUME blocks[b].body = Null, NEW t \in Seq(Code), code' = emitted \o t
        PROVE  /\ AtLabel /\ Completes(code, b, m, t, code')
               /\ Len(code') = n + Len(t) /\ n \in Nat /\ Len(t) \in Nat
               /\ DOMAIN code' = 1 .. n + Len(t) /\ DOMAIN t = 1 .. Len(t)
               /\ \A k \in DOMAIN t : code'[n + k] = t[k]
    <2>1. code' = code \o (Statements(b) \o t)
      <3>1. Regroups(code, Statements(b), t)
        BY <1>2, <1>4, <1>7, CodeAssociative
      <3> QED BY <1>2, <1>4, <1>7, <3>1 DEF Regroups
    <2>2. Completes(code, b, m, t, code')
      BY <1>2, <1>7, <2>1, CompletesLemma
    <2>3. AtLabel
      BY <1>1, <1>7 DEF AtLabel
    <2> HIDE DEF m
    <2> QED BY <2>2, <2>3 DEF Completes
  <1>8. CASE /\ blocks[b].body = Null /\ blocks[b].jump = <<Null, Null>>
             /\ code' = Append(emitted, Ret(b)) /\ work' = Below
    <2> DEFINE t == <<Ret(b)>>
    <2>1. t \in Seq(Code) /\ Len(t) = 1 /\ t[1] = Ret(b) /\ DOMAIN t = {1} /\ Ret(b).op = "ret"
      <3>1. Ret(b) \in Code /\ Ret(b).op = "ret"
        BY <1>2, InstructionTypes DEF Ret, Instr
      <3> QED BY ONLY <3>1
    <2>2. code' = emitted \o t
      <3>1. Ret(b) \in Code
        BY <1>2, InstructionTypes
      <3> QED BY <1>4, <1>8, <3>1, AppendIsConcat
    <2> HIDE DEF t
    <2>3. /\ AtLabel /\ Completes(code, b, m, t, code')
          /\ DOMAIN code' = 1 .. n + 1 /\ code'[n + 1] = Ret(b) /\ n \in Nat
      <3> HIDE DEF m, n, b, emitted
      <3> QED BY <1>7, <1>8, <2>1, <2>2
    <2>4. IsAt(code', n + 1, Ret(b))
      <3>1. n + 1 \in 1 .. n + 1
        BY ONLY <2>3
      <3> QED BY <2>3, <3>1 DEF IsAt
    <2>5. GoesOn(code', Coming', b, m + 1, n + 1)
      <3>1. ~(m + 1 <= m)
        BY ONLY <1>3
      <3>2. blocks[b].jump[2] = Null
        BY <1>8
      <3> QED BY <1>5, <1>8, <2>4, <3>1, <3>2 DEF GoesOn, IsTwoWay
    <2>6. Follows(code', Coming', n + 1)
      BY <2>1, <2>3 DEF Follows
    <2>7. FrameInv' /\ ~AtLabel'
      BY <1>1, <1>8, PopCall
    <2> QED BY <1>1, <2>1, <2>3, <2>5, <2>6, <2>7, BlockStep
  <1>9. CASE /\ blocks[b].body = Null /\ j0 # Null /\ blocks[b].jump[2] = Null /\ Black(j0)
             /\ code' = EmitJmp(emitted, j0) /\ work' = Below
    <2> DEFINE t == <<Jmp(j0)>>
    <2>1. t \in Seq(Code) /\ Len(t) = 1 /\ t[1] = Jmp(j0) /\ DOMAIN t = {1} /\ Jmp(j0).op = "jmp"
      <3>1. Jmp(j0) \in Code /\ Jmp(j0).op = "jmp"
        BY <1>2, <1>3, <1>9, InstructionTypes DEF Jmp, Instr
      <3> QED BY ONLY <3>1
    <2>2. code' = emitted \o t
      <3> DEFINE e == <<>>
      <3>1. e \in Seq(Code) /\ Statements(b) \o e = Statements(b) /\ Len(e) = 0
        BY <1>4, ConcatEmptySeq
      <3> HIDE DEF e
      <3>2. Completes(code, b, m, e, emitted)
        BY <1>2, <3>1, CompletesLemma
      <3>3. IsAt(code, Len(code), Label(b))
        BY <1>1, <1>9 DEF LayoutInv, AtLabel
      <3>4. Label(b).op = "label" /\ \A k : Stmt(b, k).op = "stmt"
        BY DEF Label, Stmt, Instr
      <3> HIDE DEF emitted, m, b, j0
      <3>5. /\ Len(emitted) = Len(code) + m /\ Len(code) \in Nat /\ m \in Nat
            /\ Len(code) \in 1 .. Len(code) /\ emitted[Len(code)] = Label(b)
            /\ \A k \in 1 .. m : emitted[Len(code) + k] = Stmt(b, k)
        BY ONLY <3>1, <3>2, <3>3 DEF Completes, IsAt
      <3>6. m = 0 \/ m \in 1 .. m
        BY ONLY <3>5
      <3>7. emitted[Len(emitted)].op # "jmp" /\ Len(emitted) > 0
        <4>1. CASE m = 0
          <5>1. Len(emitted) = Len(code) /\ Len(emitted) > 0
            BY ONLY <3>5, <4>1
          <5> QED BY ONLY <3>4, <3>5, <5>1
        <4>2. CASE m \in 1 .. m
          <5>1. emitted[Len(emitted)] = Stmt(b, m)
            BY ONLY <3>5, <4>2
          <5>2. Len(emitted) > 0
            BY ONLY <3>5, <4>2
          <5> QED BY ONLY <3>4, <5>1, <5>2
        <4> QED BY ONLY <3>6, <4>1, <4>2
      <3>8. emitted # <<>>
        BY <1>4, <3>7, EmptySeq
      <3> QED BY <1>2, <1>3, <1>4, <1>9, <3>7, <3>8, EmitJmpFull
    <2> HIDE DEF t
    <2>3. /\ AtLabel /\ Completes(code, b, m, t, code')
          /\ DOMAIN code' = 1 .. n + 1 /\ code'[n + 1] = Jmp(j0) /\ n \in Nat
      <3> HIDE DEF m, n, b, emitted, j0
      <3> QED BY <1>7, <1>9, <2>1, <2>2
    <2>4. IsAt(code', n + 1, Jmp(j0))
      <3>1. n + 1 \in 1 .. n + 1
        BY ONLY <2>3
      <3> QED BY <2>3, <3>1 DEF IsAt
    <2>5. GoesOn(code', Coming', b, m + 1, n + 1)
      <3>1. ~(m + 1 <= m)
        BY ONLY <1>3
      <3>2. blocks[b].jump # <<Null, Null>>
        BY <1>9
      <3> QED BY <1>5, <1>9, <2>4, <3>1, <3>2 DEF GoesOn, IsTwoWay, LeadsTo
    <2>6. Follows(code', Coming', n + 1)
      BY <2>1, <2>3, Zenon DEF Follows
    <2>7. FrameInv' /\ ~AtLabel'
      BY <1>1, <1>9, PopCall
    <2> QED BY <1>1, <2>1, <2>3, <2>5, <2>6, <2>7, BlockStep
  <1>10. CASE /\ blocks[b].body = Null /\ j0 # Null /\ blocks[b].jump[2] = Null /\ ~Black(j0)
              /\ code' = emitted /\ work' = Append(Below, Enter(j0))
    <2> DEFINE t == <<>>
    <2>1. t \in Seq(Code) /\ Len(t) = 0 /\ DOMAIN t = {} /\ code' = emitted \o t
      BY <1>4, <1>10, ConcatEmptySeq
    <2> HIDE DEF t
    <2>2. /\ AtLabel /\ Completes(code, b, m, t, code')
          /\ Len(code') = n + 0 /\ n \in Nat
      <3> HIDE DEF m, n, b, emitted, j0
      <3> QED BY <1>7, <1>10, <2>1
    <2>3. FrameInv' /\ ~AtLabel' /\ Coming' = j0
      BY <1>1, <1>3, <1>10, PushCall DEF Black
    <2>4. n + 1 = Len(code') + 1
      BY ONLY <2>2
    <2>5. GoesOn(code', Coming', b, m + 1, n + 1)
      <3>1. ~(m + 1 <= m)
        BY ONLY <1>3
      <3>2. blocks[b].jump # <<Null, Null>>
        BY <1>10
      <3> QED BY <1>5, <1>10, <2>3, <2>4, <3>1, <3>2 DEF GoesOn, IsTwoWay, LeadsTo
    <2> QED BY <1>1, <2>1, <2>2, <2>3, <2>5, BlockStep
  <1> QED BY <1>6, <1>8, <1>9, <1>10 DEF EmitCode

---------------------------------------------------------------------------
(* The branches.                                                           *)

\* A step that completes the block of the running call with its condition and
\* the jumps u behind that, which decide rightly.
LEMMA BranchStep ==
    ASSUME LayoutInv, LabelInv', FrameInv', ~AtLabel', blocks' = blocks,
           work # <<>>, Top.pc = "code", NEW b, b = Top.b, IsTwoWay(b), NEW u \in Seq(Code),
           code' = code \o (Statements(b) \o (<<Cond(b)>> \o u)),
           \A k \in DOMAIN u : u[k].op \in {"jcc", "jnz", "jmp"},
           \A p \in Nat :
               /\ Len(code') = p + Len(u)
               /\ \A k \in DOMAIN u : p + k \in DOMAIN code' /\ code'[p + k] = u[k]
               => \A o \in Outcomes(blocks[b].cond) :
                    Decides(code', Coming', p + 1, blocks[b].cond, o,
                            blocks[b].jump[IF Holds(blocks[b].cond, o) THEN 2 ELSE 1])
    PROVE  LayoutInv'
  <1> DEFINE m == blocks[b].stmts
             n == Len(code) + m
             t == <<Cond(b)>> \o u
  <1>1. /\ blocks \in Graphs /\ b \in Ids /\ code \in Seq(Code)
    BY TopLemma DEF LayoutInv
  <1>2. Cond(b) \in Code /\ Cond(b).op = "cond" /\ Cond(b).b = b
    BY <1>1, InstructionTypes DEF Cond, Instr
  <1>3. /\ t \in Seq(Code) /\ Len(t) = 1 + Len(u) /\ t[1] = Cond(b)
        /\ \A k \in DOMAIN u : t[1 + k] = u[k]
    <2> DEFINE h == <<Cond(b)>>
    <2>1. h \in Seq(Code) /\ Len(h) = 1 /\ h[1] = Cond(b) /\ 1 \in DOMAIN h
      BY ONLY <1>2
    <2>2. u \in Seq(Code) /\ h \in Seq(Code)
      BY <2>1
    <2> HIDE DEF h
    <2>3. /\ h \o u \in Seq(Code) /\ \A i \in DOMAIN h : (h \o u)[i] = h[i]
          /\ \A i \in DOMAIN u : (h \o u)[Len(h) + i] = u[i]
      BY ONLY <2>2, ConcatEntries
    <2>4. Len(h \o u) = Len(h) + Len(u)
      BY ONLY <2>2, ConcatProperties
    <2>5. t = h \o u
      BY DEF h
    <2> HIDE DEF t
    <2> QED BY ONLY <2>1, <2>3, <2>4, <2>5
  <1>4. Len(u) \in Nat /\ DOMAIN u = 1 .. Len(u)
    BY LenProperties
  <1>5. AtLabel
    BY DEF AtLabel, IsTwoWay
  <1>6. blocks[b].table = <<>>
    <2>1. work \in Seq(Frames)
      BY DEF LayoutInv, LabelInv, TypeInv
    <2>2. Len(work) \in DOMAIN work /\ Top = work[Len(work)]
      <3>1. Len(work) \in Nat /\ Len(work) > 0 /\ Top = work[Len(work)]
        BY <2>1, FrontLast DEF Top
      <3> QED BY <2>1, <3>1, LenProperties
    <2> QED BY <2>2 DEF LayoutInv, FrameInv
  <1>7. Completes(code, b, m, t, code')
    <2>1. code' = code \o (Statements(b) \o t)
      OBVIOUS
    <2> HIDE DEF t
    <2> QED BY <1>1, <1>3, <2>1, CompletesLemma
  <1> HIDE DEF t, m
  <1>8. /\ m \in Nat /\ Len(code) \in Nat /\ DOMAIN code' = 1 .. Len(code')
        /\ Len(code') = n + Len(t) /\ DOMAIN t = 1 .. Len(t)
        /\ \A k \in DOMAIN t : code'[n + k] = t[k]
    BY ONLY <1>7 DEF Completes
  <1>9. n \in Nat /\ n + 1 \in Nat /\ n + 1 \in DOMAIN code' /\ 1 \in DOMAIN t
        /\ Len(code') = (n + 1) + Len(u)
        /\ \A k \in DOMAIN u : 1 + k \in DOMAIN t /\ n + (1 + k) = (n + 1) + k /\ (n + 1) + k \in DOMAIN code'
    BY ONLY <1>3, <1>4, <1>8
  <1>10. code'[n + 1] = Cond(b)
    BY ONLY <1>3, <1>8, <1>9
  <1>11. \A k \in DOMAIN u : (n + 1) + k \in DOMAIN code' /\ code'[(n + 1) + k] = u[k]
    <2> HIDE DEF n
    <2> QED BY ONLY <1>3, <1>8, <1>9
  <1>12. \A o \in Outcomes(blocks[b].cond) :
            Decides(code', Coming', (n + 1) + 1, blocks[b].cond, o,
                    blocks[b].jump[IF Holds(blocks[b].cond, o) THEN 2 ELSE 1])
    <2> HIDE DEF n
    <2> QED BY <1>9, <1>11, Zenon
  <1>13. Follows(code', Coming', n + 1)
    BY <1>2, <1>6, <1>10, <1>12, Zenon DEF Follows
  <1>14. GoesOn(code', Coming', b, m + 1, n + 1)
    <2>1. ~(m + 1 <= m)
      BY ONLY <1>8
    <2> QED BY <1>9, <1>10, <2>1 DEF GoesOn, IsAt, m
  <1>15. ASSUME NEW k \in DOMAIN t PROVE Follows(code', Coming', n + k)
    <2>1. k = 1 \/ (k - 1 \in DOMAIN u /\ k = 1 + (k - 1))
      BY ONLY <1>3, <1>4, <1>8, <1>15
    <2>2. CASE k = 1
      BY <1>13, <2>2
    <2>3. CASE k - 1 \in DOMAIN u /\ k = 1 + (k - 1)
      <3>1. code'[n + k] = u[k - 1]
        BY <1>3, <1>8, <2>3
      <3>2. code'[n + k].op \in {"jcc", "jnz", "jmp"}
        BY <2>3, <3>1
      <3> QED BY <3>2, Zenon DEF Follows
    <2> QED BY <2>1, <2>2, <2>3
  <1>16. m = blocks[b].stmts
    BY DEF m
  <1> QED BY <1>5, <1>7, <1>14, <1>15, <1>16, BlockStep

\* What conditional jumps are and when they jump.
LEMMA JumpKinds ==
    ASSUME NEW cc, NEW b, NEW c, NEW o
    PROVE  /\ IsConditional(J(cc, b)) /\ J(cc, b).b = b /\ J(cc, b).op = "jcc"
           /\ IsConditional(Jnz(b)) /\ Jnz(b).b = b /\ Jnz(b).op = "jnz"
           /\ Jmp(b).op = "jmp"
           /\ Jumps(J(cc, b), c, o) <=> Taken(cc, Flags(c, o))
           /\ Jumps(Jnz(b), c, o) <=> Holds(c, o)
  <1>1. /\ IsConditional(J(cc, b)) /\ J(cc, b).b = b /\ J(cc, b).op = "jcc" /\ J(cc, b).cc = cc
        /\ IsConditional(Jnz(b)) /\ Jnz(b).b = b /\ Jnz(b).op = "jnz"
        /\ Jmp(b).op = "jmp"
    BY DEF IsConditional, J, Jnz, Jmp, Instr
  <1>2. Jumps(J(cc, b), c, o) <=> Taken(cc, Flags(c, o))
    BY <1>1 DEF Jumps
  <1>3. Jumps(Jnz(b), c, o) <=> Holds(c, o)
    BY <1>1 DEF Jumps
  <1> QED BY <1>1, <1>2, <1>3

\* Two jumps for values that are not equal or not ordered, and one for the rest.
LEMMA UnlessDecides ==
    ASSUME blocks \in Graphs, NEW b \in Ids, IsTwoWay(b), is_real(blocks[b].cond),
           blocks[b].cond.op \in {"value", "EQ", "NE"},
           NEW eq, eq = blocks[b].jump[IF blocks[b].cond.op = "EQ" THEN 2 ELSE 1],
           NEW ne, ne = blocks[b].jump[IF blocks[b].cond.op = "EQ" THEN 1 ELSE 2],
           NEW d \in Seq(Code), NEW nx, NEW p \in Nat,
           IsAt(d, p + 1, J("NE", ne)), IsAt(d, p + 2, J("P", ne)), IsAt(d, p + 3, Jmp(eq)),
           NEW o \in Outcomes(blocks[b].cond)
    PROVE  Decides(d, nx, p + 1, blocks[b].cond, o,
                   blocks[b].jump[IF Holds(blocks[b].cond, o) THEN 2 ELSE 1])
  <1> DEFINE c == blocks[b].cond
             q == p + 1
  <1>1. c \in Conditions
    BY GraphLemma
  <1>2. q \in Nat /\ q + 1 = p + 2 /\ q + 2 = p + 3
    OBVIOUS
  <1>3. /\ q \in DOMAIN d /\ d[q] = J("NE", ne) /\ q + 1 \in DOMAIN d /\ d[q + 1] = J("P", ne)
        /\ LeadsTo(d, nx, q + 2, eq)
    BY <1>2 DEF IsAt, LeadsTo
  <1> HIDE DEF q
  <1>4. /\ Jumps(d[q], c, o) <=> Taken("NE", Flags(c, o))
        /\ Jumps(d[q + 1], c, o) <=> Taken("P", Flags(c, o))
        /\ IsConditional(d[q]) /\ IsConditional(d[q + 1]) /\ d[q].b = ne /\ d[q + 1].b = ne
    <2>1. /\ Jumps(J("NE", ne), c, o) <=> Taken("NE", Flags(c, o))
          /\ IsConditional(J("NE", ne)) /\ J("NE", ne).b = ne
      BY ONLY JumpKinds
    <2>2. /\ Jumps(J("P", ne), c, o) <=> Taken("P", Flags(c, o))
          /\ IsConditional(J("P", ne)) /\ J("P", ne).b = ne
      BY ONLY JumpKinds
    <2> QED BY ONLY <1>3, <2>1, <2>2
  <1>5. /\ Jumps(d[q], c, o) \/ Jumps(d[q + 1], c, o) => Decides(d, nx, q, c, o, ne)
        /\ ~Jumps(d[q], c, o) /\ ~Jumps(d[q + 1], c, o) => Decides(d, nx, q, c, o, eq)
    <2> HIDE DEF c
    <2> QED BY <1>2, <1>3, <1>4, TwoJumps, Zenon
  <1>6. CASE c.op = "EQ"
    <2>1. Taken("NE", Flags(c, o)) \/ Taken("P", Flags(c, o)) <=> ~Holds(c, o)
      BY <1>1, <1>6, UnlessLemma
    <2> QED BY <1>4, <1>5, <1>6, <2>1 DEF q
  <1>7. CASE c.op # "EQ"
    <2>1. Taken("NE", Flags(c, o)) \/ Taken("P", Flags(c, o)) <=> Holds(c, o)
      BY <1>1, <1>7, UnlessLemma
    <2> QED BY <1>4, <1>5, <1>7, <2>1 DEF q
  <1> QED BY <1>6, <1>7

\* One jump, to the second successor if the condition holds or to the first if
\* it does not; behind it is a way to the other.
LEMMA CheckDecides ==
    ASSUME blocks \in Graphs, NEW b \in Ids, IsTwoWay(b), NEW cc,
           NEW d \in Seq(Code), NEW nx, NEW p \in Nat, NEW o,
           NEW back \in BOOLEAN,
           NEW j0, j0 = blocks[b].jump[1], NEW j1, j1 = blocks[b].jump[2],
           Taken(cc, Flags(blocks[b].cond, o)) <=> Holds(blocks[b].cond, o),
           Taken(Negated(cc), Flags(blocks[b].cond, o)) <=> ~Holds(blocks[b].cond, o),
           back => IsAt(d, p + 1, J(cc, j1)) /\ LeadsTo(d, nx, p + 2, j0),
           ~back => IsAt(d, p + 1, J(Negated(cc), j0)) /\ LeadsTo(d, nx, p + 2, j1)
    PROVE  Decides(d, nx, p + 1, blocks[b].cond, o,
                   blocks[b].jump[IF Holds(blocks[b].cond, o) THEN 2 ELSE 1])
  <1> DEFINE c == blocks[b].cond
             q == p + 1
  <1>1. q \in Nat /\ q + 1 = p + 2
    OBVIOUS
  <1>2. CASE back
    <2>1. q \in DOMAIN d /\ d[q] = J(cc, j1) /\ LeadsTo(d, nx, q + 1, j0)
      BY <1>1, <1>2 DEF IsAt
    <2> HIDE DEF q
    <2>2. IsConditional(d[q]) /\ d[q].b = j1 /\ (Jumps(d[q], c, o) <=> Holds(c, o))
      BY <2>1, JumpKinds
    <2>3. /\ Holds(c, o) => Decides(d, nx, q, c, o, j1)
          /\ ~Holds(c, o) => Decides(d, nx, q, c, o, j0)
      <3> HIDE DEF c
      <3> QED BY <1>1, <2>1, <2>2, OneJump
    <2> QED BY <2>3 DEF q
  <1>3. CASE ~back
    <2>1. q \in DOMAIN d /\ d[q] = J(Negated(cc), j0) /\ LeadsTo(d, nx, q + 1, j1)
      BY <1>1, <1>3 DEF IsAt
    <2> HIDE DEF q
    <2>2. IsConditional(d[q]) /\ d[q].b = j0 /\ (Jumps(d[q], c, o) <=> ~Holds(c, o))
      BY <2>1, JumpKinds
    <2>3. /\ Holds(c, o) => Decides(d, nx, q, c, o, j1)
          /\ ~Holds(c, o) => Decides(d, nx, q, c, o, j0)
      <3> HIDE DEF c
      <3> QED BY <1>1, <2>1, <2>2, OneJump
    <2> QED BY <2>3 DEF q
  <1> QED BY <1>2, <1>3

\* A branch of native code: whichever of the successors were emitted before, the
\* jumps lead to the one that the condition selects.
LEMMA EmitBranchLayout ==
    ASSUME LayoutInv, LabelInv', EmitBranch
    PROVE  LayoutInv'
  <1> DEFINE b == Top.b
             c == blocks[b].cond
             j0 == blocks[b].jump[1]
             j1 == blocks[b].jump[2]
             back == Black(j1) /\ ~Black(j0)
             bc == BranchCode(b, back)
             unless == is_real(c) /\ c.op \in {"value", "EQ", "NE"}
             eq == blocks[b].jump[IF c.op = "EQ" THEN 2 ELSE 1]
             ne == blocks[b].jump[IF c.op = "EQ" THEN 1 ELSE 2]
             cc == IF c.op = "value" THEN "NE" ELSE compile_compare(c)
  <1>1. /\ work # <<>> /\ Top.pc = "code" /\ blocks' = blocks /\ color' = color /\ IsTwoWay(b)
    BY DEF EmitBranch, EmitKeep
  <1>2. /\ blocks \in Graphs /\ Top \in Frames /\ b \in Ids
        /\ code \in Seq(Code) /\ Below \in Seq(Frames)
    BY <1>1, TopLemma DEF LayoutInv
  <1>3. j0 \in Ids /\ j1 \in Ids /\ Null \notin Ids /\ c \in Conditions
    BY <1>1, <1>2, GraphLemma DEF IsTwoWay
  <1>4. Statements(b) \in Seq(Code) /\ <<Cond(b)>> \in Seq(Code) /\ bc \in Seq(Code)
    <2>1. Cond(b) \in Code
      BY <1>2, InstructionTypes
    <2>2. back \in BOOLEAN
      OBVIOUS
    <2>3. bc \in Seq(Code)
      <3> HIDE DEF back
      <3> QED BY <1>1, <1>2, <2>2, BranchLemma
    <2>4. <<Cond(b)>> \in Seq(Code)
      BY ONLY <2>1
    <2> QED BY <1>2, <2>3, <2>4, StatementsLemma
  <1>5. Jmp(j1) \in Code /\ <<Jmp(j1)>> \in Seq(Code)
    <2>1. Jmp(j1) \in Code
      BY <1>2, <1>3, InstructionTypes
    <2> QED BY ONLY <2>1
  <1>6. /\ unless => bc = <<J("NE", ne), J("P", ne), Jmp(eq)>> /\ ~reversed(b, back)
        /\ ~unless => /\ bc = IF back THEN <<J(cc, j1)>> ELSE <<J(Negated(cc), j0)>>
                      /\ reversed(b, back) <=> back
    BY <1>3 DEF BranchCode, reversed, Conditions, is_real
  <1>7. ASSUME NEW x \in Seq(Code)
        PROVE  code \o Statements(b) \o <<Cond(b)>> \o x = code \o (Statements(b) \o (<<Cond(b)>> \o x))
    <2> DEFINE h == <<Cond(b)>>
               s == Statements(b)
    <2>1. h \in Seq(Code) /\ s \in Seq(Code) /\ code \in Seq(Code) /\ x \in Seq(Code)
      BY <1>2, <1>4
    <2> HIDE DEF h, s
    <2>2. RegroupsFour(code, s, h, x)
      BY <2>1, FourParts
    <2> QED BY ONLY <2>2 DEF RegroupsFour, h, s
  <1>8. /\ Black(j1) =>
              /\ work' = Append(Below, Enter(j0))
              /\ code' = IF reversed(b, back) THEN code \o (Statements(b) \o (<<Cond(b)>> \o bc))
                         ELSE code \o (Statements(b) \o (<<Cond(b)>> \o (bc \o <<Jmp(j1)>>)))
        /\ ~Black(j1) =>
              /\ work' = Below \o <<Enter(j0), Enter(j1)>>
              /\ code' = code \o (Statements(b) \o (<<Cond(b)>> \o bc))
    <2> DEFINE branch == code \o Statements(b) \o <<Cond(b)>> \o bc
    <2>1. /\ Black(j1) =>
                /\ work' = Append(Below, Enter(j0))
                /\ code' = IF reversed(b, back) THEN branch ELSE Append(branch, Jmp(j1))
          /\ ~Black(j1) =>
                /\ work' = Below \o <<Enter(j0), Enter(j1)>>
                /\ code' = branch
      BY Zenon DEF EmitBranch
    <2>2. branch = code \o (Statements(b) \o (<<Cond(b)>> \o bc))
      BY <1>4, <1>7
    <2>3. Append(branch, Jmp(j1)) = code \o (Statements(b) \o (<<Cond(b)>> \o (bc \o <<Jmp(j1)>>)))
      <3> DEFINE h == <<Cond(b)>>
                 s == Statements(b)
                 l == <<Jmp(j1)>>
                 r == (code \o s) \o h
      <3>1. /\ h \in Seq(Code) /\ s \in Seq(Code) /\ code \in Seq(Code) /\ bc \in Seq(Code)
            /\ l \in Seq(Code)
        BY <1>2, <1>4, <1>5
      <3> HIDE DEF h, s, bc
      <3>2. code \o s \in Seq(Code)
        BY ONLY <3>1, ConcatEntries
      <3>3. r \in Seq(Code)
        BY ONLY <3>1, <3>2, ConcatEntries
      <3> HIDE DEF r
      <3>4. r \o bc \in Seq(Code) /\ bc \o l \in Seq(Code)
        <4> HIDE DEF l
        <4> QED BY ONLY <3>1, <3>3, ConcatEntries
      <3>5. Append(r \o bc, Jmp(j1)) = (r \o bc) \o l
        BY ONLY <1>5, <3>4, AppendIsConcat
      <3>6. (r \o bc) \o l = r \o (bc \o l)
        <4> HIDE DEF l
        <4>1. r \in Seq(Code) /\ bc \in Seq(Code) /\ l \in Seq(Code)
          BY <3>1, <3>3
        <4>2. Regroups(r, bc, l)
          BY <4>1, CodeAssociative
        <4> QED BY ONLY <4>2 DEF Regroups
      <3>7. r \o (bc \o l) = code \o (s \o (h \o (bc \o l)))
        BY <1>7, <3>4 DEF r, h, s
      <3>8. branch = r \o bc
        BY DEF r, h, s
      <3> QED BY ONLY <3>5, <3>6, <3>7, <3>8 DEF h, s, l
    <2> HIDE DEF branch, bc, back, j0, j1, b
    <2> QED BY <2>1, <2>2, <2>3
  <1>9. /\ FrameInv' /\ ~AtLabel'
        /\ back => Coming' = j0
        /\ ~Black(j1) => Coming' = j1
    <2>1. CASE Black(j1)
      <3>1. work' = Append(Below, Enter(j0))
        BY <1>8, <2>1
      <3> QED BY <1>1, <1>3, <2>1, <3>1, PushCall DEF Black
    <2>2. CASE ~Black(j1)
      <3> DEFINE x == <<Enter(j0), Enter(j1)>>
      <3>1. work' = Below \o x
        BY <1>8, <2>2, Zenon
      <3>2. Enter(j0) \in Frames /\ Enter(j1) \in Frames /\ Enter(j0).pc # "code" /\ Enter(j1).pc # "code"
        BY <1>2, <1>3, InstructionTypes DEF Enter
      <3>3. x \in Seq(Frames) /\ x # <<>> /\ x[Len(x)] = Enter(j1) /\ \A k \in DOMAIN x : x[k].pc # "code"
        BY ONLY <3>2
      <3> HIDE DEF x
      <3> QED BY <1>1, <2>2, <3>1, <3>3, PushCalls, Zenon DEF Black
    <2> QED BY <2>1, <2>2
  <1>10. CASE unless
    <2> DEFINE bare == <<J("NE", ne), J("P", ne), Jmp(eq)>>
    <2>1. PICK u \in Seq(Code) : /\ u = bare \/ u = bare \o <<Jmp(j1)>>
                                 /\ code' = code \o (Statements(b) \o (<<Cond(b)>> \o u))
      <3>1. bc = bare /\ ~reversed(b, back) /\ bare \in Seq(Code)
        BY <1>4, <1>6, <1>10
      <3>2. bare \o <<Jmp(j1)>> \in Seq(Code)
        <4> HIDE DEF bare
        <4> QED BY <1>5, <3>1, ConcatEntries
      <3> HIDE DEF bare, bc, back, b, j0, j1
      <3> QED BY <1>8, <3>1, <3>2
    <2>2. /\ J("NE", ne).op = "jcc" /\ J("P", ne).op = "jcc" /\ Jmp(eq).op = "jmp" /\ Jmp(j1).op = "jmp"
      BY DEF J, Jmp, Instr
    <2>3. /\ 1 \in DOMAIN u /\ 2 \in DOMAIN u /\ 3 \in DOMAIN u
          /\ u[1] = J("NE", ne) /\ u[2] = J("P", ne) /\ u[3] = Jmp(eq)
          /\ \A k \in DOMAIN u : u[k].op \in {"jcc", "jnz", "jmp"}
      <3> HIDE DEF ne, eq, j1
      <3>1. CASE u = bare
        BY ONLY <2>2, <3>1
      <3>2. CASE u = bare \o <<Jmp(j1)>>
        <4> DEFINE l == <<Jmp(j1)>>
        <4>1. bare \in Seq(Code) /\ l \in Seq(Code)
          BY <1>4, <1>5, <1>6, <1>10
        <4>2. DOMAIN bare = 1 .. 3 /\ DOMAIN l = {1} /\ l[1] = Jmp(j1)
              /\ bare[1] = J("NE", ne) /\ bare[2] = J("P", ne) /\ bare[3] = Jmp(eq)
          OBVIOUS
        <4> HIDE DEF bare, l
        <4>3. /\ \A i \in DOMAIN bare : i \in DOMAIN (bare \o l) /\ (bare \o l)[i] = bare[i]
              /\ \A i \in DOMAIN (bare \o l) :
                   i \in DOMAIN bare \/ (i - Len(bare) \in DOMAIN l /\ (bare \o l)[i] = l[i - Len(bare)])
          BY ONLY <4>1, ConcatEntries
        <4>4. u = bare \o l
          BY <3>2 DEF l
        <4>5. /\ 1 \in DOMAIN u /\ 2 \in DOMAIN u /\ 3 \in DOMAIN u
              /\ u[1] = J("NE", ne) /\ u[2] = J("P", ne) /\ u[3] = Jmp(eq)
          BY ONLY <4>2, <4>3, <4>4
        <4>6. \A k \in DOMAIN u : u[k] \in {J("NE", ne), J("P", ne), Jmp(eq), Jmp(j1)}
          <5>1. \A k \in DOMAIN bare : bare[k] \in {J("NE", ne), J("P", ne), Jmp(eq), Jmp(j1)}
            BY ONLY <4>2
          <5>2. \A k \in DOMAIN l : l[k] \in {J("NE", ne), J("P", ne), Jmp(eq), Jmp(j1)}
            BY ONLY <4>2
          <5> QED BY ONLY <4>3, <4>4, <5>1, <5>2
        <4> QED BY ONLY <2>2, <4>5, <4>6
      <3> QED BY ONLY <2>1, <3>1, <3>2
    <2>4. ASSUME NEW p \in Nat, Len(code') = p + Len(u),
                 \A k \in DOMAIN u : p + k \in DOMAIN code' /\ code'[p + k] = u[k],
                 NEW o \in Outcomes(c)
          PROVE  Decides(code', Coming', p + 1, c, o, blocks[b].jump[IF Holds(c, o) THEN 2 ELSE 1])
      <3>1. IsAt(code', p + 1, J("NE", ne)) /\ IsAt(code', p + 2, J("P", ne)) /\ IsAt(code', p + 3, Jmp(eq))
        <4> HIDE DEF ne, eq
        <4> QED BY ONLY <2>3, <2>4 DEF IsAt
      <3>2. code' \in Seq(Code)
        BY <1>1 DEF LabelInv, TypeInv, Code, Ids
      <3>3. is_real(blocks[b].cond) /\ blocks[b].cond.op \in {"value", "EQ", "NE"}
        BY <1>10
      <3> QED BY <1>1, <1>2, <2>4, <3>1, <3>2, <3>3, UnlessDecides, Zenon
    <2> HIDE DEF bare
    <2> QED BY <1>1, <1>9, <2>1, <2>3, <2>4, BranchStep, Zenon
  <1>11. CASE ~unless
    <2>1. ASSUME NEW o \in Outcomes(c)
          PROVE  /\ Taken(cc, Flags(c, o)) <=> Holds(c, o)
                 /\ Taken(Negated(cc), Flags(c, o)) <=> ~Holds(c, o)
      <3> DEFINE ccs == {"E", "NE", "A", "NA", "AE", "NAE", "G", "NG", "GE", "NGE"}
      <3>1. cc \in ccs /\ (Taken(cc, Flags(c, o)) <=> Holds(c, o))
        <4>1. CASE c.op = "value"
          BY <1>3, <1>11, <4>1, ValueLemma
        <4>2. CASE c.op # "value"
          <5>1. is_real(c) => c.op \in {"GE", "GT"}
            BY <1>3, <1>11, <4>2 DEF Conditions
          <5> HIDE DEF c
          <5> QED BY <1>3, <4>2, <5>1, CompareLemma
        <4> QED BY <4>1, <4>2
      <3> HIDE DEF cc, c
      <3>2. Taken(Negated(cc), Flags(c, o)) <=> ~Taken(cc, Flags(c, o))
        BY <3>1, NegatedLemma
      <3> QED BY <3>1, <3>2
    <2>2. code' \in Seq(Code) /\ Len(code') \in Nat
      <3>1. code' \in Seq(Code)
        BY <1>1 DEF LabelInv, TypeInv, Code, Ids
      <3> QED BY <3>1, LenProperties
    <2> DEFINE first == IF back THEN J(cc, j1) ELSE J(Negated(cc), j0)
               rest == IF back THEN j0 ELSE j1
    <2>3. bc = <<first>> /\ (reversed(b, back) <=> back)
      BY <1>6, <1>11
    <2>4. first.op = "jcc" /\ Jmp(j1).op = "jmp"
      BY DEF J, Jmp, Instr
    <2>5. ASSUME NEW u \in Seq(Code), code' = code \o (Statements(b) \o (<<Cond(b)>> \o u)),
                 1 \in DOMAIN u, u[1] = first,
                 \A k \in DOMAIN u : u[k].op \in {"jcc", "jnz", "jmp"},
                 \/ Len(u) = 1 /\ Coming' = rest
                 \/ 2 \in DOMAIN u /\ u[2] = Jmp(rest)
          PROVE  LayoutInv'
      <3>1. ASSUME NEW p \in Nat, Len(code') = p + Len(u),
                   \A k \in DOMAIN u : p + k \in DOMAIN code' /\ code'[p + k] = u[k],
                   NEW o \in Outcomes(c)
            PROVE  Decides(code', Coming', p + 1, c, o, blocks[b].jump[IF Holds(c, o) THEN 2 ELSE 1])
        <4>1. rest # Null
          BY <1>3
        <4>2. IsAt(code', p + 1, first)
          <5> HIDE DEF first
          <5> QED BY ONLY <2>5, <3>1 DEF IsAt
        <4>3. LeadsTo(code', Coming', p + 2, rest)
          <5> HIDE DEF rest
          <5>1. CASE Len(u) = 1 /\ Coming' = rest
            <6>1. p + 2 = Len(code') + 1
              BY ONLY <3>1, <5>1
            <6> QED BY <4>1, <5>1, <6>1 DEF LeadsTo
          <5>2. CASE 2 \in DOMAIN u /\ u[2] = Jmp(rest)
            BY <3>1, <5>2 DEF LeadsTo, IsAt
          <5> QED BY <2>5, <5>1, <5>2
        <4>4. /\ back => IsAt(code', p + 1, J(cc, j1)) /\ LeadsTo(code', Coming', p + 2, j0)
              /\ ~back => IsAt(code', p + 1, J(Negated(cc), j0)) /\ LeadsTo(code', Coming', p + 2, j1)
          BY <4>2, <4>3
        <4>5. /\ Taken(cc, Flags(c, o)) <=> Holds(c, o)
              /\ Taken(Negated(cc), Flags(c, o)) <=> ~Holds(c, o)
          BY <2>1, <3>1
        <4>6. back \in BOOLEAN
          OBVIOUS
        <4> HIDE DEF cc, back, first, rest
        <4> QED BY <1>1, <1>2, <2>2, <3>1, <4>4, <4>5, <4>6, CheckDecides
      <3> HIDE DEF first, rest
      <3> QED BY <1>1, <1>9, <2>5, <3>1, BranchStep
    <2> HIDE DEF cc
    <2>6. CASE back \/ ~Black(j1)
      <3> DEFINE u == <<first>>
      <3>1. u \in Seq(Code) /\ code' = code \o (Statements(b) \o (<<Cond(b)>> \o u))
        <4> HIDE DEF bc, first, b, j1
        <4> QED BY <1>4, <1>8, <2>3, <2>6
      <3>2. 1 \in DOMAIN u /\ u[1] = first /\ Len(u) = 1
            /\ \A k \in DOMAIN u : u[k].op \in {"jcc", "jnz", "jmp"}
        <4> HIDE DEF first
        <4> QED BY ONLY <2>4
      <3>3. Coming' = rest
        BY <1>9, <2>6
      <3> HIDE DEF u, first, rest
      <3> QED BY <2>5, <3>1, <3>2, <3>3
    <2>7. CASE ~back /\ Black(j1)
      <3> DEFINE u == <<first>> \o <<Jmp(j1)>>
      <3>1. code' = code \o (Statements(b) \o (<<Cond(b)>> \o u))
        <4> HIDE DEF bc, first, b, j1
        <4> QED BY <1>8, <2>3, <2>7
      <3>2. <<first>> \in Seq(Code) /\ <<Jmp(j1)>> \in Seq(Code)
        BY <1>4, <1>5, <2>3
      <3>3. rest = j1
        BY <2>7
      <3> HIDE DEF first, rest
      <3>4. u \in Seq(Code) /\ DOMAIN u = {1, 2} /\ u[1] = first /\ u[2] = Jmp(j1)
        BY ONLY <3>2
      <3> HIDE DEF u
      <3>5. \A k \in DOMAIN u : u[k].op \in {"jcc", "jnz", "jmp"}
        BY <2>4, <3>4
      <3> QED BY <2>5, <3>1, <3>3, <3>4, <3>5
    <2> QED BY <2>6, <2>7
  <1> QED BY <1>10, <1>11

\* The same for a branch of the virtual machine: it jumps to the second
\* successor, and the first one comes behind it or was emitted before.
LEMMA EmitVMBranchLayout ==
    ASSUME LayoutInv, LabelInv', EmitVMBranch
    PROVE  LayoutInv'
  <1> DEFINE b == Top.b
             c == blocks[b].cond
             j0 == blocks[b].jump[1]
             j1 == blocks[b].jump[2]
             s == Statements(b)
             h == <<Cond(b)>>
             l == <<Jnz(j1)>>
             e == <<Jmp(j0)>>
             next == [pc |-> "next", b |-> b]
             branch == code \o (s \o (h \o l))
  <1>1. /\ work # <<>> /\ Top.pc = "code" /\ blocks' = blocks /\ color' = color /\ IsTwoWay(b)
    BY DEF EmitVMBranch, EmitKeep
  <1>2. /\ blocks \in Graphs /\ Top \in Frames /\ b \in Ids
        /\ code \in Seq(Code) /\ Below \in Seq(Frames)
    BY <1>1, TopLemma DEF LayoutInv
  <1>3. j0 \in Ids /\ j1 \in Ids /\ Null \notin Ids
    BY <1>1, <1>2, GraphLemma DEF IsTwoWay
  <1>4. /\ s \in Seq(Code) /\ h \in Seq(Code) /\ l \in Seq(Code) /\ e \in Seq(Code)
        /\ <<Cond(b), Jnz(j1)>> = h \o l
    <2>1. Cond(b) \in Code /\ Jnz(j1) \in Code /\ Jmp(j0) \in Code
      BY <1>2, <1>3, InstructionTypes
    <2>2. s \in Seq(Code)
      BY <1>2, StatementsLemma
    <2> HIDE DEF s, b, j0, j1
    <2> QED BY ONLY <2>1, <2>2
  <1>5. next \in Frames /\ Enter(j0) \in Frames /\ next.pc = "next" /\ Enter(j0).pc = "enter"
    BY <1>2, <1>3 DEF Frames, Enter
  <1>6. IF Black(j0)
        THEN code' = EmitJmp((code \o s) \o (h \o l), j0) /\ work' = Append(Below, next)
        ELSE code' = (code \o s) \o (h \o l) /\ work' = Append(Append(Below, next), Enter(j0))
    BY <1>4 DEF EmitVMBranch
  <1>7. /\ Jnz(j1).op = "jnz" /\ Jmp(j0).op = "jmp"
    BY DEF Jnz, Jmp, Instr
  <1>8. l \o e \in Seq(Code) /\ DOMAIN (l \o e) = {1, 2} /\ (l \o e)[1] = Jnz(j1) /\ (l \o e)[2] = Jmp(j0)
        /\ DOMAIN l = {1} /\ Len(l) = 1 /\ l[1] = Jnz(j1) /\ Len(h) = 1
    <2> HIDE DEF b, j0, j1
    <2> QED BY ONLY <1>4
  <1>9. ASSUME NEW u \in Seq(Code), code' = code \o (s \o (h \o u)), FrameInv', ~AtLabel',
               1 \in DOMAIN u, u[1] = Jnz(j1), \A k \in DOMAIN u : u[k].op \in {"jcc", "jnz", "jmp"},
               \/ Len(u) = 1 /\ Coming' = j0
               \/ 2 \in DOMAIN u /\ u[2] = Jmp(j0)
        PROVE  LayoutInv'
    <2>1. code' \in Seq(Code) /\ Len(code') \in Nat
      <3>1. code' \in Seq(Code)
        BY <1>1 DEF LabelInv, TypeInv, Code, Ids
      <3> QED BY <3>1, LenProperties
    <2>2. ASSUME NEW p \in Nat, Len(code') = p + Len(u),
                 \A k \in DOMAIN u : p + k \in DOMAIN code' /\ code'[p + k] = u[k],
                 NEW o \in Outcomes(c)
          PROVE  Decides(code', Coming', p + 1, c, o, blocks[b].jump[IF Holds(c, o) THEN 2 ELSE 1])
      <3> DEFINE q == p + 1
      <3>1. q \in Nat /\ q + 1 = p + 2
        BY <2>2
      <3>2. q \in DOMAIN code' /\ code'[q] = Jnz(j1)
        BY <1>9, <2>2
      <3>3. LeadsTo(code', Coming', q + 1, j0)
        <4> HIDE DEF q
        <4>1. CASE Len(u) = 1 /\ Coming' = j0
          <5>1. q + 1 = Len(code') + 1
            BY ONLY <2>2, <3>1, <4>1
          <5> QED BY <1>3, <4>1, <5>1 DEF LeadsTo
        <4>2. CASE 2 \in DOMAIN u /\ u[2] = Jmp(j0)
          BY <2>2, <3>1, <4>2 DEF LeadsTo, IsAt
        <4> QED BY <1>9, <4>1, <4>2
      <3> HIDE DEF q
      <3>4. IsConditional(code'[q]) /\ code'[q].b = j1 /\ (Jumps(code'[q], c, o) <=> Holds(c, o))
        BY <3>2, JumpKinds
      <3>5. /\ Holds(c, o) => Decides(code', Coming', q, c, o, j1)
            /\ ~Holds(c, o) => Decides(code', Coming', q, c, o, j0)
        <4> HIDE DEF c
        <4> QED BY <2>1, <3>1, <3>2, <3>3, <3>4, OneJump
      <3> QED BY <3>5 DEF q
    <2>3. code' = code \o (Statements(b) \o (<<Cond(b)>> \o u))
      BY <1>9 DEF s, h
    <2> HIDE DEF s, h
    <2> QED BY <1>1, <1>9, <2>2, <2>3, BranchStep
  <1> HIDE DEF s, h, l, e, next
  <1>10. /\ branch \in Seq(Code) /\ (code \o s) \o (h \o l) = branch
         /\ branch \o e = code \o (s \o (h \o (l \o e)))
    <2>1. s \in Seq(Code) /\ h \in Seq(Code) /\ l \in Seq(Code) /\ e \in Seq(Code) /\ code \in Seq(Code)
      BY <1>2, <1>4
    <2>2. h \o l \in Seq(Code)
      BY <2>1, CodeConcat
    <2>3. s \o (h \o l) \in Seq(Code)
      BY <2>1, <2>2, CodeConcat
    <2>4. branch \in Seq(Code)
      BY <2>1, <2>3, CodeConcat
    <2>5. RegroupsFour(code, s, h, l) /\ RegroupsFour(code, s, h \o l, e) /\ Regroups(h, l, e)
      BY <2>1, <2>2, FourParts, CodeAssociative
    <2> QED BY ONLY <2>4, <2>5 DEF Regroups, RegroupsFour
  <1>11. CASE Black(j0)
    <2> DEFINE x == <<next>>
               u == l \o e
    <2>1. x \in Seq(Frames) /\ DOMAIN x = {1} /\ x[1] = next /\ Len(x) = 1 /\ x # <<>>
      BY ONLY <1>5
    <2>2. work' = Below \o x
      BY <1>2, <1>5, <1>6, <1>11, AppendIsConcat
    <2> HIDE DEF x
    <2>3. \A k \in DOMAIN x : x[k].pc # "code"
      BY <1>5, <2>1
    <2>4. FrameInv' /\ work' # <<>> /\ Top' = next
      BY <1>1, <2>1, <2>2, <2>3, FrameStep
    <2>5. ~AtLabel'
      BY <1>5, <2>4 DEF AtLabel
    <2>6. branch # <<>> /\ branch[Len(branch)].op # "jmp"
      <3> DEFINE a == code \o (s \o h)
      <3>1. code \in Seq(Code) /\ s \in Seq(Code) /\ h \in Seq(Code) /\ l \in Seq(Code)
        BY <1>2, <1>4
      <3>0. s \o h \in Seq(Code)
        BY ONLY <3>1, CodeConcat
      <3>2. a \in Seq(Code)
        BY ONLY <3>0, <3>1, CodeConcat
      <3>3. branch = a \o l
        <4>1. RegroupsFour(code, s, h, l)
          BY <3>1, FourParts
        <4> QED BY ONLY <4>1 DEF RegroupsFour
      <3> HIDE DEF a, branch
      <3>4. Len(branch) = Len(a) + 1 /\ Len(a) + 1 \in DOMAIN branch /\ branch[Len(a) + 1] = l[1]
        <4>1. /\ \A i \in DOMAIN l : Len(a) + i \in DOMAIN (a \o l) /\ (a \o l)[Len(a) + i] = l[i]
          BY ONLY <1>4, <3>2, ConcatEntries
        <4>2. Len(a \o l) = Len(a) + Len(l)
          BY ONLY <1>4, <3>2, ConcatProperties
        <4> QED BY ONLY <1>8, <3>3, <4>1, <4>2
      <3>5. branch[Len(branch)].op = "jnz"
        BY <1>7, <1>8, <3>4
      <3> QED BY <3>4, <3>5
    <2>7. code' = code \o (s \o (h \o u))
      <3>1. code' = EmitJmp(branch, j0)
        BY <1>6, <1>10, <1>11
      <3> HIDE DEF branch
      <3>2. code' = branch \o e
        BY <1>2, <1>3, <1>10, <2>6, <3>1, EmitJmpFull DEF e
      <3> QED BY <1>10, <3>2 DEF branch
    <2>8. u \in Seq(Code) /\ DOMAIN u = {1, 2} /\ u[1] = Jnz(j1) /\ u[2] = Jmp(j0)
      BY <1>8
    <2> HIDE DEF u
    <2>9. \A k \in DOMAIN u : u[k].op \in {"jcc", "jnz", "jmp"}
      BY <1>7, <2>8
    <2> QED BY <1>9, <2>4, <2>5, <2>7, <2>8, <2>9
  <1>12. CASE ~Black(j0)
    <2> DEFINE x == <<next>> \o <<Enter(j0)>>
    <2>1. x \in Seq(Frames) /\ DOMAIN x = {1, 2} /\ x[1] = next /\ x[2] = Enter(j0) /\ Len(x) = 2 /\ x # <<>>
      BY ONLY <1>5
    <2>2. work' = Below \o x
      <3>1. Append(Below, next) = Below \o <<next>> /\ Append(Below, next) \in Seq(Frames)
        BY <1>2, <1>5, AppendIsConcat
      <3>2. work' = (Below \o <<next>>) \o <<Enter(j0)>>
        BY <1>5, <1>6, <1>12, <3>1, AppendIsConcat
      <3>3. <<next>> \in Seq(Frames) /\ <<Enter(j0)>> \in Seq(Frames)
        BY <1>5
      <3> QED BY <1>2, <3>2, <3>3, ConcatAssociative
    <2> HIDE DEF x
    <2>3. \A k \in DOMAIN x : x[k].pc # "code"
      BY <1>5, <2>1
    <2>4. FrameInv' /\ ~AtLabel' /\ Coming' = j0
      <3>1. /\ FrameInv' /\ ~AtLabel'
            /\ Coming' = IF color'[j0] # "black" THEN j0 ELSE Null
        BY <1>1, <2>1, <2>2, <2>3, PushCalls
      <3> QED BY <1>1, <1>12, <3>1 DEF Black
    <2>5. code' = code \o (s \o (h \o l))
      BY <1>6, <1>10, <1>12
    <2>6. \A k \in DOMAIN l : l[k].op \in {"jcc", "jnz", "jmp"}
      BY <1>7, <1>8
    <2> QED BY <1>4, <1>8, <1>9, <2>4, <2>5, <2>6
  <1> QED BY <1>11, <1>12

\* An instruction at the end that nothing has to follow, where no block comes
\* next and no label is open.
LEMMA TailStep ==
    ASSUME LayoutInv, LabelInv', FrameInv', ~AtLabel', blocks' = blocks, code # <<>>,
           Coming = Null, ~AtLabel, NEW i, i.op \in {"jmp", "ret"}, i \in Code,
           code' = code \/ code' = Append(code, i)
    PROVE  LayoutInv'
  <1>1. code \in Seq(Code) /\ Len(code) \in Nat /\ DOMAIN code = 1 .. Len(code)
    <2>1. code \in Seq(Code)
      BY DEF LayoutInv, LabelInv, TypeInv
    <2> QED BY <2>1, LenProperties
  <1>2. /\ \A p \in DOMAIN code : p \in DOMAIN code' /\ code'[p] = code[p]
        /\ \A p \in DOMAIN code' : p \in DOMAIN code \/ code'[p] = i
        /\ Len(code) <= Len(code')
    <2>1. CASE code' = code
      BY <1>1, <2>1
    <2>2. CASE code' = Append(code, i)
      <3> DEFINE d == Append(code, i)
      <3>1. /\ Len(d) = Len(code) + 1 /\ DOMAIN d = 1 .. Len(code) + 1
            /\ \A p \in 1 .. Len(code) : d[p] = code[p]
            /\ d[Len(code) + 1] = i
        BY ONLY <1>1, i \in Code
      <3> HIDE DEF d
      <3>2. code' = d
        BY <2>2 DEF d
      <3> QED BY ONLY <1>1, <3>1, <3>2
    <2> QED BY <2>1, <2>2
  <1>3. Prolongs(code, Coming, code', Coming')
    BY <1>2 DEF Prolongs, IsAt
  <1>4. \A p \in DOMAIN code' : p \in DOMAIN code \/ Follows(code', Coming', p)
    <2>1. \A p : code'[p] = i => Follows(code', Coming', p)
      BY DEF Follows
    <2> QED BY <1>2, <2>1
  <1> QED BY <1>3, <1>4, LayoutStep

\* What remains of that branch is behind a jump, so nothing comes to it.
LEMMA EmitVMNextLayout ==
    ASSUME LayoutInv, LabelInv', EmitVMNext
    PROVE  LayoutInv'
  <1> DEFINE b == Top.b
             j1 == blocks[b].jump[2]
  <1>1. /\ work # <<>> /\ Top.pc = "next" /\ blocks' = blocks /\ color' = color
    BY DEF EmitVMNext, EmitKeep
  <1>2. /\ blocks \in Graphs /\ Top \in Frames /\ b \in Ids
        /\ code \in Seq(Code) /\ Below \in Seq(Frames)
    BY <1>1, TopLemma DEF LayoutInv
  <1>3. j1 \in Ids
    <2>1. work \in Seq(Frames)
      BY DEF LayoutInv, LabelInv, TypeInv
    <2>2. Len(work) \in DOMAIN work /\ Top = work[Len(work)]
      <3>1. Len(work) \in Nat /\ Len(work) > 0 /\ Top = work[Len(work)]
        BY <1>1, <2>1, FrontLast DEF Top
      <3> QED BY <2>1, <3>1, LenProperties
    <2>3. j1 # Null
      BY <1>1, <2>2 DEF LayoutInv, LabelInv, TypeInv
    <2> QED BY <1>2, <2>3, GraphLemma
  <1>4. Coming = Null /\ ~AtLabel
    BY <1>1 DEF Coming, AtLabel
  <1>5. code # <<>>
    <2>1. work = <<Enter(1)>> => Top = Enter(1)
      BY DEF Top, Last
    <2>2. Enter(1).pc # "next"
      BY DEF Enter
    <2> QED BY <1>1, <2>1, <2>2 DEF LayoutInv
  <1>6. /\ Black(j1) => code' = EmitJmp(code, j1) /\ work' = Below
        /\ ~Black(j1) => work' = Append(Below, Enter(j1)) /\ code' = code
    BY DEF EmitVMNext
  <1>7. FrameInv' /\ ~AtLabel'
    <2>1. CASE Black(j1)
      BY <1>1, <1>6, <2>1, PopCall
    <2>2. CASE ~Black(j1)
      BY <1>1, <1>3, <1>6, <2>2, PushCall
    <2> QED BY <2>1, <2>2
  <1>8. code' = code \/ code' = Append(code, Jmp(j1))
    BY <1>6 DEF EmitJmp
  <1>9. Jmp(j1) \in Code /\ Jmp(j1).op = "jmp"
    BY <1>2, <1>3, InstructionTypes DEF Jmp, Instr
  <1> QED BY <1>1, <1>2, <1>4, <1>5, <1>7, <1>8, <1>9, TailStep
---------------------------------------------------------------------------

\* Steps behind the end of the walk keep the layout.
LEMMA ClosedLayout ==
    ASSUME LayoutInv, LabelInv', Emitted, blocks' = blocks, work' = work,
           code' = code \/ code' = Append(code, Ret(Null))
    PROVE  LayoutInv'
  <1>1. work = <<>> /\ work' = <<>> /\ code # <<>>
    <2>1. <<>> # <<Enter(1)>>
      OBVIOUS
    <2> QED BY <2>1 DEF Emitted, LayoutInv
  <1>2. Coming = Null /\ ~AtLabel /\ ~AtLabel' /\ FrameInv'
    BY <1>1 DEF Coming, AtLabel, FrameInv
  <1>3. Ret(Null) \in Code /\ Ret(Null).op = "ret"
    BY DEF Ret, Instr, Code, Opcodes, Flagged
  <1> QED BY <1>1, <1>2, <1>3, TailStep

\* Nothing is emitted at first, and the first block comes next.
LEMMA InitLayout ==
    ASSUME Init
    PROVE  LayoutInv
  <1>1. LabelInv
    BY InitInv
  <1>2. /\ blocks \in Graphs /\ code = <<>> /\ work = <<Enter(1)>>
        /\ color = [b \in DOMAIN blocks |-> "white"]
    BY DEF Init
  <1>3. ~Black(1)
    <2>1. 1 \in DOMAIN blocks
      BY <1>2, GraphLemma DEF Ids
    <2> QED BY <1>2, <2>1 DEF Black
  <1>4. Enter(1).pc = "enter"
    BY DEF Enter
  <1>5. \A k \in DOMAIN work : work[k].pc = "enter"
    BY <1>2, <1>4
  <1>6. FrameInv
    BY <1>5 DEF FrameInv
  <1>7. Top = Enter(1)
    BY <1>2 DEF Top, Last
  <1>8. ~AtLabel
    BY <1>4, <1>7 DEF AtLabel
  <1>9. DOMAIN code = {}
    BY <1>2
  <1> QED BY <1>1, <1>2, <1>3, <1>6, <1>8, <1>9 DEF LayoutInv

\* A step that changes none of it.
LEMMA SameLayout ==
    ASSUME LayoutInv, LabelInv', blocks' = blocks, color' = color, work' = work, code' = code
    PROVE  LayoutInv'
  <1>1. /\ Top' = Top /\ Coming' = Coming /\ (AtLabel' <=> AtLabel) /\ (FrameInv' <=> FrameInv)
    BY DEF Top, Coming, AtLabel, FrameInv, Black, Null
  <1>2. code \in Seq(Code) /\ Len(code) \in Nat
    <2>1. code \in Seq(Code)
      BY DEF LayoutInv, LabelInv, TypeInv
    <2> QED BY <2>1, LenProperties
  <1>3. Prolongs(code, Coming, code', Coming')
    BY <1>1, <1>2 DEF Prolongs, IsAt, LeadsTo
  <1>4. AtLabel' => IsAt(code', Len(code'), Label(Top'.b))
    BY <1>1 DEF LayoutInv
  <1>5. \A i \in DOMAIN code' : i \in DOMAIN code /\ (AtLabel /\ i = Len(code) => AtLabel' /\ i = Len(code'))
    BY <1>1
  <1> QED BY <1>1, <1>3, <1>4, <1>5, LayoutStep DEF LayoutInv

\* Every step keeps the layout.
LEMMA NextLayout ==
    ASSUME LayoutInv, [Next]_emission
    PROVE  LayoutInv'
  <1>1. LabelInv'
    BY NextInv DEF LayoutInv
  <1>2. CASE Resolve
    <2>1. code' = code \/ code' = Append(code, Ret(Null))
      BY <1>2 DEF Resolve, Closed
    <2> QED BY <1>1, <1>2, <2>1, ClosedLayout DEF Resolve
  <1>3. CASE OptimizeJump
    <2>1. blocks' = blocks /\ color' = color /\ work' = work /\ code' = code
      BY <1>3 DEF OptimizeJump
    <2> QED BY <1>1, <2>1, SameLayout
  <1>4. CASE UNCHANGED emission
    <2>1. blocks' = blocks /\ color' = color /\ work' = work /\ code' = code
      BY <1>4 DEF emission
    <2> QED BY <1>1, <2>1, SameLayout
  <1> QED BY <1>1, <1>2, <1>3, <1>4, EnterBlockLayout, EmitCodeLayout, EmitBranchLayout,
             EmitVMBranchLayout, EmitVMNextLayout DEF Next

\* When no call is under way, nothing comes next and no label is open.
LEMMA LayoutLaidOut ==
    ASSUME LayoutInv
    PROVE  LaidOut
  <1>1. JumpsLabelled
    BY InvJumps DEF LayoutInv
  <1>2. ASSUME Emitted
        PROVE  IsAt(code, 1, Label(1)) /\ \A i \in DOMAIN code : Follows(code, Null, i)
    <2>1. work = <<>> /\ code # <<>>
      <3>1. <<>> # <<Enter(1)>>
        OBVIOUS
      <3> QED BY <1>2, <3>1 DEF Emitted, LayoutInv
    <2>2. Coming = Null /\ ~AtLabel
      BY <2>1 DEF Coming, AtLabel
    <2>3. code \in Seq(Code)
      BY DEF LayoutInv, LabelInv, TypeInv
    <2>4. 1 \in DOMAIN code /\ code[1] = Label(1)
      BY <2>1, <2>3, EmptySeq, LenProperties DEF LayoutInv
    <2> QED BY <2>2, <2>4 DEF LayoutInv, IsAt
  <1> QED BY <1>1, <1>2 DEF LaidOut

\* For every flow graph, both targets and every outcome of the conditions: the
\* code that compile_block and vm_gen_node leave is a layout of the graph.  It
\* starts with the first block, behind every label, statement and condition
\* control comes to what the graph has there, whether that block was emitted
\* before, follows or is jumped to, and every jump has its label.
THEOREM CodeLaidOut == Spec => []LaidOut
  <1>1. Init => LayoutInv
    BY InitLayout
  <1>2. LayoutInv /\ [Next]_emission => LayoutInv'
    BY NextLayout
  <1>3. LayoutInv => LaidOut
    BY LayoutLaidOut
  <1> QED BY <1>1, <1>2, <1>3, PTL DEF Spec
=============================================================================
