--------------------------- MODULE PrepReference ---------------------------
(***************************************************************************)
(* What C asks of the preprocessor, written without its stacks: a          *)
(* condition is cut at the operator that is applied last, a group from #if *)
(* to #endif is replaced by its first section whose condition holds, and   *)
(* an included file stands in place of its #include.                       *)
(***************************************************************************)
EXTENDS PrepExpression, FiniteSets, FiniteSetsExt, SequencesExt

CONSTANTS Names, NULL

---------------------------------------------------------------------------
(* Conditions.                                                             *)

\* Number of parentheses open in front of token i.
Depth(s, i) ==
    Cardinality({j \in 1 .. i - 1 : s[j].k = "("}) - Cardinality({j \in 1 .. i - 1 : s[j].k = ")"})

\* Token i is an operator between two operands, outside of parentheses.
Infix(s, i) ==
    /\ i > 1 /\ Depth(s, i) = 0
    /\ s[i - 1].k \in {"num", "name", ")"}

Places(s, ops) == {i \in DOMAIN s : s[i].k \in ops /\ Infix(s, i)}

Left(s, i) == SubSeq(s, 1, i - 1)
Right(s, i) == SubSeq(s, i + 1, Len(s))

\* The colon that belongs to the question mark at q.
Colon(s, q) ==
    Min({c \in Places(s, {":"}) :
           /\ c > q
           /\ Cardinality({i \in Places(s, {"?"}) : q < i /\ i < c})
                = Cardinality({i \in Places(s, {":"}) : q < i /\ i < c})})

\* Only the operand that is used counts for what goes wrong.
Lazy(cond, l, value, used) ==
    [value EXCEPT !.err = IF l.err # "" THEN l.err ELSE IF cond THEN used.err ELSE ""]

Strict(l, r, value) ==
    [value EXCEPT !.err = IF l.err # "" THEN l.err ELSE IF r.err # "" THEN r.err ELSE @]

\* The operator of s that is applied last, and its operands.
CutAtQuestion(s, q, colon) ==
    [op |-> s[q], of |-> <<Left(s, q), SubSeq(s, q + 1, colon - 1), Right(s, colon)>>]
CutBetween(s, i) == [op |-> s[i], of |-> <<Left(s, i), Right(s, i)>>]
CutPrefix(s) ==
    [op |-> s[1],
     of |-> CASE s[1].k \in {"num", "name"} -> <<>>
              [] s[1].k = "(" -> <<SubSeq(s, 2, Len(s) - 1)>>
              [] OTHER -> <<Tail(s)>>]
CutFrom(s, questions, levels) ==
    IF questions # {} THEN CutAtQuestion(s, Min(questions), Colon(s, Min(questions)))
    ELSE IF levels # {} THEN CutBetween(s, Max(Places(s, Level[Max(levels)])))
    ELSE CutPrefix(s)
Cut(s) == CutFrom(s, Places(s, {"?"}), {n \in DOMAIN Level : Places(s, Level[n]) # {}})

Chosen(a, b, d) ==
    LET used == IF a.v # 0 THEN b ELSE d
    IN  Lazy(TRUE, a, [v |-> Convert(used.v, b.u \/ d.u), u |-> b.u \/ d.u, err |-> ""], used)

Prefix(op, r) ==
    LET value == Unary(op, r)
    IN  CASE op = "(" -> r
          [] op = "!" -> Strict(r, r, [value EXCEPT !.u = FALSE])
          [] OTHER -> Strict(r, r, value)

Between(op, l, r) ==
    LET value == Binary(op, l, r)
    IN  CASE op = "&&" -> Lazy(l.v # 0, l, value, r)
          [] op = "||" -> Lazy(l.v = 0, l, value, r)
          [] OTHER -> Strict(l, r, value)

Applied(op, n, x) ==
    CASE n = 3 -> Chosen(x[1], x[2], x[3])
      [] n = 2 -> Between(op.k, x[1], x[2])
      [] n = 1 -> Prefix(op.k, x[1])
      [] n = 0 /\ op.k = "num" -> [v |-> op.v, u |-> op.u, err |-> ""]
      [] n = 0 /\ op.k = "name" -> [v |-> 0, u |-> FALSE, err |-> ""]

RECURSIVE ValueOfCut(_)
ValueOfCut(c) ==
    Applied(c.op, Len(c.of), [k \in DOMAIN c.of |-> ValueOfCut(Cut(c.of[k]))])

\* The value of condition s: [v, u, err].
ValueOf(s) == ValueOfCut(Cut(s))

---------------------------------------------------------------------------
(* Lines.                                                                  *)

Conds == {"if", "ifdef", "ifndef"}

\* How many groups are open in front of line k of f, from line i on.
Open(f, i, k) ==
    Cardinality({j \in i .. k - 1 : f[j].kind \in Conds})
        - Cardinality({j \in i .. k - 1 : f[j].kind = "endif"})

\* The lines of the group at i that divide it: itself, #elif, #else, #endif.
Divisions(f, i) ==
    LET end == Min({k \in i + 1 .. Len(f) : f[k].kind = "endif" /\ Open(f, i, k) = 1})
    IN  {k \in i .. end : k = i \/ (Open(f, i, k) = 1 /\ f[k].kind \in {"elif", "else", "endif"})}

Behind(D, k) == Min({d \in D : d > k})

\* A group needs its #endif, and #elif, #else and #endif need a group.
Balanced(f) ==
    /\ Open(f, 1, Len(f) + 1) = 0
    /\ \A k \in DOMAIN f :
          /\ Open(f, 1, k) >= 0
          /\ f[k].kind \in {"elif", "else", "endif"} => Open(f, 1, k) > 0

DefinedIn(m) == {n \in Names : m[n] # NULL}

\* What a condition is with the macros m: [v, u, err].
CondValue(line, m) ==
    CASE line.kind \in {"if", "elif"} ->
           ValueOf(Substituted(line.cond, [n \in DefinedIn(m) |-> m[n].number]))
      [] line.kind \in {"ifdef", "ifndef"} /\ line.name = NULL -> [Truth(FALSE) EXCEPT !.err = "error"]
      [] line.kind = "ifdef" -> Truth(line.name \in DefinedIn(m))
      [] line.kind = "ifndef" -> Truth(line.name \notin DefinedIn(m))
      [] line.kind = "else" -> Truth(TRUE)

\* A state of reading: macros, tokens, whether there was an error, and what
\* #line has added to the line numbers of this file and has called it.
RECURSIVE Lines(_, _, _, _, _)

\* The section of a group that is read, or its #endif.  A condition counts
\* only if those before it are false.
RECURSIVE Section(_, _, _, _)
SectionIf(c, f, D, k, m) ==
    IF c.err = "error" THEN [at |-> k, err |-> TRUE]
    ELSE IF c.v # 0 THEN [at |-> k, err |-> FALSE]
    ELSE Section(f, D, Behind(D, k), m)
Section(f, D, k, m) ==
    IF f[k].kind = "endif" THEN [at |-> k, err |-> FALSE]
    ELSE SectionIf(CondValue(f[k], m), f, D, k, m)

TokenOf(tok, m, path, line) ==
    CASE tok.t = "name" /\ m[tok.name] # NULL -> m[tok.name]
      [] tok.t = "line" -> [t |-> "number", number |-> line]
      [] tok.t = "file" -> [t |-> "string", pieces |-> <<path>>]
      [] OTHER -> tok

Wrong(st) == [st EXCEPT !.err = TRUE]

\* State st after a line i of a file that is neither #include nor a group.
Plainly(line, i, st) ==
    CASE line.kind = "text" ->
           [st EXCEPT !.out = @ \o [j \in DOMAIN line.tokens |->
                        TokenOf(line.tokens[j], st.macros, st.path, i + st.shift)]]
      [] line.kind = "define" ->
           IF st.macros[line.name] \in {NULL, line.value}
             THEN [st EXCEPT !.macros[line.name] = line.value] ELSE Wrong(st)
      [] line.kind = "undef" /\ line.name # NULL -> [st EXCEPT !.macros[line.name] = NULL]
      [] line.kind = "line" /\ line.number > 0 /\ ~line.more ->
           [st EXCEPT !.shift = line.number - i - 1,
                      !.path = IF line.path = NULL THEN @ ELSE line.path]
      [] line.kind \in {"pragma", "null"} -> st
      [] OTHER -> Wrong(st)

\* Reads section s of the group in file p that D divides.
ReadSection(s, D, F, p, st) ==
    IF s.err THEN Wrong(st)
    ELSE IF F[p][s.at].kind = "endif" THEN st
    ELSE Lines(F, p, s.at + 1, Behind(D, s.at) - 1, st)

Included(F, path, st) ==
    IF path \notin DOMAIN F THEN Wrong(st)
    ELSE [Lines(F, path, 1, Len(F[path]), [st EXCEPT !.shift = 0, !.path = path])
             EXCEPT !.shift = st.shift, !.path = st.path]

\* Reads the lines i to hi of file p from state st; line i, if it begins a
\* group, is divided by D.
LinesFrom(D, line, F, p, i, hi, st) ==
    Lines(F, p, IF line.kind \in Conds THEN Max(D) + 1 ELSE i + 1, hi,
          CASE line.kind \in Conds -> ReadSection(Section(F[p], D, i, st.macros), D, F, p, st)
            [] line.kind = "include" -> Included(F, line.path, st)
            [] OTHER -> Plainly(line, i, st))
Lines(F, p, i, hi, st) ==
    IF i > hi \/ st.err THEN st
    ELSE LinesFrom(Divisions(F[p], i), F[p][i], F, p, i, hi, st)

\* Strings next to each other are one string.
Join(q, tok) ==
    IF tok.t = "string" /\ q # <<>> /\ Last(q).t = "string"
        THEN Append(Front(q), [t |-> "string", pieces |-> Last(q).pieces \o tok.pieces])
        ELSE Append(q, tok)

\* The tokens of file p, and whether there is an error behind them.
Result(st) == [out |-> FoldLeft(Join, <<>>, st.out), err |-> st.err]
Meaning(F, p) ==
    Result(Lines(F, p, 1, Len(F[p]),
                 [macros |-> [n \in Names |-> NULL], out |-> <<>>, err |-> FALSE,
                  shift |-> 0, path |-> p]))
===========================================================================
