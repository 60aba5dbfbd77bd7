--------------------------- MODULE MacroReference ---------------------------
(***************************************************************************)
(* What C asks of macros, by the algorithm with sets of hidden names: each *)
(* token carries the names it must not be replaced by any more.  The text  *)
(* between two directives is one stream of tokens; lines do not matter.    *)
(*                                                                         *)
(* Where the preprocessor is known to do something else, the stream gets a *)
(* token of kind "apart", which the instances use to leave such programs   *)
(* out:                                                                    *)
(*   - the parenthesis behind the name of a function-like macro appears    *)
(*     only when the next name is replaced;                                *)
(*   - the name of a function-like macro comes out of a replacement, its   *)
(*     arguments are in the text, and they are replaced before # or ##     *)
(*     sees them or before they are cut at commas;                         *)
(*   - there is a comma too many with nothing behind it.                   *)
(***************************************************************************)
EXTENDS MacroExpansion

Hidden(t, hs) == [k |-> t.k, s |-> t.s, n |-> t.n, hs |-> hs]
Plain(ts) == [i \in DOMAIN ts |-> Hidden(ts[i], {})]
Marker(kind) == <<Hidden(Tok(kind, <<>>), {})>>

Shown(ts) == [i \in DOMAIN ts |-> <<ts[i].k, ts[i].s>>]
Has(ts, kind) == \E i \in DOMAIN ts : ts[i].k = kind
Commas(ts) == Cardinality({i \in DOMAIN ts : ts[i].k = ","})

Name(m, t) == t.k = "id" /\ t.s \in DOMAIN m /\ t.s \notin t.hs

\* Where the parenthesis in the second place is closed; 0 if it is not.
Closing(ts) ==
    LET Cl == {j \in 3 .. Len(ts) : ts[j].k = ")" /\ Nesting(ts, 2, j) = 1}
    IN  IF Cl = {} THEN 0 ELSE CHOOSE j \in Cl : \A k \in Cl : j <= k

\* The arguments between two parentheses, cut at the first `most' commas.
Cut(ts, most) ==
    LET Cm == {j \in DOMAIN ts : ts[j].k = "," /\ Nesting(ts, 1, j) = 0}
        cuts == SetToSortSeq({j \in Cm : Cardinality({k \in Cm : k < j}) < most}, <)
        Before(n) == IF n = 0 THEN 0 ELSE IF n > Len(cuts) THEN Len(ts) + 1 ELSE cuts[n]
    IN  [n \in 1 .. Len(cuts) + 1 |-> SubSeq(ts, Before(n - 1) + 1, Before(n) - 1)]

\* The arguments for a macro, <<>> if their number is wrong.
Actuals(d, ts) ==
    LET all == Cut(ts, IF d.va THEN d.params - 1 ELSE Len(ts))
    IN  CASE d.params = 0 -> IF ts = <<>> THEN <<<<>>>> ELSE <<>>
          [] Len(all) = d.params -> all
          [] d.va /\ Len(all) = d.params - 1 -> Append(all, <<>>)
          [] OTHER -> <<>>

Joins(b, i) == i \in DOMAIN b /\ b[i].k = "##"

RECURSIVE Expand(_, _)

\* What stands for each token of a replacement list; an empty operand of ##
\* is a placemarker.
Pieces(m, d, args) ==
    LET b == d.body
        Comma(i) == i > 2 /\ Joins(b, i - 1) /\ b[i - 2].k = "," /\ d.va /\ b[i].n = d.params
    IN  [i \in DOMAIN b |->
           CASE b[i].k = "#" /\ d.fn -> IF i < Len(b) /\ b[i + 1].k = "param" THEN <<>>
                                        ELSE Marker("error")
             [] b[i].k = "param" /\ i > 1 /\ b[i - 1].k = "#" ->
                  <<Hidden(stringify(args[b[i].n]), {})>>
             [] b[i].k = "param" /\ Comma(i) -> Expand(m, args[b[i].n])
             [] b[i].k = "param" /\ (Joins(b, i - 1) \/ Joins(b, i + 1)) ->
                  IF args[b[i].n] = <<>> THEN Marker("placemarker") ELSE args[b[i].n]
             [] b[i].k = "param" -> Expand(m, args[b[i].n])
             [] OTHER -> <<Hidden(b[i], {})>>]

Glue(t, u) ==
    CASE t.k = "placemarker" -> u
      [] u.k = "placemarker" -> t
      [] OTHER -> Hidden(paste(t, u), t.hs \cap u.hs)

\* ## joins its neighbours from left to right; GNU C drops the comma in front
\* of missing variable arguments and joins nothing there.
Glued(d, pieces) ==
    LET b == d.body
        Step(acc, i) ==
            IF ~Joins(b, i - 1) THEN IF Joins(b, i) THEN acc ELSE acc \o pieces[i]
            ELSE IF d.va /\ b[i].n = d.params /\ Last(acc).k = ","
              THEN IF pieces[i] = <<>> THEN Front(acc) ELSE acc \o pieces[i]
            ELSE Front(acc) \o <<Glue(Last(acc), pieces[i][1])>> \o Tail(pieces[i])
    IN  SelectSeq(FoldLeft(Step, <<>>, [i \in DOMAIN b |-> i]),
                  LAMBDA t : t.k # "placemarker")

Subst(m, d, args, hs) ==
    LET b == d.body
    IN  IF Joins(b, 1) \/ Joins(b, Len(b)) THEN Marker("error")
        ELSE LET ts == Glued(d, Pieces(m, d, args))
             IN  [i \in DOMAIN ts |-> [ts[i] EXCEPT !.hs = @ \cup hs]]

Apart(m, d, t, close, inside) ==
    \/ /\ t.hs # close.hs
       /\ \E i \in DOMAIN inside : Name(m, inside[i])
       /\ \/ Has(d.body, "#") \/ Has(d.body, "##")
          \/ Commas(Expand(m, inside)) # Commas(inside)
    \/ ~d.va /\ d.params > 0 /\ inside # <<>> /\ Last(inside).k = ","
       /\ Len(Cut(inside, Len(inside))) = d.params + 1

Expand(m, ts) ==
    IF ts = <<>> THEN <<>>
    ELSE IF ~Name(m, ts[1]) THEN <<ts[1]>> \o Expand(m, Tail(ts))
    ELSE LET t == ts[1]
             d == m[t.s]
             close == Closing(ts)
             inside == SubSeq(ts, 3, close - 1)
             args == Actuals(d, inside)
             rest == SubSeq(ts, close + 1, Len(ts))
         IN  CASE ~d.fn -> Expand(m, Subst(m, d, <<>>, t.hs \cup {t.s}) \o Tail(ts))
               [] d.fn /\ (Len(ts) = 1 \/ ts[2].k # "(") ->
                    (IF Len(ts) > 1 /\ Name(m, ts[2]) THEN Marker("apart") ELSE <<t>>)
                    \o Expand(m, Tail(ts))
               [] d.fn /\ Len(ts) > 1 /\ ts[2].k = "(" /\ close = 0 -> Marker("error")
               [] OTHER ->
                    IF Apart(m, d, t, ts[close], inside) THEN Marker("apart")
                    ELSE IF args = <<>> THEN Marker("error")
                    ELSE Expand(m, Subst(m, d, args, (t.hs \cap ts[close].hs) \cup {t.s}) \o rest)

\* _Pragma operators are not passed on.
RECURSIVE NoPragmas(_)
NoPragmas(ts) ==
    IF ts = <<>> THEN <<>>
    ELSE IF ts[1].s # Pragma THEN <<ts[1]>> \o NoPragmas(Tail(ts))
    ELSE IF Len(ts) >= 4 /\ [j \in 1 .. 3 |-> ts[j + 1].k] = <<"(", "string", ")">>
      THEN NoPragmas(SubSeq(ts, 5, Len(ts))) ELSE Marker("error")

\* A definition is repeated with the same parameters and replacement.
Agrees(l, d) == l.fn = d.fn /\ preprocess_define(l) = d

\* The tokens of the rest of the program from line i on.
RECURSIVE Meaning(_, _, _)
Meaning(lines, i, m) ==
    IF i > Len(lines) THEN <<>>
    ELSE LET l == lines[i]
             stop == CHOOSE j \in i .. Len(lines) + 1 :
                       /\ j > Len(lines) \/ lines[j].kind # "text"
                       /\ \A k \in i .. j - 1 : lines[k].kind = "text"
             text == FlattenSeq([k \in 1 .. stop - i |-> lines[i + k - 1].tokens])
         IN  CASE l.kind = "text" ->
                    NoPragmas(Expand(m, Plain(text))) \o Meaning(lines, stop, m)
               [] l.kind = "undef" ->
                    Meaning(lines, i + 1, [n \in DOMAIN m \ {l.name} |-> m[n]])
               [] l.kind = "define" /\ l.name \in DOMAIN m ->
                    IF Agrees(l, m[l.name]) THEN Meaning(lines, i + 1, m) ELSE Marker("error")
               [] OTHER ->
                    Meaning(lines, i + 1, [n \in DOMAIN m \cup {l.name} |->
                                             IF n = l.name THEN preprocess_define(l) ELSE m[n]])

AsInC(lines) == Meaning(lines, 1, [n \in {} |-> NEWLINE])

\* Lines, parentheses and the depth of calls make no difference: the parser
\* gets the tokens that C asks for, and the compiler stops exactly where C has
\* an error.
ExpandedAsInC ==
    phase \in {"done", "exit", "abort", "wild"} =>
        LET c == AsInC(program)
        IN  IF Has(c, "error") THEN phase \in {"exit", "abort"}
            ELSE phase = "done" /\ Shown(out) = Shown(c)
=============================================================================
