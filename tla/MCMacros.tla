------------------------------ MODULE MCMacros ------------------------------
(***************************************************************************)
(* Instances of MacroExpansion: the definitions and texts to try.  A text  *)
(* is a sequence of strings in which "|" is the end of a line.             *)
(***************************************************************************)
EXTENDS MacroReference

MCDigits == {"1", "2"}
MCVA_ARGS == <<"VA">>
MCDOTS == <<"dots">>
MCPragma == <<"_Pragma">>

Punctuation == {"(", ")", ",", "#", "##", ";"}

Token(x) == CASE x \in Punctuation -> Tok(x, <<x>>)
              [] x \in Digits -> Tok("number", <<x>>)
              [] x = "str" -> Tok("string", <<x>>)
              [] OTHER -> Tok("id", <<x>>)

TokensOf(s) == [i \in DOMAIN s |-> Token(s[i])]

Object(name, body) ==
    [kind |-> "define", name |-> <<name>>, fn |-> FALSE, params |-> <<>>, body |-> TokensOf(body)]
Fn(name, params, body) ==
    [kind |-> "define", name |-> <<name>>, fn |-> TRUE,
     params |-> [i \in DOMAIN params |-> <<params[i]>>], body |-> TokensOf(body)]
UndefLine(name) == [kind |-> "undef", name |-> <<name>>]

\* The lines of a text.
TextLines(s) ==
    LET Ends == {i \in DOMAIN s : s[i] = "|"} \cup {Len(s) + 1}
        ends == SetToSortSeq(Ends, <)
        From(n) == IF n = 1 THEN 1 ELSE ends[n - 1] + 1
    IN  [n \in DOMAIN ends |->
           [kind |-> "text", tokens |-> TokensOf(SubSeq(s, From(n), ends[n] - 1))]]

SeqsUpTo(S, n) == UNION {[1 .. k -> S] : k \in 0 .. n}

Opened(s, i) == Cardinality({k \in 1 .. i : s[k] = "("})
                - Cardinality({k \in 1 .. i : s[k] = ")"})
Balanced(s) == Opened(s, Len(s)) = 0 /\ \A i \in DOMAIN s : Opened(s, i) >= 0

\* The name of a function-like macro in front of a newline, which is read as
\* the token behind the name.
NameLast(p) ==
    LET Fns == {p[i].name : i \in {j \in DOMAIN p : p[j].kind = "define" /\ p[j].fn}}
    IN  \E i \in DOMAIN p : /\ p[i].kind = "text" /\ p[i].tokens # <<>>
                            /\ Last(p[i].tokens).s \in Fns

\* Arguments are expanded without regard to the macros that are being
\* replaced: no macro may come back through an argument in its replacement.
ComesBack(p) ==
    LET Defs == {i \in DOMAIN p : p[i].kind = "define"}
        Names == {p[i].name : i \in Defs}
        Within(i) == {j \in DOMAIN p[i].body : Nesting(p[i].body, 1, j) > 0}
        Direct(n) == UNION {{p[i].body[j].s : j \in DOMAIN p[i].body} \cap Names :
                              i \in {d \in Defs : p[d].name = n}}
        Reach[k \in 0 .. 3, n \in Names] ==
            IF k = 0 THEN {n} ELSE {n} \cup UNION {Reach[k - 1, u] : u \in Direct(n)}
    IN  \E i \in Defs : \E j \in Within(i) :
            LET u == p[i].body[j].s
            IN  u \in Names \ {p[i].name} /\ p[i].name \in Reach[3, u]

Proper(p) == ~NameLast(p) /\ ~ComesBack(p) /\ ~Has(AsInC(p), "apart")

---------------------------------------------------------------------------

\* Names that stand for each other.
ObjectPrograms ==
    {<<Object("A", a), Object("B", b)>> \o TextLines(s \o <<";">>) :
        a \in SeqsUpTo({"A", "B", "1"}, 2), b \in SeqsUpTo({"A", "B", "2"}, 2),
        s \in {<<"A">>, <<"B", "A">>, <<"A", "|", "B">>}}

FBodies == {<<"x">>, <<"g">>, <<"g", "(", "x", ")">>, <<"f", "(", "x", ")">>,
            <<"x", "(", "1", ")">>, <<"A", "x">>, <<"g", "(", "f", ")">>}
GBodies == {<<"x">>, <<"f">>, <<"f", "(", "x", ")", "A">>}
ABodies == {<<>>, <<"1">>, <<"f">>, <<"g", "(", "2", ")">>, <<"g", "(", "A", ")">>,
            <<"1", ",", "A">>}

Definitions ==
    {<<Fn("f", <<"x">>, f), Fn("g", <<"x">>, g), Object("A", a)>> :
        f \in FBodies, g \in GBodies, a \in ABodies}
FewDefinitions ==
    {<<Fn("f", <<"x">>, f), Fn("g", <<"x">>, <<"x">>), Object("A", a)>> :
        f \in FBodies, a \in ABodies \ {<<"1">>}}

\* Every short text, and longer ones with calls in each other and over lines.
ShortTexts == {s \in SeqsUpTo({"f", "A", "(", ")", "|"}, 4) :
                 /\ Balanced(s)
                 /\ \E i \in DOMAIN s : s[i] \in {"f", "A"}
                 /\ \A i, j \in DOMAIN s : s[i] = "|" /\ s[j] = "|" => i = j}

LongTexts == {<<"f", "(", "g", "|", ")", "(", "1", ")">>,
              <<"f", "(", "f", "(", "1", ")", ")", "(", "A", ")">>,
              <<"A", "(", "|", "f", "(", "|", "1", ")", "|", ")", "(", "2", ")", "A">>,
              <<"f", "(", "A", ")", "|", "(", "f", ")", "|", "(", "g", "(", "1", ")", ")">>,
              <<"g", "(", "f", ")", "(", "g", ")", "(", "1", ")">>,
              <<"f", "(", "1">>, <<"g", "(", "1", ",", "2", ")">>}

CallPrograms ==
    {d \o TextLines(s \o <<";">>) : d \in FewDefinitions, s \in ShortTexts}
    \cup {d \o TextLines(s \o <<";">>) : d \in Definitions, s \in LongTexts}

---------------------------------------------------------------------------

Listed(a, b) == a \o <<",">> \o b
Called(name, args) == <<name, "(">> \o args \o <<")">>

Arguments == {<<>>, <<"A">>, <<"1">>, <<"A", "1">>, <<"(", "A", ",", "1", ")">>}

\* # and ## with arguments that are empty, names of macros or several tokens.
\* "A" joined with "1" is the name of a macro.
PBodies == {<<"x", "##", "y">>, <<"#", "x", "y">>, <<"A", "##", "y", "x">>,
            <<"p", "##", "x", "(", "y", ",", "x", ")">>, <<"x", "##", "1", "#", "y">>,
            <<"#", "1">>, <<"1", "##", ";", "y">>, <<"x", "y", "##">>, <<"##", "x", "y">>}

JoinPrograms ==
    {<<Object("A", <<"2">>), [Object("A", <<"A", "2">>) EXCEPT !.name = <<"A", "1">>],
       Fn("p", <<"x", "y">>, b)>> \o TextLines(Called("p", Listed(x, y)) \o <<";">>) :
        b \in PBodies, x \in Arguments, y \in Arguments}

\* Variable arguments, and none at all.
VBodies == {<<"x", "VA">>, <<"x", ",", "##", "VA">>, <<"#", "VA", "x">>,
            <<"v", "(", "VA", ")">>, <<"z", "(", ")", "x">>}

VariablePrograms ==
    {<<Object("A", <<"1", ",", "2">>), Fn("z", <<>>, <<"1">>), Fn("v", <<"x", "dots">>, b)>>
     \o TextLines(Called(f, args) \o <<";">>) :
        b \in VBodies, f \in {"v", "z"},
        args \in {<<>>, <<"A">>, <<",">>, <<"1", ",", "A">>, <<"A", ",", "A", ",", "2">>,
                  <<"|", "z", "(", "|", ")">>}}

\* A name that is defined again, with and without the same replacement.
RedefinePrograms ==
    {<<d1>> \o TextLines(<<"A", "(", "1", ")", ";">>) \o u \o <<d2>>
     \o TextLines(<<"A", "(", "2", ")", ";">>) :
        d1 \in {Object("A", <<"1">>), Fn("A", <<"x">>, <<"x", "x">>)},
        d2 \in {Object("A", <<"1">>), Object("A", <<"A">>), Fn("A", <<"x">>, <<"x", "x">>),
                Fn("A", <<>>, <<"1">>)},
        u \in {<<>>, <<UndefLine("A")>>}}

\* The operator _Pragma, also as an argument and in a replacement.
PragmaPrograms ==
    {<<Object("A", <<"_Pragma", "(", "str", ")", "1">>), Object("B", <<"_Pragma", "1", "2">>),
       Fn("f", <<"x">>, <<"x", "_Pragma", "(", "x", ")">>)>> \o TextLines(s \o <<";">>) :
        s \in {<<"A">>, <<"B">>, <<"f", "(", "str", ")">>, <<"f", "(", "1", ")">>,
               <<"_Pragma", "|", "(", "|", "str", ")", "A">>, <<"_Pragma", "A", "(">>,
               <<"_Pragma", "(", "str", "1">>, <<"1", "_Pragma", "(", "str", "|", ")", "|", "2">>}}

MCPrograms == {p \in ObjectPrograms \cup CallPrograms \cup JoinPrograms \cup VariablePrograms
                       \cup RedefinePrograms \cup PragmaPrograms : Proper(p)}
=============================================================================
