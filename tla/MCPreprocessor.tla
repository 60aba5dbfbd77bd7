-------------------------- MODULE MCPreprocessor --------------------------
(***************************************************************************)
(* Small programs for Preprocessor, with conditions computed by            *)
(* PrepExpression and the result compared with PrepReference.              *)
(***************************************************************************)
EXTENDS Preprocessor, PrepExpression

CONSTANTS
    MaxLines,       \* lines of a file with conditionals
    MaxParts        \* lines of a file with includes or with strings

Ref == INSTANCE PrepReference

DefinedNames(m) == {n \in Names : m[n] # NULL}

---------------------------------------------------------------------------
(* Lines.                                                                  *)

Simple(kind) == [kind |-> kind]
TextLine(tokens) == [kind |-> "text", tokens |-> tokens]
IfLine(e) == [kind |-> "if", cond |-> e]
ElifLine(e) == [kind |-> "elif", cond |-> e]
IfdefLine(kind, n) == [kind |-> kind, name |-> n]
UndefLine(n) == [kind |-> "undef", name |-> n]
DefineLine(n, v) == [kind |-> "define", name |-> n, value |-> Number(v)]
IncludeLine(f) == [kind |-> "include", path |-> f]
LineLine(n, path, more) == [kind |-> "line", number |-> n, path |-> path, more |-> more]

Name(n) == [t |-> "name", name |-> n]
Word == [t |-> "word"]
LINE == [t |-> "line"]
FILE == [t |-> "file"]

Plain == TextLine(<<Name("X"), LINE>>)

\* Every group has its #endif.
Closed(f) ==
    \A i \in DOMAIN f : f[i].kind \in {"if", "ifdef", "ifndef"} =>
        \E k \in i + 1 .. Len(f) : f[k].kind = "endif" /\ Ref!Open(f, i, k) = 1

Upto(n, S) == UNION {[1 .. k -> S] : k \in 0 .. n}

Main(fs) == {[files |-> [m |-> f], units |-> <<"m">>] : f \in fs}

\* Conditions that are not about the operators.
Zero == <<Num(0)>>
One == <<Num(1)>>
AsksX == <<Ident("X")>>
XIsTwo == <<Ident("X"), Op("=="), Num(2)>>
AsksY == <<Op("("), IsDefined("Y"), Op(")"), Op("&&"), Ident("Y")>>
Questions == {Zero, One, AsksX, XIsTwo, AsksY}

\* Conditionals in every order, with an #else or #elif behind #else, too.
ConditionalLines ==
    {IfLine(Zero), IfLine(AsksX), IfdefLine("ifdef", "X"), ElifLine(One),
     Simple("else"), Simple("endif"), DefineLine("X", 1), Plain}

ConditionalFiles == {f \in Upto(MaxLines, ConditionalLines) : Closed(f)}

\* A few lines in front of a group with a condition that asks for a macro.
Ask == <<IfdefLine("ifndef", "X"), Simple("error"), ElifLine(XIsTwo),
         UndefLine("X"), ElifLine(AsksY),
         Plain, Simple("else"), Simple("other"), Simple("endif"), Plain>>

\* Directives without the identifier they need; in a dead group they pass.
Nameless == {IfdefLine("ifdef", NULL), IfdefLine("ifndef", NULL), UndefLine(NULL)}
Unnamed(l) == <<l>> \o Ask \o (IF l.kind = "undef" THEN <<>> ELSE <<Simple("endif")>>)

Preludes ==
    {p \o Ask : p \in Upto(2, {DefineLine("X", 2), DefineLine("X", 3), DefineLine("Y", 1),
                               UndefLine("X"), Simple("null")})}
    \cup {Unnamed(l) : l \in Nameless}
    \cup {<<IfLine(Zero)>> \o Unnamed(l) \o <<Simple("endif"), Plain>> : l \in Nameless}

\* Strings on several lines, with lines between them that are not text.
StringLines ==
    {TextLine(<<Str(<<"a">>)>>), TextLine(<<Str(<<"b">>), LINE>>),
     TextLine(<<Word, FILE>>), TextLine(<<>>), Simple("pragma"),
     LineLine(7, NULL, FALSE), LineLine(7, "f", FALSE), LineLine(0, NULL, FALSE),
     LineLine(7, "f", TRUE)}

StringFiles == Upto(MaxParts, StringLines)

\* A header with a guard, and one that includes it in a group.
Guarded == <<IfdefLine("ifndef", "X"), DefineLine("X", 1), TextLine(<<FILE, LINE>>), Simple("endif")>>
Nested == <<TextLine(<<FILE>>), IfLine(Zero), IncludeLine("none"), Simple("else"),
            IncludeLine("h"), Simple("endif"), TextLine(<<LINE>>)>>

IncludeLines ==
    {IncludeLine("h"), IncludeLine("n"), IncludeLine("none"), TextLine(<<FILE, LINE>>),
     TextLine(<<Name("X")>>)}

\* One or two units; the second starts with nothing the first one has left.
IncludePrograms ==
    {[files |-> [m |-> f, h |-> Guarded, n |-> Nested], units |-> u] :
        f \in Upto(MaxParts - 1, IncludeLines), u \in {<<"m">>, <<"m", "m">>, <<"n", "m">>}}

---------------------------------------------------------------------------
(* Conditions.                                                             *)

Binaries == UNION {Level[n] : n \in DOMAIN Level}
Values == {Num(0), Num(1), Num(5), NumU(6)}
Unaries == {"+", "-", "~", "!"}

\* Operators that C applies from the left.  Of `==', `!=' and `|' the
\* program takes one at a time, and it does not skip operands, so that a
\* division may not stand behind `&&', `||' or `?'.
Once == {"==", "!=", "|"}
Fallible == {"/", "%"}

Chains ==
    {<<a, Op(o), b>> : a \in Values, b \in Values, o \in Binaries}
    \cup {<<a, Op(o), b, Op(p), c>> :
             a \in {Num(5), NumU(6)}, b \in Values, c \in {Num(0), Num(1), NumU(6)},
             <<o, p>> \in {q \in Binaries \X Binaries :
                             /\ ~({q[1], q[2]} \subseteq Once)
                             /\ q[1] \in {"&&", "||"} => q[2] \notin Fallible}}

Parenthesized ==
    {<<a, Op(o), Op("("), b, Op(p), c, Op(")")>> :
        a \in {Num(1), NumU(6)}, b \in {Num(5)}, c \in {Num(0), Num(1)},
        o \in Binaries \ {"&&", "||"}, p \in Binaries}

\* `!' of an unsigned number stays unsigned, which shows only when it is
\* negative or compared.
Prefixed ==
    {<<Op(o), Op(p), a, Op("<"), b>> :
        o \in Unaries, p \in Unaries \ {"!"}, a \in Values, b \in {Num(0), Num(5)}}

Ternaries ==
    {<<a, Op("?"), b, Op(":"), c, Op("?"), d, Op(":"), a>> :
        a \in Values, b \in Values, c \in {Num(0), Num(1)}, d \in {Num(0), Num(1)}}

\* C says what the condition is.
Meant(e) == Ref!ValueOf(e).err # "undefined"

Conditions == {e \in Chains \cup Parenthesized \cup Prefixed \cup Ternaries : Meant(e)}

\* A condition with the macros m.
With(e, m) == Substituted(e, [n \in DefinedNames(m) |-> m[n].number])

\* What the program makes of each condition there is, computed once.
Valuations == [Names -> {NULL} \cup {Number(n) : n \in 1 .. 3}]
Evaluated ==
    [e \in Conditions \cup {With(a, m) : a \in Questions, m \in Valuations} |-> Evaluate(e)]

MCHolds(cond, m) ==
    LET r == Evaluated[With(cond, m)]
    IN  CASE r.err = "error" -> "error"
          [] r.v # 0 -> "true"
          [] OTHER -> "false"

ConditionFiles ==
    {<<IfLine(e), TextLine(<<Word>>), Simple("else"), Plain, Simple("endif")>> :
        e \in Conditions}

AllPrograms ==
    Main(ConditionalFiles \cup Preludes \cup StringFiles \cup ConditionFiles) \cup IncludePrograms

---------------------------------------------------------------------------

\* The parser gets what PrepReference says the unit means: the tokens of the
\* sections whose conditions hold, of included files in their place, with
\* macros, line numbers and strings as they should be, for every unit as if
\* it were the first, whatever the parser peeks at in between; and
\* compilation stops where the program is wrong and nowhere else.
Delivers ==
    LET m == Ref!Meaning(files, units[unit])
    IN  /\ phase = "parser" /\ lookahead # <<>> /\ Head(lookahead) = END
              => seen = m.out /\ ~m.err
        /\ phase = "exit" => m.err /\ IsPrefix(seen, m.out)
        /\ phase # "crash"
===========================================================================
