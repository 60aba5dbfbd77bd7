--------------------------- MODULE MacroExpansion ---------------------------
(***************************************************************************)
(* How macros are replaced: preprocess_line and what it calls for a line   *)
(* of text (preprocessor/preprocess.c), expand and what it calls           *)
(* (preprocessor/macro.c), and the definitions (preprocessor/directive.c). *)
(*                                                                         *)
(* A line of text is read token by token, over newlines while the          *)
(* arguments of an invocation are incomplete.  It is then expanded and     *)
(* read on alternately: the expansion may end in a name whose arguments    *)
(* are on the next lines.  expand_line calls itself for each argument, and *)
(* again for the replacement; the C stack of these calls is `stack'.       *)
(*                                                                         *)
(* A spelling is a sequence of pieces, so that ## can join and # can       *)
(* collect them.  White space, and with it the blanks inside a string made *)
(* by #, is left out; so are __LINE__ and __FILE__ (see Preprocessor).     *)
(***************************************************************************)
EXTENDS Integers, Sequences, FiniteSets, SequencesExt

CONSTANTS
    Programs,       \* what there is to read: sequences of lines
    Digits,         \* pieces that a number starts with
    VA_ARGS, DOTS, Pragma       \* spellings of __VA_ARGS__, ... and _Pragma

VARIABLES
    program,        \* the lines of the file
    cursor,         \* line and column of the next token
    macros,         \* macro_hash_table
    line,           \* the line being read and expanded
    count,          \* macros met since the last call of expand
    nest,           \* open parentheses, or what is read of a _Pragma
    at, len, last,  \* i, len and t of refill_expanding_line
    stack,          \* calls of expand_line
    out,            \* tokens given to the parser
    phase

readVars == <<program, cursor, macros, out>>
refillVars == <<at, len, last>>
vars == <<program, cursor, macros, line, count, nest, at, len, last, stack, out, phase>>

---------------------------------------------------------------------------
(* Tokens.  `off' is disable_expand; `n' is the number of a parameter.     *)

Tok(k, s) == [k |-> k, s |-> s, n |-> 0, off |-> FALSE]
NEWLINE == Tok("newline", <<>>)
END == Tok("end", <<>>)
HASH == Tok("#", <<"#">>)
PARAM(i) == [Tok("param", <<>>) EXCEPT !.n = i]

Expandable(t) == t.k = "id"

Kind(s) == IF s[1] \in Digits THEN "number" ELSE "id"

\* paste: two names or numbers give one; nothing else is a token.
paste(t, u) ==
    IF {t.k, u.k} \subseteq {"id", "number"} THEN Tok(Kind(t.s \o u.s), t.s \o u.s)
                                            ELSE Tok("error", <<>>)

Spelling(list) == FlattenSeq([i \in DOMAIN list |-> list[i].s])
stringify(list) == Tok("string", Spelling(list))

\* The tokens of a line; those of a directive only count inside a macro call.
Tokens(row) == IF program[row].kind = "text" THEN program[row].tokens ELSE <<HASH>>

AtNewline == cursor.col = Len(Tokens(cursor.row))

\* get_token: the token at the cursor, and the cursor behind it.
Got == IF cursor.row > Len(program) THEN END
       ELSE IF AtNewline THEN NEWLINE ELSE Tokens(cursor.row)[cursor.col + 1]

Behind == IF cursor.row > Len(program) THEN cursor
          ELSE IF AtNewline THEN [row |-> cursor.row + 1, col |-> 0]
          ELSE [cursor EXCEPT !.col = @ + 1]

Defined(t) == Expandable(t) /\ t.s \in DOMAIN macros
Function(t) == Defined(t) /\ macros[t.s].fn

---------------------------------------------------------------------------
(* Directives.                                                             *)

\* preprocess_define: names of parameters become their numbers.
preprocess_define(l) ==
    LET va == l.fn /\ l.params # <<>> /\ Last(l.params) = DOTS
        params == IF va THEN Append(Front(l.params), VA_ARGS) ELSE l.params
        Numbers(t) == {i \in DOMAIN params : l.fn /\ t.k = "id" /\ params[i] = t.s}
    IN  [fn |-> l.fn, params |-> Len(params), va |-> va,
         body |-> [i \in DOMAIN l.body |->
                     IF Numbers(l.body[i]) = {} THEN l.body[i]
                     ELSE PARAM(CHOOSE n \in Numbers(l.body[i]) :
                                  \A m \in Numbers(l.body[i]) : n <= m)]]

\* macrocmp
Same(d, e) == d.fn = e.fn /\ d.params = e.params /\ d.body = e.body

At(kind) == phase = "line" /\ cursor.row <= Len(program) /\ program[cursor.row].kind = kind

Line == program[cursor.row]

\* define: the first definition stays.
Define ==
    /\ At("define")
    /\ LET def == preprocess_define(Line)
       IN  IF Line.name \in DOMAIN macros
             THEN /\ phase' = IF Same(macros[Line.name], def) THEN "line" ELSE "exit"
                  /\ UNCHANGED macros
             ELSE /\ macros' = [n \in DOMAIN macros \cup {Line.name} |->
                                  IF n = Line.name THEN def ELSE macros[n]]
                  /\ UNCHANGED phase
    /\ cursor' = [row |-> cursor.row + 1, col |-> 0]
    /\ UNCHANGED <<program, line, count, nest, refillVars, stack, out>>

Undef ==
    /\ At("undef")
    /\ macros' = [n \in DOMAIN macros \ {Line.name} |-> macros[n]]
    /\ cursor' = [row |-> cursor.row + 1, col |-> 0]
    /\ UNCHANGED <<program, line, count, nest, refillVars, stack, out, phase>>

---------------------------------------------------------------------------
(* Reading a line: read_complete_line, read_macro_invocation and           *)
(* read_Pragma_invocation.                                                 *)

BeginLine ==
    /\ At("text")
    /\ phase' = "complete"
    /\ line' = <<>>
    /\ count' = 0
    /\ UNCHANGED <<readVars, nest, refillVars, stack>>

EndOfFile ==
    /\ phase = "line"
    /\ Got = END
    /\ phase' = "done"
    /\ UNCHANGED <<readVars, line, count, nest, refillVars, stack>>

\* A step that takes a token.
Read(p) == phase = p /\ cursor' = Behind /\ UNCHANGED <<program, macros, out, refillVars>>

Frame(list, scope) == [list |-> list, i |-> 1, scope |-> scope, call |-> <<>>]

\* The condition of the loop in preprocess_line with n macros found.
ExpandIf(n, list) ==
    IF n > 0 THEN /\ phase' = "expand"
                  /\ stack' = <<Frame(list, <<>>)>>
                  /\ count' = 0
             ELSE phase' = "emit" /\ stack' = stack /\ count' = n

\* read_complete_line: one turn of its loop.
ReadToken ==
    /\ Read("complete")
    /\ Got \notin {NEWLINE, END}
    /\ line' = Append(line, Got)
    /\ count' = IF Defined(Got) THEN count + 1 ELSE count
    /\ phase' = CASE Got.s = Pragma -> "pragma"
                  [] Function(Got) -> "open"
                  [] OTHER -> "complete"
    /\ nest' = 0
    /\ UNCHANGED stack

ReadNewline ==
    /\ Read("complete")
    /\ Got = NEWLINE
    /\ line' = Append(line, NEWLINE)
    /\ ExpandIf(count, line')
    /\ UNCHANGED nest

\* read_macro_invocation: the token behind the name, whatever it is.
ReadOpen ==
    /\ Read("open")
    /\ line' = Append(line, Got)
    /\ phase' = IF Got.k = "(" THEN "args" ELSE "complete"
    /\ nest' = 1
    /\ UNCHANGED <<count, stack>>

\* Parentheses open behind a token.
Nested(t) == CASE t.k = "(" -> nest + 1 [] t.k = ")" -> nest - 1 [] OTHER -> nest

\* read_macro_invocation: one turn of its loop; newlines are dropped.
ReadArg ==
    /\ Read("args")
    /\ Got # END
    /\ line' = IF Got = NEWLINE THEN line ELSE Append(line, Got)
    /\ nest' = Nested(Got)
    /\ phase' = IF nest' = 0 THEN "complete" ELSE "args"
    /\ UNCHANGED <<count, stack>>

\* read_Pragma_invocation: parenthesis, string, parenthesis.
ReadPragma ==
    /\ Read("pragma")
    /\ IF Got = NEWLINE THEN UNCHANGED <<line, nest, phase>>
       ELSE /\ line' = IF Got = END THEN line ELSE Append(line, Got)
            /\ nest' = nest + 1
            /\ phase' = IF Got.k # <<"(", "string", ")">>[nest + 1] THEN "exit"
                        ELSE IF nest = 2 THEN "complete" ELSE "pragma"
    /\ UNCHANGED <<count, stack>>

\* assert(t.token != END)
Abort ==
    /\ \/ phase \in {"complete", "args"}
       \/ phase \in {"refillOpen", "refillArgs"} /\ at > Len(line)
    /\ Got = END
    /\ phase' = "abort"
    /\ UNCHANGED <<readVars, line, count, nest, refillVars, stack>>

---------------------------------------------------------------------------
(* Invocations.                                                            *)

\* Parentheses opened and not closed from i up to and without j.
Nesting(list, i, j) == Cardinality({k \in i .. j - 1 : list[k].k = "("})
                       - Cardinality({k \in i .. j - 1 : list[k].k = ")"})

\* Mutant: parentheses in an argument are not counted.
StopFlat(list, i, va) ==
    LET Ends == {j \in i .. Len(list) :
                   list[j].k \in {"newline", ")"} \cup (IF va THEN {} ELSE {","})}
    IN  CHOOSE j \in Ends \cup {Len(list) + 1} :
            \A k \in Ends \cup {Len(list) + 1} : j <= k

\* read_arg: where it stops, which is an error at a newline and outside of
\* the array behind the last token.
Stop(list, i, va) ==
    LET Ends == {j \in i .. Len(list) :
                   \/ list[j].k = "newline"
                   \/ /\ Nesting(list, i, j) = 0
                      /\ list[j].k \in (IF va THEN {")"} ELSE {",", ")"})}
    IN  CHOOSE j \in Ends \cup {Len(list) + 1} :
            \A k \in Ends \cup {Len(list) + 1} : j <= k

\* The names in an argument that are being replaced are never replaced.
Painted(list, scope) ==
    [i \in DOMAIN list |->
       IF Expandable(list[i]) /\ list[i].s \in Range(scope)
         THEN [list[i] EXCEPT !.off = TRUE] ELSE list[i]]

\* read_args with the parenthesis at i.  The last argument of a macro with
\* variable arguments may be missing, and so may one behind a last comma.
read_args(def, list, i, scope) ==
    LET p == def.params
        Kd(j) == IF j > Len(list) THEN "none" ELSE list[j].k
        end[n \in 0 .. p] ==
            IF n = 0 THEN i
            ELSE IF n > 1 /\ Kd(end[n - 1]) # "," THEN end[n - 1]
            ELSE Stop(list, end[n - 1] + 1, def.va /\ n = p)
        got == Cardinality({n \in 1 .. p : n = 1 \/ Kd(end[n - 1]) = ","})
        close == IF p = 0 \/ (~def.va /\ got = p /\ Kd(end[p]) = ",")
                   THEN end[p] + 1 ELSE end[p]
    IN  [result |-> CASE Kd(close) = "none" -> "wild"
                      [] Kd(close) # ")" -> "exit"
                      [] got < p - (IF def.va THEN 1 ELSE 0) -> "exit"
                      [] OTHER -> "ok",
         args |-> [n \in 1 .. p |->
                     IF n <= got THEN Painted(SubSeq(list, end[n - 1] + 1, end[n] - 1), scope)
                                 ELSE <<>>],
         close |-> close]

\* The case TOKEN_PASTE with the operand s on its right.
PasteRight(def, args, list, s) ==
    LET arg == IF s.k = "param" THEN args[s.n] ELSE <<s>>
        t == Last(list)
        left == IF t.k = "param" THEN Front(list) \o args[t.n] ELSE list
    IN  IF t.k = "param" /\ args[t.n] = <<>> THEN Front(list) \o arg
        ELSE IF s.k = "param" /\ s.n = def.params /\ def.va /\ Last(left).k = ","
          THEN IF arg = <<>> THEN Front(left) ELSE Append(left, s)
        ELSE IF arg = <<>> THEN left
        ELSE Front(left) \o <<paste(Last(left), arg[1])>> \o Tail(arg)

\* The parameters that are left become the expanded arguments.
Substituted(list, args) ==
    FlattenSeq([i \in DOMAIN list |->
                  IF list[i].k = "param" THEN args[list[i].n] ELSE <<list[i]>>])

---------------------------------------------------------------------------
(* expand_line and expand_macro.                                           *)

Top == Last(stack)
Below == Front(stack)
T == Top.list[Top.i]

Scanning == phase = "expand" /\ Top.call = <<>> /\ Top.i <= Len(Top.list)

\* is_expanded
Active == T.s \in Range(Top.scope)

Invoked == macros[T.s].fn => Top.i < Len(Top.list) /\ Top.list[Top.i + 1].k = "("

Replace(f) == stack' = Append(Below, f)

expandVars == <<readVars, line, nest, refillVars>>

Skip ==
    /\ Scanning
    /\ Defined(T) => T.off \/ (~Active /\ ~Invoked)
    /\ Replace([Top EXCEPT !.i = @ + 1])
    /\ UNCHANGED <<expandVars, count, phase>>

\* Mutant: the name is passed over this time only.
PaintOnce ==
    /\ Scanning
    /\ Defined(T) /\ ~T.off /\ Active
    /\ Replace([Top EXCEPT !.i = @ + 1])
    /\ UNCHANGED <<expandVars, count, phase>>

Paint ==
    /\ Scanning
    /\ Defined(T) /\ ~T.off /\ Active
    /\ Replace([Top EXCEPT !.list[Top.i].off = TRUE, !.i = @ + 1])
    /\ UNCHANGED <<expandVars, count, phase>>

\* The call for the next argument, each with a scope of its own, or else for
\* the replacement list.
Calls(f) ==
    IF f.call.arg <= f.call.def.params
      THEN Frame(f.call.args[f.call.arg], <<>>)
      ELSE Frame(Substituted(f.call.list, f.call.args), Append(f.scope, f.call.name))

\* expand_line reads the arguments and calls expand_macro.
Invoke ==
    /\ Scanning
    /\ Defined(T) /\ ~T.off /\ ~Active /\ Invoked
    /\ LET def == macros[T.s]
           read == IF def.fn THEN read_args(def, Top.list, Top.i + 1, Top.scope)
                   ELSE [result |-> "ok", args |-> <<>>, close |-> Top.i]
       IN  IF read.result = "ok"
             THEN /\ Replace([Top EXCEPT !.call =
                        [name |-> T.s, def |-> def, args |-> read.args, close |-> read.close,
                         list |-> <<>>, next |-> 1, arg |-> 0]])
                  /\ UNCHANGED phase
             ELSE phase' = read.result /\ UNCHANGED stack
    /\ UNCHANGED <<expandVars, count>>

\* expand_stringify_and_paste: one turn of its loop each.  Its list has the
\* parameters that are not operands.
Call == Top.call
Pasting == phase = "expand" /\ Call # <<>> /\ Call.arg = 0 /\ Call.next <= Len(Call.def.body)
Item == Call.def.body[Call.next]
Operand == Call.def.body[Call.next + 1]
HasOperand == Call.next < Len(Call.def.body)

\* The list so far, and the number of tokens that were used for it.
Pasted(list, n) ==
    /\ Replace([Top EXCEPT !.call.list = list, !.call.next = @ + n])
    /\ UNCHANGED <<expandVars, count, phase>>

BadOperand == phase' = "exit" /\ UNCHANGED <<expandVars, count, stack>>

CopyToken ==
    /\ Pasting
    /\ Item.k \notin {"#", "##"}
    /\ Pasted(Append(Call.list, Item), 1)

StringifyToken ==
    /\ Pasting
    /\ Item.k = "#"
    /\ IF HasOperand /\ Operand.k = "param"
         THEN Pasted(Append(Call.list, stringify(Call.args[Operand.n])), 2)
         ELSE BadOperand

PasteToken ==
    /\ Pasting
    /\ Item.k = "##"
    /\ IF Call.list # <<>> /\ HasOperand
         THEN LET list == PasteRight(Call.def, Call.args, Call.list, Operand)
              IN  IF \E i \in DOMAIN list : list[i].k = "error" THEN BadOperand
                  ELSE Pasted(list, 2)
         ELSE BadOperand

\* expand_macro goes on with the arguments.
PasteEnd ==
    /\ phase = "expand" /\ Call # <<>> /\ Call.arg = 0
    /\ Call.next > Len(Call.def.body)
    /\ LET f == [Top EXCEPT !.call.arg = 1] IN stack' = Below \o <<f, Calls(f)>>
    /\ UNCHANGED <<expandVars, count, phase>>

\* expand_line returns to expand_macro or expand_line.
Returning == phase = "expand" /\ Call = <<>> /\ Top.i > Len(Top.list) /\ Len(stack) > 1

Caller == Last(Below)

ReturnArg ==
    /\ Returning
    /\ Caller.call.arg <= Caller.call.def.params
    /\ LET f == [Caller EXCEPT !.call.args[Caller.call.arg] = Top.list,
                               !.call.arg = @ + 1]
       IN  stack' = Front(Below) \o <<f, Calls(f)>>
    /\ UNCHANGED <<expandVars, count, phase>>

\* The expansion takes the place of the invocation and is not looked at again.
ReturnBody ==
    /\ Returning
    /\ Caller.call.arg > Caller.call.def.params
    /\ LET f == Caller
           all == SubSeq(f.list, 1, f.i - 1) \o Top.list
                  \o SubSeq(f.list, f.call.close + 1, Len(f.list))
       IN  stack' = Append(Front(Below), [f EXCEPT !.list = all, !.i = @ + Len(Top.list),
                                                   !.call = <<>>])
    /\ count' = IF Len(stack) = 2 THEN count + 1 ELSE count
    /\ UNCHANGED <<expandVars, phase>>

\* expand() returns to preprocess_line.
Expanded ==
    /\ phase = "expand" /\ Len(stack) = 1 /\ Top.call = <<>> /\ Top.i > Len(Top.list)
    /\ line' = Top.list
    /\ phase' = IF count > 0 THEN "refill" ELSE "emit"
    /\ count' = 0 /\ stack' = <<>>
    /\ at' = 1 /\ len' = Len(line') /\ last' = END
    /\ UNCHANGED <<readVars, nest>>

---------------------------------------------------------------------------
(* refill_expanding_line.  Its branch for _Pragma is never taken: the name *)
(* of the operator is expandable.                                          *)

RefillToken ==
    /\ phase = "refill"
    /\ at <= len
    /\ last' = line[at]
    /\ at' = at + 1
    /\ LET more == Function(line[at]) /\ ~line[at].off
       IN  /\ count' = IF more THEN count + 1 ELSE count
           /\ phase' = IF more THEN "refillOpen" ELSE "refill"
    /\ UNCHANGED <<readVars, line, nest, len, stack>>

\* skip_or_get_token takes a token off the line.
RefillTake ==
    /\ phase \in {"refillOpen", "refillArgs"}
    /\ at < Len(line) \/ (at = Len(line) /\ line[at] # NEWLINE)
    /\ at' = at + 1
    /\ nest' = IF phase = "refillOpen" THEN 1 ELSE Nested(line[at])
    /\ phase' = IF nest' = 0 \/ (phase = "refillOpen" /\ line[at].k # "(")
                  THEN "refill" ELSE "refillArgs"
    /\ UNCHANGED <<readVars, line, count, len, last, stack>>

\* skip_or_get_token overwrites the newline at the end of the line.
RefillDrop ==
    /\ phase \in {"refillOpen", "refillArgs"}
    /\ at = Len(line) /\ line[at] = NEWLINE
    /\ line' = Front(line)
    /\ UNCHANGED <<readVars, count, nest, refillVars, stack, phase>>

\* skip_or_get_token gets a token from the input.
RefillFetch ==
    /\ phase \in {"refillOpen", "refillArgs"}
    /\ Read(phase)
    /\ at = Len(line) + 1
    /\ Got # END
    /\ line' = IF Got = NEWLINE THEN line ELSE Append(line, Got)
    /\ UNCHANGED <<count, nest, stack, phase>>

\* Mutant: the rest of the line that was begun is left in the input.
RefillEndEarly ==
    /\ phase = "refill"
    /\ at > len
    /\ ExpandIf(count, line)
    /\ UNCHANGED <<readVars, line, nest, refillVars>>

\* A line that was begun is read to its end.
RefillEnd ==
    /\ phase = "refill"
    /\ at > len
    /\ IF last # NEWLINE
         THEN phase' = "complete" /\ UNCHANGED <<count, stack>>
         ELSE ExpandIf(count, line)
    /\ UNCHANGED <<readVars, line, nest, refillVars>>

---------------------------------------------------------------------------

\* preprocess_Pragma: the operator at i has its operand.
PragmaOperand(i) == i + 3 <= Len(line) /\ [j \in 1 .. 3 |-> line[i + j].k] = <<"(", "string", ")">>

IsPragma(i) == i \in DOMAIN line /\ line[i].s = Pragma

\* The end of preprocess_line: newlines and pragmas are not passed on.
Emit ==
    /\ phase = "emit"
    /\ LET Kept == {i \in DOMAIN line : /\ line[i] # NEWLINE
                                        /\ \A j \in i - 3 .. i : ~IsPragma(j)}
       IN  IF \A i \in DOMAIN line : IsPragma(i) => PragmaOperand(i)
             THEN /\ out' = out \o [j \in 1 .. Cardinality(Kept) |->
                                      line[CHOOSE i \in Kept :
                                             Cardinality({k \in Kept : k <= i}) = j]]
                  /\ phase' = "line"
             ELSE phase' = "exit" /\ UNCHANGED out
    /\ UNCHANGED <<program, cursor, macros, line, count, nest, refillVars, stack>>

Stopped == phase \in {"done", "exit", "abort", "wild"} /\ UNCHANGED vars

Init ==
    /\ program \in Programs
    /\ cursor = [row |-> 1, col |-> 0]
    /\ macros = [n \in {} |-> NEWLINE]
    /\ line = <<>> /\ count = 0 /\ nest = 0
    /\ at = 0 /\ len = 0 /\ last = END
    /\ stack = <<>> /\ out = <<>>
    /\ phase = "line"

Next ==
    \/ Define \/ Undef \/ BeginLine \/ EndOfFile
    \/ ReadToken \/ ReadNewline \/ ReadOpen \/ ReadArg \/ ReadPragma \/ Abort
    \/ Skip \/ Paint \/ Invoke
    \/ CopyToken \/ StringifyToken \/ PasteToken \/ PasteEnd
    \/ ReturnArg \/ ReturnBody \/ Expanded
    \/ RefillToken \/ RefillTake \/ RefillDrop \/ RefillFetch \/ RefillEnd
    \/ Emit \/ Stopped

Spec == Init /\ [][Next]_vars

\* One thread, so it goes on running.
FairSpec == Spec /\ WF_vars(Next)

---------------------------------------------------------------------------

\* The preprocessor always comes to the end of the file or to an error; it
\* neither expands a line for ever nor leaves the array it reads arguments
\* from.
ExpansionEnds == <>(phase \in {"done", "exit", "abort"})

\* A line that is ready to be expanded has its newline at the end and none
\* inside, as read_complete_line promises.
LineComplete ==
    phase \in {"expand", "emit"} /\ Len(stack) <= 1 =>
        LET l == IF phase = "expand" THEN Top.list ELSE line
        IN  \A i \in DOMAIN l : l[i] = NEWLINE <=> i = Len(l)
=============================================================================
